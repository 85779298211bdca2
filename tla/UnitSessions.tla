---------------------------- MODULE UnitSessions ----------------------------
(***************************************************************************)
(* What each person on the clock is working on: the rows of unit_sessions  *)
(* (and of custom and service work, which exclude them), written by the    *)
(* unit RPCs and by the triggers that follow a person's shift.             *)
(*                                                                         *)
(* Of the rows that ended, the code here reads again only the ones a break *)
(* ended, and of those the latest on each opening; the model keeps how many *)
(* breaks ago that was.                                                    *)
(* The minutes a finish counts are not modelled.                           *)
(***************************************************************************)
EXTENDS Integers

CONSTANTS People, Openings,
          Field,  \* custom or service work, which is on no opening
          Nothing

ASSUME UnitConstants == Field \notin Openings /\ Nothing \notin Openings

VARIABLES shift,     \* each person's time_shifts row, as the triggers see it
          running,   \* the open rows of each person
          paused,    \* how many breaks ago one took each person off an opening, or 0
          stopped,   \* what the running break took them off
          installed, \* openings whose status is installed
          redo,      \* openings with an unresolved redo
          refused,   \* people whose end of break was refused
          late       \* people off the clock with a call under way that found them on it

unitVars == <<shift, running, paused, stopped, installed, redo, refused, late>>

Row == [at : Openings \cup {Field}, role : {"install", "helper"}]

TypeUnits ==
    /\ shift \in [People -> {"out", "in", "break", "voided"}]
    /\ running \in [People -> SUBSET Row]
    /\ paused \in [People -> [Openings -> Nat]]
    /\ stopped \in [People -> Openings \cup {Field, Nothing}]
    /\ installed \subseteq Openings /\ redo \subseteq Openings
    /\ refused \subseteq People /\ late \subseteq People

InitUnits ==
    /\ shift = [p \in People |-> "out"]
    /\ running = [p \in People |-> {}]
    /\ paused = [p \in People |-> [o \in Openings |-> 0]]
    /\ stopped = [p \in People |-> Nothing]
    /\ installed = {} /\ redo = {} /\ refused = {} /\ late = {}

OnTheClock(p) == shift[p] \in {"in", "break"}
On(o) == {r \in Row : r.at = o}
Units(rows) == {r \in rows : r.at # Field}

\* Starting one piece of work hands off the one before it, and each kind ends
\* the other (_end_open_session, custom_work_follow_legacy, service_follow_work).
Handed(rows, at, role) == {[at |-> at, role |-> role]}
Work(p, rows) == running' = [running EXCEPT ![p] = rows]

----------------------------------------------------------------------------
(* The RPCs.                                                               *)

Sheet == <<installed, redo>>
Breaks == <<paused, stopped, refused>>

\* The calls that start work on a unit look for an open shift with no lock and
\* insert the row later.  Whether a look and its insert fall on both sides of
\* the end of the shift is chosen at that end, which puts the person in late.
FoundOnTheClock(p) == OnTheClock(p) \/ p \in late

StartUnit(p, o, role) ==
    /\ FoundOnTheClock(p)
    /\ late' = late \ {p}
    /\ Work(p, Handed(running[p], o, role))
    /\ UNCHANGED shift /\ UNCHANGED Breaks /\ UNCHANGED Sheet

\* custom_work_command and the service commands, which hold the shift's row.
\* On a break only a start tapped before it is taken, and none where the break,
\* or work since, would be overlapped.  One tapped before a clock-out is filed
\* with its end, and nothing runs.
StartField(p) ==
    /\ shift[p] = "in" \/ (shift[p] = "break" /\ stopped[p] = Nothing /\ running[p] = {})
    /\ Work(p, Handed(running[p], Field, "install"))
    /\ UNCHANGED <<shift, late>> /\ UNCHANGED Breaks /\ UNCHANGED Sheet

\* The chain's grace: within five minutes the open row moves to another unit.
Reattribute(p, o) ==
    /\ Units(running[p]) # {}
    /\ Work(p, {[r EXCEPT !.at = IF @ = Field THEN Field ELSE o] : r \in running[p]})
    /\ UNCHANGED <<shift, late>> /\ UNCHANGED Breaks /\ UNCHANGED Sheet

\* The next unit starts in the same transaction, with the same look at the
\* clock; a refused start is swallowed.
Chain(p, rows, next) ==
    IF next = {} \/ ~FoundOnTheClock(p) THEN rows
    ELSE UNION {Handed(rows, o, "install") : o \in next}
Spent(p, next) == IF next = {} THEN late ELSE late \ {p}

FinishUnit(p, o, next) ==
    /\ o \notin installed
    /\ Work(p, Chain(p, running[p] \ On(o), next))
    /\ late' = Spent(p, next)
    /\ installed' = installed \cup {o} /\ redo' = redo \ {o}
    /\ UNCHANGED shift /\ UNCHANGED Breaks

BlockUnit(p, o, next) ==
    /\ Work(p, Chain(p, running[p] \ On(o), next))
    /\ late' = Spent(p, next)
    /\ UNCHANGED shift /\ UNCHANGED Breaks /\ UNCHANGED Sheet

PressRedo(o) ==
    /\ o \notin redo
    /\ redo' = redo \cup {o} /\ installed' = installed \ {o}
    /\ UNCHANGED <<shift, running, late>> /\ UNCHANGED Breaks

----------------------------------------------------------------------------
(* What follows the shift (unit_sessions_follow_shift and its siblings).   *)

\* The unit a break gives back: of all the rows any break ever ended, the
\* latest whose unit is not installed.
HeldUnit(p) == LET held == {o \in Openings \ installed : paused[p][o] > 0}
               IN  IF held = {} THEN Nothing
                   ELSE CHOOSE o \in held : \A q \in held : paused[p][o] <= paused[p][q]

Resumed(p) ==
    IF stopped[p] = Field \/ HeldUnit(p) = Nothing THEN running[p]
    ELSE Handed(running[p], HeldUnit(p), "install")

\* unit_sessions_one_open refuses a second row, and with it the whole call.
ResumeRefused(p) == stopped[p] # Field /\ HeldUnit(p) # Nothing /\ Units(running[p]) # {}

\* A break ends what runs: the openings in at were left just now, the others a
\* break longer ago.
Aged(ago, at) == [o \in DOMAIN ago \cup at |-> IF o \in at THEN 1 ELSE IF ago[o] = 0 THEN 0 ELSE ago[o] + 1]

\* Mutant: field work is held like a unit.
StartBreak_FieldToo(p) ==
    /\ shift[p] = "in"
    /\ shift' = [shift EXCEPT ![p] = "break"]
    /\ Work(p, {})
    /\ LET at == {r.at : r \in running[p]}
       IN  /\ stopped' = [stopped EXCEPT ![p] = IF at = {} THEN Nothing ELSE CHOOSE o \in at : TRUE]
           /\ paused' = [paused EXCEPT ![p] = Aged(@, at)]
    /\ UNCHANGED <<refused, late>> /\ UNCHANGED Sheet

\* Mutant: a helper's unit is not held.
StartBreak_InstallOnly(p) ==
    /\ shift[p] = "in"
    /\ shift' = [shift EXCEPT ![p] = "break"]
    /\ Work(p, {})
    /\ LET at == {r.at : r \in running[p]}
           held == {r.at : r \in {x \in Units(running[p]) : x.role = "install"}}
       IN  /\ stopped' = [stopped EXCEPT ![p] = IF at = {} THEN Nothing ELSE CHOOSE o \in at : TRUE]
           /\ paused' = [paused EXCEPT ![p] = Aged(@, held)]
    /\ UNCHANGED <<refused, late>> /\ UNCHANGED Sheet

StartBreak(p) ==
    /\ shift[p] = "in"
    /\ shift' = [shift EXCEPT ![p] = "break"]
    /\ Work(p, {})
    /\ LET at == {r.at : r \in running[p]}
       IN  /\ stopped' = [stopped EXCEPT ![p] = IF at = {} THEN Nothing ELSE CHOOSE o \in at : TRUE]
           /\ paused' = [paused EXCEPT ![p] = Aged(@, at \ {Field})]
    /\ UNCHANGED <<refused, late>> /\ UNCHANGED Sheet

EndBreak(p) ==
    /\ shift[p] = "break"
    /\ IF ResumeRefused(p)
       THEN refused' = refused \cup {p} /\ UNCHANGED <<shift, running, stopped>>
       ELSE /\ shift' = [shift EXCEPT ![p] = "in"]
            /\ Work(p, Resumed(p))
            /\ stopped' = [stopped EXCEPT ![p] = Nothing]
            /\ UNCHANGED refused
    /\ UNCHANGED <<paused, late>> /\ UNCHANGED Sheet

\* Mutant: a break is taken to have stopped everything.
ClockOut_BreakStopped(p) ==
    /\ OnTheClock(p)
    /\ shift' = [shift EXCEPT ![p] = "out"]
    /\ Work(p, IF shift[p] = "break" THEN running[p] ELSE {})
    /\ stopped' = [stopped EXCEPT ![p] = Nothing]
    /\ late' \in {late, late \cup {p}}
    /\ UNCHANGED <<paused, refused>> /\ UNCHANGED Sheet

\* Any call that stamps clock_out_at, a break running or not.
ClockOut(p) ==
    /\ OnTheClock(p)
    /\ shift' = [shift EXCEPT ![p] = "out"]
    /\ Work(p, {})
    /\ stopped' = [stopped EXCEPT ![p] = Nothing]
    /\ late' \in {late, late \cup {p}}
    /\ UNCHANGED <<paused, refused>> /\ UNCHANGED Sheet

\* The office voids the shift: its clock_out_at does not move, so only field
\* work ends.
Void(p) ==
    /\ OnTheClock(p)
    /\ shift' = [shift EXCEPT ![p] = "voided"]
    /\ Work(p, Units(running[p]))
    /\ stopped' = [stopped EXCEPT ![p] = Nothing]
    /\ late' \in {late, late \cup {p}}
    /\ UNCHANGED <<paused, refused>> /\ UNCHANGED Sheet

\* A clock-in closes what dangles: a shift within the cap is stamped; one over
\* it only loses its break, which the trigger takes for the end of one.  Rows
\* older than sixteen hours are swept after that.
Dangling(p, overCap) ==
    IF ~OnTheClock(p) THEN running[p]
    ELSE IF ~overCap THEN {}
    ELSE IF shift[p] = "break" THEN Resumed(p) ELSE Units(running[p])

ClockIn(p, overCap, stale) ==
    /\ overCap => OnTheClock(p)
    /\ overCap /\ shift[p] = "break" => ~ResumeRefused(p)
    /\ Work(p, IF stale THEN Dangling(p, overCap) \ Units(running[p]) ELSE Dangling(p, overCap))
    /\ shift' = [shift EXCEPT ![p] = "in"]
    /\ stopped' = [stopped EXCEPT ![p] = Nothing]
    /\ late' = late \ {p}
    /\ UNCHANGED <<paused, refused>> /\ UNCHANGED Sheet

----------------------------------------------------------------------------

NextUnits ==
    \/ \E p \in People :
         \/ StartField(p) \/ StartBreak(p) \/ EndBreak(p) \/ ClockOut(p) \/ Void(p)
         \/ \E overCap, stale \in BOOLEAN : ClockIn(p, overCap, stale)
         \/ \E o \in Openings :
              \/ \E role \in {"install", "helper"} : StartUnit(p, o, role)
              \/ Reattribute(p, o)
              \/ \E next \in {{n} : n \in Openings \ {o}} \cup {{}} : FinishUnit(p, o, next) \/ BlockUnit(p, o, next)
    \/ \E o \in Openings : PressRedo(o)

SpecUnits == InitUnits /\ [][NextUnits]_unitVars

----------------------------------------------------------------------------

\* ONE THING AT A TIME: nobody has two pieces of work running, on units or in
\* the field, whichever screen, trigger or colleague started them.
OneThingAtATime == \A p \in People : \A r, s \in running[p] : r = s

\* OFF THE CLOCK IS OFF THE UNIT: a clock-out, by whichever door, on a break or
\* not, helping or in the field, leaves nothing of that person's running; and
\* from then to the next clock-in nothing starts, by chain, answer or resume,
\* but what a call that had found the shift open inserts late.
StaysOff(p) ==
    shift'[p] = "out" /\ running'[p] # {} => shift[p] = "out" /\ (running[p] # {} \/ p \in late)
OffTheClock == [][\A p \in People : StaysOff(p)]_unitVars

\* 20261031000000_new_front_door.sql:744 - "clock in before starting a task": nothing
\* runs of a person whose shift has ended, whenever the start was asked for.
NothingRunsOffTheClock == \A p \in People : shift[p] = "out" => running[p] = {}

\* A BREAK GIVES BACK WHAT IT TOOK: ending it puts the person back on the unit
\* it took them off, unless that unit was installed meanwhile.
BreakGivesBack ==
    [][\A p \in People : EndBreak(p) /\ shift'[p] = "in" /\ stopped[p] \in Openings \ installed
                         => {r.at : r \in running'[p]} = {stopped[p]}]_unitVars

\* 20261017000000_servicing_visits.sql:442 - ending a break goes straight back
\* on the held unit: one that stopped nothing starts nothing.
BreakStartsNothing ==
    [][\A p \in People : EndBreak(p) /\ stopped[p] = Nothing => running'[p] = running[p]]_unitVars

\* CONTEXT.md:150 - ending a break puts the installer straight back on the held
\* unit: the call is never refused.
EndOfBreakIsTaken == refused = {}
=============================================================================
