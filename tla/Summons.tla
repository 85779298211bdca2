------------------------------ MODULE Summons ------------------------------
(***************************************************************************)
(* Calls for hands: a summon on a window or on the whole job, the seats    *)
(* its helpers take, the points they are paid, and the work an answer      *)
(* starts and an ending stops in UnitSessions.                             *)
(*                                                                         *)
(* Every RPC but complete_summon_help locks the summon's row before it     *)
(* reads or writes a seat, so it is one step, but for answer_summon's look *)
(* at the caller's clock, which comes before the lock;          *)
(* create_summon looks for a live call with no lock and inserts later.     *)
(* The sweep's two statements are one step: only an answer begun in the    *)
(* last instant of a call's day could fall between them.                   *)
(***************************************************************************)
EXTENDS UnitSessions, FiniteSets

CONSTANTS Calls,
          MaxNeeded, \* bound: helpers asked for (the code's is 8)
          MaxActs    \* bound: steps of UnitSessions

ASSUME SummonConstants == IsFiniteSet(People) /\ MaxNeeded \in Nat /\ MaxActs \in Nat

VARIABLES call,   \* summons, and those being made
          help,   \* summon_helpers
          points, \* points_ledger: the sum of each answer's entries
          acts

summonVars == <<call, help, points, acts>>
allVars == <<shift, running, paused, stopped, installed, redo, refused, late, call, help, points, acts>>

Unmade == [stage |-> "none", at |-> Nothing, by |-> Nothing, needed |-> 0, old |-> FALSE]

\* A helper's row.  spent: canceled, and then completed all the same.
Places == {"none", "joined", "completed", "canceled", "spent"}

TypeOK ==
    /\ TypeUnits
    /\ call \in [Calls -> [stage : {"none", "making", "open", "covered", "closed"},
                           at : Openings \cup {Nothing}, by : People \cup {Nothing},
                           needed : 0..MaxNeeded, old : BOOLEAN]]
    /\ help \in [Calls -> [People -> Places]]
    /\ points \in [Calls -> [People -> Int]]
    /\ acts \in 0..MaxActs

Init ==
    /\ InitUnits
    /\ call = [c \in Calls |-> Unmade]
    /\ help = [c \in Calls |-> [p \in People |-> "none"]]
    /\ points = [c \in Calls |-> [p \in People |-> 0]]
    /\ acts = 0

Live(c) == call[c].stage \in {"open", "covered"}
Seated(c) == {p \in People : help[c][p] \in {"joined", "completed"}}

UnitsAlone == UNCHANGED <<shift, paused, stopped, installed, redo, refused>>

----------------------------------------------------------------------------

\* create_summon and create_job_summon: one young live call on a window (on the
\* job) is looked for ...
BeginSummon(c, p, at, needed) ==
    /\ call[c] = Unmade
    /\ \A d \in Calls : ~(Live(d) /\ call[d].at = at /\ ~call[d].old)
    /\ call' = [call EXCEPT ![c] = [stage |-> "making", at |-> at, by |-> p, needed |-> needed, old |-> FALSE]]
    /\ UNCHANGED <<help, points, acts>> /\ UNCHANGED unitVars

\* ... and the row is there at the commit.
CreateSummon(c) ==
    /\ call[c].stage = "making"
    /\ call' = [call EXCEPT ![c].stage = "open"]
    /\ UNCHANGED <<help, points, acts>> /\ UNCHANGED unitVars

\* A day has passed since it was sent.
Age(c) ==
    /\ Live(c) /\ ~call[c].old
    /\ call' = [call EXCEPT ![c].old = TRUE]
    /\ UNCHANGED <<help, points, acts>> /\ UNCHANGED unitVars

\* Mutant: the work in hand goes on.
Helping_Beside(c, p) ==
    IF call[c].at = Nothing THEN running[p]
    ELSE running[p] \cup Handed(running[p], call[c].at, "helper")

\* The helper's clock: the work in hand is handed off, and the helper is put on
\* the window; a call on the whole job starts nothing.
Helping(c, p) ==
    IF call[c].at = Nothing THEN running[p] ELSE Handed(running[p], call[c].at, "helper")

\* A row that is there and was not canceled breaks the key, so a helper who
\* finished does not answer again.
AnswerSummon(c, p) ==
    /\ Live(c) /\ ~call[c].old /\ call[c].by # p
    /\ FoundOnTheClock(p) /\ late' = late \ {p}
    /\ help[c][p] \in {"none", "canceled", "spent"}
    /\ Cardinality(Seated(c)) < call[c].needed
    /\ help' = [help EXCEPT ![c][p] = "joined"]
    /\ call' = [call EXCEPT ![c].stage =
                   IF Cardinality(Seated(c)) + 1 >= call[c].needed THEN "covered" ELSE @]
    /\ points' = [points EXCEPT ![c][p] = @ + 10]
    /\ Work(p, Helping(c, p))
    /\ UNCHANGED acts /\ UnitsAlone

\* Mutant: whatever window the helper is on now.
Stops_AnyWindow(c, people) ==
    running' = [p \in People |->
        IF p \in people THEN {r \in running[p] : r.role # "helper"} ELSE running[p]]

\* Stamping a helper's row ends that person's helper clock on the window the
\* call was for, and no other.
Stops(c, people) ==
    running' = [p \in People |->
        IF p \in people THEN {r \in running[p] : ~(r.role = "helper" /\ r.at = call[c].at)}
        ELSE running[p]]

\* Mutant: the freed seat is not offered again.
CancelHelp_StaysCovered(c, p) ==
    /\ Live(c) /\ help[c][p] = "joined"
    /\ help' = [help EXCEPT ![c][p] = "canceled"]
    /\ points' = [points EXCEPT ![c][p] = @ - 10]
    /\ Stops(c, {p})
    /\ UNCHANGED <<call, acts, late>> /\ UnitsAlone

\* Mutant: a seat given back can be given back again.
CancelHelp_Again(c, p) ==
    /\ Live(c) /\ help[c][p] \in {"joined", "canceled"}
    /\ help' = [help EXCEPT ![c][p] = "canceled"]
    /\ points' = [points EXCEPT ![c][p] = @ - 10]
    /\ call' = [call EXCEPT ![c].stage = "open"]
    /\ Stops(c, {p})
    /\ UNCHANGED <<acts, late>> /\ UnitsAlone

CancelHelp(c, p) ==
    /\ Live(c) /\ help[c][p] = "joined"
    /\ help' = [help EXCEPT ![c][p] = "canceled"]
    /\ points' = [points EXCEPT ![c][p] = @ - 10]
    /\ call' = [call EXCEPT ![c].stage = "open"]
    /\ Stops(c, {p})
    /\ UNCHANGED <<acts, late>> /\ UnitsAlone

\* The one statement looks at completed_at only, and takes no other row.
CompleteHelp(c, p) ==
    /\ help[c][p] \in {"joined", "canceled"}
    /\ help' = [help EXCEPT ![c][p] = IF @ = "joined" THEN "completed" ELSE "spent"]
    /\ Stops(c, {p})
    /\ UNCHANGED <<call, points, acts, late>> /\ UnitsAlone

\* What close_summon and the sweep share: whoever is still helping is stamped.
End(c) ==
    LET helping == {p \in People : help[c][p] = "joined"}
    IN  /\ help' = [help EXCEPT ![c] = [p \in People |-> IF p \in helping THEN "completed" ELSE @[p]]]
        /\ call' = [call EXCEPT ![c].stage = "closed"]
        /\ Stops(c, helping)
        /\ UNCHANGED <<points, acts, late>> /\ UnitsAlone

\* By hand, on a call in any state; by the sweep, on a live one a day old.
CloseSummon(c) == call[c].stage \in {"open", "covered", "closed"} /\ End(c)
ExpireSummon(c) == Live(c) /\ call[c].old /\ End(c)

----------------------------------------------------------------------------

WorkStep ==
    /\ acts < MaxActs
    /\ acts' = acts + 1
    /\ NextUnits
    /\ UNCHANGED <<call, help, points>>

Next ==
    \/ WorkStep
    \/ \E c \in Calls :
         \/ \E p \in People, at \in Openings \cup {Nothing}, needed \in 1..MaxNeeded : BeginSummon(c, p, at, needed)
         \/ CreateSummon(c) \/ Age(c) \/ CloseSummon(c) \/ ExpireSummon(c)
         \/ \E p \in People : AnswerSummon(c, p) \/ CancelHelp(c, p) \/ CompleteHelp(c, p)

Spec == Init /\ [][Next]_allVars

----------------------------------------------------------------------------

\* SEATS AND STATUS AGREE: whoever answers, backs out, answers again or
\* finishes, in any order and on however many calls, a call is covered exactly
\* while its last seat is held, never overfull, and none is left helping on a
\* call that has ended.
SeatsMatchStatus ==
    \A c \in Calls :
        /\ Live(c) => (call[c].stage = "covered" <=> Cardinality(Seated(c)) = call[c].needed)
        /\ Cardinality(Seated(c)) <= call[c].needed
        /\ call[c].stage = "closed" => \A p \in People : help[c][p] # "joined"

\* AN ANSWER IS PAID ONCE: ten points stand for each seat held and none for a
\* seat given back, however often it was taken and given back.
PointsFollowSeats ==
    \A c \in Calls, p \in People : points[c][p] = IF p \in Seated(c) THEN 10 ELSE 0

\* YESTERDAY'S CALL LEAVES TODAY'S WORK ALONE: ending a call, by hand or by the
\* sweep, stops nobody's work but that of its own helpers on its own window.
EndedCallStopsItsOwn ==
    [][\A c \in Calls : Live(c) /\ call'[c].stage = "closed" =>
          \A p \in People : \A r \in running[p] \ running'[p] :
              r.at = call[c].at /\ help[c][p] = "joined"]_allVars

\* 20260818000000_summons.sql:44 - one live summon per opening.
OneLiveCall ==
    \A c, d \in Calls : Live(c) /\ Live(d) /\ ~call[c].old /\ ~call[d].old /\ call[c].at = call[d].at => c = d

\* 20260963000000_summon_expiry.sql:46 - a helper who backed out is credited no
\* minutes, whichever call stamps the row.
BackedOutStaysOut == \A c \in Calls, p \in People : help[c][p] # "spent"
=============================================================================
