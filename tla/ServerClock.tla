---------------------------- MODULE ServerClock ----------------------------
(***************************************************************************)
(* One person's time card on the server: the clock RPCs of                 *)
(* 20261028000000_clock_integrity.sql, the older clock_in overloads that   *)
(* stay callable, the roster's clock_in_for and clock_out_for, and the     *)
(* office's corrections.  A phone's punch carries the one-time id and the  *)
(* time of its tap; it may arrive late, out of order, or again.            *)
(*                                                                         *)
(* A refused call changes nothing, so a refusal is an action that is not   *)
(* enabled.  The toolbox gate refuses clock-ins only; ToolboxDay models    *)
(* it.  Two sends of one id at once end as one: the second waits for the   *)
(* row and is refused, or its ledger insert breaks the primary key and     *)
(* rolls back.                                                             *)
(*                                                                         *)
(* A call that locks the row it read is one step.  The roster's and the    *)
(* office's closes read with no lock and then write by the row's id alone, *)
(* so theirs may land on what another call has written since they looked:  *)
(* wasOpen and wasUnended keep what they may have seen.                    *)
(***************************************************************************)
EXTENDS Integers, Sequences, FiniteSets

CONSTANTS ClockIns, ClockOuts, BreakStarts, BreakEnds, \* the phone's one-time ids
          NoShift,
          Cap,       \* shift_cap_hours
          Horizon,   \* bound: the last moment of the run
          MaxShift,  \* bound: rows of time_shifts
          MaxOther,  \* bound: calls with no one-time id: old bundles, the roster, the office
          Unchecked, \* bound: punches that may be of a phone whose time pay must not use
          MaxTxn     \* bound: clock-in transactions running at once

\* The bounds are numbers, and a one-time id is one punch's and no row's.
ASSUME ClockBounds == {Cap, Horizon, MaxShift, MaxOther} \subseteq Nat
ASSUME ClockIds ==
    /\ IsFiniteSet(ClockIns \cup ClockOuts \cup BreakStarts \cup BreakEnds)
    /\ ClockIns \cap (ClockOuts \cup BreakStarts \cup BreakEnds) = {}
    /\ ClockOuts \cap (BreakStarts \cup BreakEnds) = {}
    /\ \A ref \in ClockIns \cup {NoShift} : ref \notin Nat
    /\ NoShift \notin ClockIns

Ids == ClockIns \cup ClockOuts \cup BreakStarts \cup BreakEnds

VARIABLES now, shifts, ledger, taps, txns, others,
          mixed,      \* history: the shifts whose breaks did not come in the order of one phone's taps
          crossed,    \* history: the pairs of rows whose clock-ins ran at once
          wasOpen,    \* the rows that were open at some moment of this hour,
          wasUnended  \* and those that had no finish

vars == <<now, shifts, ledger, taps, txns, others, mixed, crossed, wasOpen, wasUnended>>

NoTime == -1
NoTap == [at |-> NoTime, nth |-> 0, trusted |-> FALSE, ref |-> NoShift, secs |-> 0]
Times == NoTime..Horizon
Status == {"open", "submitted", "approved", "needs_finish", "voided", "rejected"}

\* A row of time_shifts.  byHand: the office typed a time (edited_at), restored
\* the row or closed one that was closed since it looked (their audit lines);
\* auto: closedReason, auto-closed.
Shift == [in : 0..Horizon, out : Times, brk : Times, secs : Nat, last : Times,
          status : Status, marked : BOOLEAN, auto : BOOLEAN, byHand : BOOLEAN]

Larger(a, b) == IF a > b THEN a ELSE b
Latest(S) == CHOOSE t \in S : \A u \in S : u <= t

Rows == DOMAIN shifts
IsOpen(s) == shifts[s].status = "open" /\ shifts[s].out = NoTime
OpenShifts == {s \in Rows : IsOpen(s)}
Unended == {s \in Rows : shifts[s].out = NoTime}

\* The shift a punch names: a row, or the row its clock-in became.
Target(id) == LET r == taps[id].ref IN IF r \in ClockIns THEN ledger[r] ELSE r

TypeOK ==
    /\ now \in 0..Horizon
    /\ shifts \in Seq(Shift) /\ Len(shifts) <= MaxShift
    /\ ledger \in [Ids -> Rows \cup {NoShift}]
    /\ taps \in [Ids -> [at : Times, nth : Nat, trusted : BOOLEAN, secs : Nat,
                      ref : 1..MaxShift \cup ClockIns \cup {NoShift}]]
    /\ \A x \in txns : x.seen \subseteq Rows /\ x.there \subseteq Rows
    /\ others \in 0..MaxOther
    /\ mixed \subseteq Rows /\ wasOpen \subseteq Rows /\ wasUnended \subseteq Rows
    /\ crossed \subseteq Rows \X Rows

Init ==
    /\ now = 0
    /\ shifts = <<>>
    /\ ledger = [id \in Ids |-> NoShift]
    /\ taps = [id \in Ids |-> NoTap]
    /\ txns = {}
    /\ others = 0
    /\ mixed = {} /\ crossed = {}
    /\ wasOpen = {} /\ wasUnended = {}

\* A transaction's now() is the time it began; none outlives the hour.
Tick ==
    /\ now < Horizon
    /\ txns = {}
    /\ now' = now + 1
    /\ wasOpen' = OpenShifts /\ wasUnended' = Unended
    /\ UNCHANGED <<shifts, ledger, taps, txns, others, mixed, crossed>>

----------------------------------------------------------------------------
(* The phones.                                                             *)

\* A shift the phone made up from a queued clock-in is the row that became of it.
Landed(ref) == IF ref \in ClockIns THEN (IF ledger[ref] = NoShift THEN ref ELSE ledger[ref]) ELSE ref
TappedOn(S, ref) == {id \in S : taps[id] # NoTap /\ Landed(taps[id].ref) = Landed(ref)}

\* What the phone shows of a shift: the row, and on top of it the phone's own
\* punches that are still to be sent, in the order of their taps.
ShownOpen(ref) ==
    /\ IF ref \in ClockIns
       THEN taps[ref] # NoTap /\ (ledger[ref] # NoShift => IsOpen(ledger[ref]))
       ELSE ref # NoShift /\ IsOpen(ref)
    /\ TappedOn(ClockOuts, ref) = {}

NoBreaks == [brk |-> NoTime, secs |-> 0]
RowsBreaks(ref) ==
    IF Landed(ref) \in Rows
    THEN [brk |-> shifts[Landed(ref)].brk, secs |-> shifts[Landed(ref)].secs] ELSE NoBreaks

\* A start while a break runs, and an end while none does, change nothing.
ApplyQueued(view, id) ==
    IF id \in BreakStarts
    THEN [view EXCEPT !.brk = IF @ = NoTime THEN taps[id].at ELSE @]
    ELSE IF view.brk = NoTime THEN view
    ELSE [brk |-> NoTime, secs |-> view.secs + Larger(0, taps[id].at - view.brk)]

Queued(ref) == {id \in TappedOn(BreakStarts \cup BreakEnds, ref) : ledger[id] = NoShift}
Tapped == {id \in Ids : taps[id] # NoTap}
NthTap(n) == CHOOSE id \in Ids : taps[id].nth = n

Shown(ref) ==
    LET After[n \in 0..Cardinality(Tapped)] ==
            IF n = 0 THEN RowsBreaks(ref)
            ELSE IF NthTap(n) \in Queued(ref) THEN ApplyQueued(After[n - 1], NthTap(n))
            ELSE After[n - 1]
    IN  After[Cardinality(Tapped)]

ShownOnBreak(ref) == Shown(ref).brk # NoTime

\* The break total a clock-out carries: what the phone shows at the tap.
PhoneBreak(ref) ==
    LET view == Shown(ref)
    IN  view.secs + IF view.brk = NoTime THEN 0 ELSE Larger(0, now - view.brk)

\* A tap, on a phone whose clock was checked and found right, or on one whose
\* time pay must not use (never checked, off, ahead of the server).
Tap(id, ref) ==
    /\ taps[id] = NoTap
    /\ \/ id \in ClockIns /\ ref = NoShift
       \/ id \in ClockOuts /\ ShownOpen(ref)
       \/ id \in BreakStarts /\ ShownOpen(ref) /\ ~ShownOnBreak(ref)
       \/ id \in BreakEnds /\ ShownOpen(ref) /\ ShownOnBreak(ref)
    /\ \E trusted \in {TRUE, id \notin Unchecked} :
         taps' = [taps EXCEPT ![id] =
                    [at |-> now, nth |-> Cardinality(Tapped) + 1,
                     trusted |-> trusted, ref |-> ref,
                     secs |-> IF id \in ClockOuts THEN PhoneBreak(ref) ELSE 0]]
    /\ UNCHANGED <<now, shifts, ledger, txns, others, mixed, crossed, wasOpen, wasUnended>>

\* A punch that has arrived and is not in the ledger: a repeat is answered
\* with the first result and changes nothing.
Arrives(id) == taps[id] # NoTap /\ ledger[id] = NoShift

\* Mutant: the tap is taken whatever came before it.
PickTime_NoFloor(id, notBefore) ==
    LET t == taps[id]
        ok == t.trusted /\ now - t.at <= Cap
    IN  [pay |-> IF ok THEN t.at ELSE now, used |-> ok]

\* _clock_pick_time.
PickTime(id, notBefore) ==
    LET t == taps[id]
        ok == t.trusted /\ now - t.at <= Cap /\ t.at >= notBefore
    IN  [pay |-> IF ok THEN t.at ELSE now, used |-> ok]

LastPunch(s) == Larger(shifts[s].in, Larger(shifts[s].brk, shifts[s].last))

\* What a break still running at t adds to the total.
Running(s, t) == IF shifts[s].brk = NoTime THEN 0 ELSE Larger(0, t - shifts[s].brk)

Write(s, row) == shifts' = [shifts EXCEPT ![s] = row]

Close(s, row, t, secs) ==
    [row EXCEPT !.out = t, !.secs = secs, !.brk = NoTime, !.status = "submitted"]

----------------------------------------------------------------------------
(* Clock in.  The overloads take no common lock, so a transaction is a     *)
(* read of what is open and, later, the commit of what it did; the keyed   *)
(* overload holds an advisory lock and runs alone among its kind.          *)

BeginClockIn(kind, id) ==
    /\ Cardinality(txns) < MaxTxn
    /\ Len(shifts) < MaxShift
    /\ kind = "keyed" => Arrives(id) /\ \A x \in txns : x.kind # "keyed"
    /\ kind # "keyed" => id = NoShift /\ \A x \in txns : x.kind # kind
    /\ kind # "keyed" => others < MaxOther
    /\ others' = IF kind = "keyed" THEN others ELSE others + 1
    /\ txns' = txns \cup {[kind |-> kind, id |-> id, seen |-> OpenShifts, there |-> Rows]}
    /\ UNCHANGED <<now, shifts, ledger, taps, mixed, crossed, wasOpen, wasUnended>>

\* _close_dangling_shift on the rows the transaction saw open and still are.
CloseDangling(seen) ==
    [s \in Rows |->
        IF s \notin seen \/ ~IsOpen(s) THEN shifts[s]
        ELSE IF now - shifts[s].in <= Cap
             THEN [shifts[s] EXCEPT !.out = now, !.status = "submitted", !.auto = TRUE]
             ELSE [shifts[s] EXCEPT !.status = "needs_finish", !.brk = NoTime]]

\* The latest moment any shift that still counts reached.
PreviousEnd(rows) ==
    Latest({NoTime} \cup {Larger(rows[s].in, rows[s].out) : s \in {r \in Rows : rows[r].status # "voided"}})

\* Mutant: nothing is asked of the shift before.
StartOf_TapTime(x, rows) ==
    IF x.kind # "keyed" THEN [pay |-> now, used |-> TRUE] ELSE PickTime(x.id, NoTime)

\* Mutant: a late punch starts where the last shift ended, or nowhere.
StartOf_Chained(x, rows) ==
    IF x.kind # "keyed" THEN [pay |-> now, used |-> TRUE]
    ELSE [pay |-> PreviousEnd(rows), used |-> TRUE]

\* When the new shift starts, and whether pay had to fall back to arrival.
StartOf(x, rows) ==
    IF x.kind # "keyed" THEN [pay |-> now, used |-> TRUE]
    ELSE IF x.seen # {} THEN [pay |-> now, used |-> FALSE]
    ELSE LET p == PickTime(x.id, NoTime)
         IN  IF p.pay < PreviousEnd(rows) THEN [pay |-> now, used |-> FALSE] ELSE p

\* The rows that came while the transaction ran.
Crossings(x, s) == {<<r, s>> : r \in Rows \ x.there}

CommitClockIn(x) ==
    LET rows == CloseDangling(x.seen)
        p == StartOf(x, rows)
        new == [in |-> p.pay, out |-> NoTime, brk |-> NoTime, secs |-> 0,
                last |-> IF x.kind = "keyed" THEN p.pay ELSE NoTime,
                status |-> "open", marked |-> ~p.used, auto |-> FALSE, byHand |-> FALSE]
        s == Len(shifts) + 1
    IN  /\ x \in txns /\ Len(shifts) < MaxShift
        /\ shifts' = Append(rows, new)
        /\ ledger' = IF x.kind = "keyed" THEN [ledger EXCEPT ![x.id] = s] ELSE ledger
        /\ txns' = txns \ {x}
        /\ crossed' = crossed \cup Crossings(x, s)
        /\ wasOpen' = wasOpen \cup {s} /\ wasUnended' = wasUnended \cup {s}
        /\ UNCHANGED <<now, taps, others, mixed>>

----------------------------------------------------------------------------
(* The keyed punches on a shift.  Each takes the row's lock, so it is one  *)
(* step.                                                                   *)

Record(id, s) ==
    /\ ledger' = [ledger EXCEPT ![id] = s]
    /\ UNCHANGED <<now, taps, txns, others, crossed, wasOpen, wasUnended>>

\* Mutant: the shift may be closed already.
ClockOut_Closed(id) ==
    /\ Arrives(id) /\ Target(id) # NoShift
    /\ UNCHANGED mixed
    /\ LET s == Target(id)
           p == PickTime(id, LastPunch(s))
       IN  /\ \E total \in {taps[id].secs, shifts[s].secs + Running(s, p.pay)} :
                Write(s, [Close(s, shifts[s], p.pay, total) EXCEPT
                            !.last = p.pay, !.status = shifts[s].status, !.marked = @ \/ ~p.used])
           /\ Record(id, s)

ClockOut(id) ==
    /\ Arrives(id) /\ Target(id) # NoShift /\ IsOpen(Target(id))
    /\ UNCHANGED mixed
    /\ LET s == Target(id)
           p == PickTime(id, LastPunch(s))
       IN  /\ \E total \in {taps[id].secs, shifts[s].secs + Running(s, p.pay)} :
                Write(s, [Close(s, shifts[s], p.pay, total) EXCEPT
                            !.last = p.pay, !.marked = @ \/ ~p.used])
           /\ Record(id, s)

\* A break punch that arrives while one tapped before it is still on the phone.
Overtakes(id) ==
    \E other \in Queued(taps[id].ref) : taps[other].nth < taps[id].nth
NoteOrder(id) == mixed' = IF Overtakes(id) THEN mixed \cup {Target(id)} ELSE mixed

StartBreak(id) ==
    /\ Arrives(id) /\ Target(id) # NoShift /\ IsOpen(Target(id))
    /\ NoteOrder(id)
    /\ LET s == Target(id)
           p == PickTime(id, Larger(shifts[s].in, shifts[s].last))
       IN  /\ IF shifts[s].brk # NoTime THEN UNCHANGED shifts \* already_on_break
              ELSE Write(s, [shifts[s] EXCEPT !.brk = p.pay, !.last = p.pay, !.marked = @ \/ ~p.used])
           /\ Record(id, s)

EndBreak(id) ==
    /\ Arrives(id) /\ Target(id) # NoShift
    /\ NoteOrder(id)
    /\ LET s == Target(id)
           p == PickTime(id, Larger(shifts[s].brk, shifts[s].last))
       IN  /\ CASE ~IsOpen(s) -> UNCHANGED shifts             \* shift_closed
                [] IsOpen(s) /\ shifts[s].brk = NoTime ->     \* no_break_running
                     Write(s, [shifts[s] EXCEPT !.marked = TRUE])
                [] OTHER ->
                     Write(s, [shifts[s] EXCEPT !.secs = @ + Running(s, p.pay), !.brk = NoTime,
                                                !.last = p.pay, !.marked = @ \/ ~p.used])
           /\ Record(id, s)

----------------------------------------------------------------------------
(* The legacy signatures, at now(), with no key.                           *)

Other ==
    /\ others < MaxOther /\ others' = others + 1
    /\ UNCHANGED <<now, ledger, taps, txns, crossed, wasUnended>>

LegacyClockOut(s) ==
    /\ Other /\ UNCHANGED <<mixed, wasOpen>>
    /\ IsOpen(s)
    /\ \E total \in {shifts[s].secs, shifts[s].secs + Running(s, now)} :
         Write(s, [Close(s, shifts[s], now, total) EXCEPT !.last = now])

LegacyStartBreak(s) ==
    /\ Other
    /\ mixed' = mixed \cup {s} /\ UNCHANGED wasOpen
    /\ IsOpen(s) /\ shifts[s].brk = NoTime
    /\ Write(s, [shifts[s] EXCEPT !.brk = now, !.last = now])

\* No look at the status: a break left running by an auto-close still ends.
LegacyEndBreak(s) ==
    /\ Other
    /\ mixed' = mixed \cup {s} /\ UNCHANGED wasOpen
    /\ shifts[s].brk # NoTime
    /\ Write(s, [shifts[s] EXCEPT !.secs = @ + Running(s, now), !.brk = NoTime, !.last = now])

----------------------------------------------------------------------------
(* The roster and the office.                                              *)

\* clock_out_for: the shift it finds open with the latest start; where it was
\* closed after the look, the call closes it again, now.
ClockOutFor(s) ==
    /\ Other /\ UNCHANGED <<mixed, wasOpen>>
    /\ s \in wasOpen
    /\ IsOpen(s) => \A t \in OpenShifts \cup {r \in Rows : shifts[r].status = "needs_finish"} :
                       shifts[t].in <= shifts[s].in
    /\ Write(s, [Close(s, shifts[s], now, shifts[s].secs + Running(s, now)) EXCEPT
                    !.byHand = @ \/ ~IsOpen(s)])

Void(s) ==
    /\ Other /\ UNCHANGED <<mixed, wasOpen>>
    /\ shifts[s].status # "voided"
    /\ Write(s, [shifts[s] EXCEPT !.status = "voided"])

Restore(s) ==
    /\ Other /\ UNCHANGED mixed
    /\ shifts[s].status = "voided"
    /\ wasOpen' = IF shifts[s].out = NoTime THEN wasOpen \cup {s} ELSE wasOpen
    /\ Write(s, [shifts[s] EXCEPT !.byHand = TRUE,
                    !.status = IF shifts[s].out # NoTime THEN "submitted" ELSE "open"])

\* finish_shift_at: the finish time the app refused to guess, and the breaks if
\* they are typed too (no break stands for any other total).  Its one guard on the
\* row is clock_out_at, at the look.  (Its two minutes of the future are none of
\* these hours.)
FinishAt(s, t) ==
    /\ Other /\ UNCHANGED <<mixed, wasOpen>>
    /\ s \in wasUnended /\ t > shifts[s].in /\ t <= now
    /\ \E total \in {shifts[s].secs, 0} :
         Write(s, [Close(s, shifts[s], t, total) EXCEPT !.byHand = TRUE])

\* reject_shift asks nothing of the row.
Reject(s) ==
    /\ Other /\ UNCHANGED <<mixed, wasOpen>>
    /\ shifts[s].status # "rejected"
    /\ Write(s, [shifts[s] EXCEPT !.status = "rejected"])

\* edit_shift: an approved time that changes, or its project or cost code, must
\* be approved again; a rejected one goes to the review.
EditShift(s, from, to) ==
    /\ Other /\ UNCHANGED <<mixed, wasOpen>>
    /\ shifts[s].status # "voided"
    /\ from \in 0..now /\ to \in {shifts[s].out} \cup 0..now
    /\ \E total \in {shifts[s].secs, 0}, moved \in BOOLEAN :
         LET changed == \/ from # shifts[s].in \/ to # shifts[s].out
                        \/ total # shifts[s].secs \/ moved
             typed == to # shifts[s].out
         IN  Write(s, [shifts[s] EXCEPT !.in = from, !.out = to, !.secs = total, !.byHand = TRUE,
                          !.status = IF \/ @ = "approved" /\ changed
                                        \/ @ = "rejected"
                                        \/ @ \in {"open", "needs_finish"} /\ typed
                                     THEN "submitted" ELSE @])

\* close_shift_as_no_work looks at clock_out_at alone, and writes by the id.
CloseAsNoWork(s) ==
    /\ Other /\ UNCHANGED <<mixed, wasOpen>>
    /\ s \in wasUnended
    /\ Write(s, [Close(s, shifts[s], shifts[s].in, 0) EXCEPT !.status = "approved", !.byHand = TRUE])

\* approve_timecard_week refuses unless the rows are the ones the reviewer was
\* looking at, so a stale review is a refusal.
ApproveWeek ==
    /\ Other /\ UNCHANGED <<mixed, wasOpen>>
    /\ \E s \in Rows : shifts[s].status = "submitted"
    /\ \A s \in Rows : shifts[s].status # "voided" => shifts[s].status \in {"submitted", "approved"}
                                                     /\ shifts[s].out # NoTime
    /\ shifts' = [s \in Rows |-> IF shifts[s].status = "submitted"
                                 THEN [shifts[s] EXCEPT !.status = "approved"] ELSE shifts[s]]

Unapprove(s) ==
    /\ Other /\ UNCHANGED <<mixed, wasOpen>>
    /\ shifts[s].status = "approved"
    /\ Write(s, [shifts[s] EXCEPT !.status = "submitted", !.byHand = TRUE])

----------------------------------------------------------------------------

Next ==
    \/ Tick
    \/ \E id \in Ids : \E ref \in Rows \cup ClockIns \cup {NoShift} : Tap(id, ref)
    \/ \E id \in ClockIns : BeginClockIn("keyed", id)
    \/ \E kind \in {"legacy", "roster"} : BeginClockIn(kind, NoShift)
    \/ \E x \in txns : CommitClockIn(x)
    \/ \E id \in ClockOuts : ClockOut(id)
    \/ \E id \in BreakStarts : StartBreak(id)
    \/ \E id \in BreakEnds : EndBreak(id)
    \/ \E s \in Rows : \/ LegacyClockOut(s) \/ LegacyStartBreak(s) \/ LegacyEndBreak(s)
                       \/ ClockOutFor(s)
                       \/ Void(s) \/ Restore(s) \/ Reject(s) \/ CloseAsNoWork(s) \/ Unapprove(s)
                       \/ \E t \in 0..now : FinishAt(s, t)
                       \/ \E from \in 0..now, to \in NoTime..now : EditShift(s, from, to)
    \/ ApproveWeek

Spec == Init /\ [][Next]_vars

----------------------------------------------------------------------------

\* The hours a shift counts: from its clock-in to its clock-out, or to now
\* while it is open.  One waiting for its finish time counts none.
Counts(s) == shifts[s].status \in {"open", "submitted", "approved"}
EndOf(s) == IF shifts[s].out = NoTime THEN now ELSE shifts[s].out

\* NO HOUR IS PAID TWICE: however late, out of order or often the punches
\* arrive, from however many phones and from the roster, two shifts that
\* count and whose times nobody typed do not overlap, unless their two clock-ins
\* ran at once (which is OneActivePunch's) or the office closed one of them again
\* on a look that no longer held.
NoHourPaidTwice ==
    \A s, t \in Rows :
        s < t /\ <<s, t>> \notin crossed
        /\ Counts(s) /\ Counts(t) /\ ~shifts[s].byHand /\ ~shifts[t].byHand
        => EndOf(s) <= shifts[t].in

\* THE PUNCHES OF A SHIFT FIT: its break and its clock-out come after its
\* clock-in, and the breaks deducted are no longer than the shift, unless the
\* shift is marked for review.  (A shift closed by the next clock-in may still
\* have a break running; see LunchIsDeducted.  The total a clock-out carries is
\* taken as it comes, so where a break punch was overtaken by a later one, or an
\* old bundle took a break too, one break may be deducted twice; see
\* BreakCountsOnce.)
PunchesFit ==
    \A s \in Rows : Counts(s) /\ ~shifts[s].byHand =>
        /\ shifts[s].brk # NoTime => shifts[s].in <= shifts[s].brk
        /\ shifts[s].in <= EndOf(s)
        /\ ~shifts[s].marked /\ ~shifts[s].auto /\ s \notin mixed
              => shifts[s].secs <= EndOf(s) - shifts[s].in

\* app/src/lib/offline/outbox-core.ts:450 - among punches the order is that of
\* the taps, so no break is deducted twice: the breaks are no longer than the
\* shift whichever of its punches had to wait.
BreakCountsOnce ==
    \A s \in Rows : Counts(s) /\ ~shifts[s].byHand /\ ~shifts[s].marked /\ ~shifts[s].auto
                    => shifts[s].secs <= EndOf(s) - shifts[s].in

\* A close as no work leaves no hours.
WrittenOff(s) == shifts'[s].in = shifts[s].in /\ shifts'[s].out = shifts[s].in /\ shifts'[s].secs = 0

\* AN APPROVED TIME STANDS: while a shift stays approved no late punch,
\* resend or correction moves what it pays; a change sends it back for
\* another approval.  (A close as no work that looked within the hour, before the
\* shift had its finish, writes it off all the same.  Where a break was left
\* running the legacy end_break would still add it; see LunchIsDeducted.)
ApprovedTimeStands ==
    [][\A s \in Rows : shifts[s].status = "approved" /\ shifts'[s].status = "approved"
                    /\ shifts[s].brk = NoTime =>
          \/ /\ shifts'[s].in = shifts[s].in /\ shifts'[s].out = shifts[s].out
             /\ shifts'[s].secs = shifts[s].secs
          \/ s \in wasUnended /\ WrittenOff(s)]_vars

\* 20260945000000_time_autoclose_reason.sql:1 - one active punch,
\* server-enforced.
OneActivePunch == Cardinality(OpenShifts) <= 1

\* 20260985000000_clock_the_crew.sql:399 - a person clocked out while at
\* lunch is not paid for the lunch: no shift closed by a call other than an
\* edit of its times still has its break running.
LunchIsDeducted ==
    \A s \in Rows : Counts(s) /\ shifts[s].out # NoTime /\ ~shifts[s].byHand => shifts[s].brk = NoTime
=============================================================================
