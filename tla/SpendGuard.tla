----------------------------- MODULE SpendGuard -----------------------------
(***************************************************************************)
(* The meter every paid AI call goes through: ai_spend_reserve before the  *)
(* call, ai_spend_settle or ai_spend_release after it, and the edge        *)
(* functions between them (_shared/spendGuard.ts), which fail open.        *)
(*                                                                         *)
(* A reservation is a transaction that takes the person's day row, then    *)
(* the company's month row; a settlement takes the month row, then the day *)
(* row.  Rows stay locked to the end of the transaction, so what it writes *)
(* is shown at the step that commits it.                                   *)
(***************************************************************************)
EXTENDS Integers, FiniteSets, FiniteSetsExt

CONSTANTS Calls,      \* invocations of an edge function
          Users, NoUser,
          Limits,     \* what per_user_daily_calls may be
          Caps,       \* the ceilings the owner may set
          Multiplier, \* content_multiplier
          Estimate,   \* what a call books
          Costs,      \* what it may turn out to cost
          MaxMonth,   \* bound: days (each of a month of its own)
          MaxRaises,  \* bound: times the settings are saved
          MaxLost     \* bound: verdicts that never reach the function

ASSUME SpendConstants ==
    /\ IsFiniteSet(Calls) /\ NoUser \notin Users
    /\ Limits \subseteq Nat /\ Multiplier \in Nat /\ Estimate \in Nat
    /\ Caps \subseteq Nat /\ Costs \subseteq Nat
    /\ MaxMonth \in Nat \ {0} /\ MaxRaises \in Nat /\ MaxLost \in Nat

\* limit stands for the whole of a behaviour; raises counts the saves.
VARIABLES month, limit, cap, call, days, booked, spent, alerts, told, raises, lost

vars == <<month, limit, cap, call, days, booked, spent, alerts, told, raises, lost>>

Months == 1..MaxMonth
Idle == [stage |-> "idle", user |-> NoUser, kind |-> "question", month |-> 1, cap |-> 0, then |-> "none", cost |-> 0]

\* counting: the reservation holds the day row.  settling: the settlement
\* holds the month row.  stranded: its settlement failed and nobody looks.
\* unheard: it was denied and went out all the same, the verdict lost.
\* unmetered: it went out after a reservation the database ended.
Stages == {"idle", "counting", "allowed", "denied", "unheard", "unmetered", "stranded", "settling", "settled", "released", "refunded"}

TypeOK ==
    /\ month \in Months /\ limit \in Limits /\ cap \in Caps
    /\ call \in [Calls -> [stage : Stages, user : Users \cup {NoUser}, kind : {"question", "content"},
                           month : Months, cap : Caps \cup {0},
                           then : {"none", "settled", "released", "refunded"}, cost : Costs \cup {0}]]
    /\ days \in [Users -> [Months -> Nat]]
    /\ booked \in [Months -> Nat] /\ spent \in [Months -> Nat]
    /\ alerts \subseteq [month : Months, level : {"warn", "cap"}, cap : Caps]
    /\ told \in [Months -> [{"warn", "cap"} -> Nat]]
    /\ raises \in 0..MaxRaises /\ lost \in 0..MaxLost

Init ==
    /\ month = 1
    /\ limit \in Limits /\ cap \in Caps
    /\ call = [c \in Calls |-> Idle]
    /\ days = [u \in Users |-> [m \in Months |-> 0]]
    /\ booked = [m \in Months |-> 0] /\ spent = [m \in Months |-> 0]
    /\ alerts = {} /\ told = [m \in Months |-> [l \in {"warn", "cap"} |-> 0]]
    /\ raises = 0 /\ lost = 0

Meter == <<days, booked, spent>>
Owner == <<alerts, told>>

Tick ==
    /\ month < MaxMonth
    /\ month' = month + 1
    /\ UNCHANGED <<limit, cap, call, raises, lost>> /\ UNCHANGED Meter /\ UNCHANGED Owner

\* ai_spend_set_limits, whichever setting it saves: this month's notice of a
\* lower ceiling than the one now in force is cleared.
SetLimits(new) ==
    /\ raises < MaxRaises
    /\ cap' = new
    /\ raises' = raises + 1
    /\ alerts' = {a \in alerts : ~(a.level = "cap" /\ a.month = month /\ a.cap < new)}
    /\ UNCHANGED <<month, limit, call, told, lost>> /\ UNCHANGED Meter

----------------------------------------------------------------------------
(* Reserve.                                                                *)

DayRowFree(u, m) == \A c \in Calls : ~(call[c].stage = "counting" /\ call[c].user = u /\ call[c].month = m)
MonthRowFree(m) == \A c \in Calls : ~(call[c].stage = "settling" /\ call[c].month = m)

Standing == {"allowed", "stranded", "settling"}
Closed == {"settled", "released", "refunded"}
CallsOf(m, stages) == {c \in Calls : call[c].month = m /\ call[c].stage \in stages}

\* The row is there: a reservation wrote it and was committed.  One that was
\* denied for the month leaves the day's row behind, at what it was.
HasDayRow(u, m) == \E c \in CallsOf(m, Standing \cup Closed \cup {"denied", "unheard"}) : call[c].user = u
HasMonthRow(m) == CallsOf(m, Standing \cup Closed) # {}

\* A verdict the function never hears lets the call through (reserveAiSpend).
Heard(c, stage) ==
    \/ call' = [call EXCEPT ![c].stage = stage] /\ UNCHANGED lost
    \/ /\ lost < MaxLost /\ lost' = lost + 1
       /\ call' = [call EXCEPT ![c].stage = IF stage = "allowed" THEN "stranded" ELSE "unheard"]

\* The limit is tested only where the statement updates a row: the first call
\* of a day inserts it, and passes whatever the limit.
OverLimit(u, kind) == kind = "question" /\ u # NoUser /\ HasDayRow(u, month) /\ days[u][month] >= limit

\* Mutant: the count is read without taking the row.
BeginReserve_NoLock(c, u, kind) ==
    /\ call[c].stage = "idle"
    /\ LET begun == [Idle EXCEPT !.user = u, !.kind = kind, !.month = month, !.cap = cap]
       IN  call' = [call EXCEPT ![c] = [begun EXCEPT !.stage =
                      IF OverLimit(u, kind) THEN "denied" ELSE "counting"]]
    /\ UNCHANGED <<month, limit, cap, raises, lost>> /\ UNCHANGED Meter /\ UNCHANGED Owner

\* The settings are read, then the day row is taken: its count is tested and
\* bumped in one statement.  Content is counted and not tested; a caller with
\* no user has no day row.
BeginReserve(c, u, kind) ==
    /\ call[c].stage = "idle"
    /\ u # NoUser => DayRowFree(u, month)
    /\ LET begun == [Idle EXCEPT !.user = u, !.kind = kind, !.month = month, !.cap = cap]
       IN  IF OverLimit(u, kind)
           THEN \/ call' = [call EXCEPT ![c] = [begun EXCEPT !.stage = "denied"]] /\ UNCHANGED lost
                \/ /\ lost < MaxLost /\ lost' = lost + 1
                   /\ call' = [call EXCEPT ![c] = [begun EXCEPT !.stage = "unheard"]]
           ELSE call' = [call EXCEPT ![c] = [begun EXCEPT !.stage = "counting"]] /\ UNCHANGED lost
    /\ UNCHANGED <<month, limit, cap, raises>> /\ UNCHANGED Meter /\ UNCHANGED Owner

EffectiveCap(r) == IF r.kind = "content" THEN r.cap * Multiplier ELSE r.cap

\* Mutant: the owner is told each time.
Alert_EachTime(m, level, at) ==
    /\ alerts' = alerts \cup {[month |-> m, level |-> level, cap |-> at]}
    /\ told' = [told EXCEPT ![m][level] = @ + 1]

\* Mutant: noted with what content may spend.
Alert_ForContent(m, level, at) ==
    /\ alerts' = alerts \cup {[month |-> m, level |-> level, cap |-> at * Multiplier]}
    /\ told' = [told EXCEPT ![m][level] = 1]

\* insert into ai_spend_alerts ... on conflict do nothing.
Alert(m, level, at) ==
    IF \E a \in alerts : a.month = m /\ a.level = level THEN UNCHANGED Owner
    ELSE /\ alerts' = alerts \cup {[month |-> m, level |-> level, cap |-> at]}
         /\ told' = [told EXCEPT ![m][level] = @ + 1]

\* The month row is taken; what was counted is given back if it refuses.  As
\* with the day, the month's first call inserts the row untested.
FinishReserve(c) ==
    LET r == call[c]
    IN  /\ r.stage = "counting" /\ MonthRowFree(r.month)
        /\ IF ~HasMonthRow(r.month) \/ booked[r.month] < EffectiveCap(r)
           THEN /\ booked' = [booked EXCEPT ![r.month] = @ + Estimate]
                /\ days' = IF r.user = NoUser THEN days ELSE [days EXCEPT ![r.user][r.month] = @ + 1]
                /\ IF r.cap > 0 /\ 10 * (booked[r.month] + Estimate) >= 8 * r.cap
                   THEN Alert(r.month, "warn", r.cap) ELSE UNCHANGED Owner
                /\ Heard(c, "allowed")
           ELSE /\ UNCHANGED <<booked, days>>
                /\ Alert(r.month, "cap", r.cap)
                /\ Heard(c, "denied")
        /\ UNCHANGED <<month, limit, cap, spent, raises>>

----------------------------------------------------------------------------
(* Settle and release.  The event must still be open, so a second one, or  *)
(* one after the other, changes nothing.  Months and days are the event's. *)

Larger(a, b) == IF a > b THEN a ELSE b
Booking(m, amount) == booked' = [booked EXCEPT ![m] = Larger(0, @ - Estimate + amount)]

\* Mutant: settled in the month it is, not the month of the call.
Commit_ThisMonth(c, then, cost) ==
    /\ call' = [call EXCEPT ![c] = [@ EXCEPT !.stage = then, !.then = "none", !.cost = cost]]
    /\ Booking(month, cost)
    /\ spent' = [spent EXCEPT ![month] = @ + cost]
    /\ UNCHANGED days

Commit(c, then, cost) ==
    LET r == call[c]
    IN  /\ call' = [call EXCEPT ![c] = [@ EXCEPT !.stage = then, !.then = "none", !.cost = cost]]
        /\ Booking(r.month, cost)
        /\ spent' = [spent EXCEPT ![r.month] = @ + cost]
        /\ days' = IF then = "refunded" /\ r.user # NoUser
                   THEN [days EXCEPT ![r.user][r.month] = Larger(0, @ - 1)] ELSE days

\* Only a settlement, or a release that gives the count back, has a day row to
\* take.
TakesDayRow(c, then) == call[c].user # NoUser /\ then # "released"

\* Mutant: the event is looked up, and not whether it is still open.
BeginFinish_Again(c, then, cost) ==
    /\ call[c].stage \in {"allowed", "settled"} /\ MonthRowFree(call[c].month)
    /\ then # "settled" => cost = 0
    /\ IF TakesDayRow(c, then)
       THEN /\ call' = [call EXCEPT ![c] = [@ EXCEPT !.stage = "settling", !.then = then, !.cost = cost]]
            /\ UNCHANGED Meter
       ELSE Commit(c, then, cost)
    /\ UNCHANGED <<month, limit, cap, raises, lost>> /\ UNCHANGED Owner

BeginFinish(c, then, cost) ==
    /\ call[c].stage = "allowed" /\ MonthRowFree(call[c].month)
    /\ then # "settled" => cost = 0
    /\ IF TakesDayRow(c, then)
       THEN /\ call' = [call EXCEPT ![c] = [@ EXCEPT !.stage = "settling", !.then = then, !.cost = cost]]
            /\ UNCHANGED Meter
       ELSE Commit(c, then, cost)
    /\ UNCHANGED <<month, limit, cap, raises, lost>> /\ UNCHANGED Owner

Finish(c) ==
    /\ call[c].stage = "settling" /\ DayRowFree(call[c].user, call[c].month)
    /\ Commit(c, call[c].then, call[c].cost)
    /\ UNCHANGED <<month, limit, cap, raises, lost>> /\ UNCHANGED Owner

\* Each waits for the row the other holds, and the database ends one of them.
\* A reservation that failed lets the call through; a settlement's error is
\* not looked at.
Deadlock(c, d) ==
    /\ call[c].stage = "counting" /\ call[d].stage = "settling"
    /\ call[c].user = call[d].user /\ call[c].month = call[d].month
    /\ \/ call' = [call EXCEPT ![c].stage = "unmetered"]
       \/ call' = [call EXCEPT ![d] = [@ EXCEPT !.stage = "stranded", !.then = "none", !.cost = 0]]
    /\ UNCHANGED <<month, limit, cap, raises, lost>> /\ UNCHANGED Meter /\ UNCHANGED Owner

----------------------------------------------------------------------------

Next ==
    \/ Tick
    \/ \E new \in Caps : SetLimits(new)
    \/ \E c \in Calls :
         \/ \E u \in Users \cup {NoUser}, kind \in {"question", "content"} : BeginReserve(c, u, kind)
         \/ FinishReserve(c)
         \/ \E then \in {"settled", "released", "refunded"}, cost \in Costs \cup {0} : BeginFinish(c, then, cost)
         \/ Finish(c)
         \/ \E d \in Calls : Deadlock(c, d)

Spec == Init /\ [][Next]_vars

----------------------------------------------------------------------------

\* THE CEILING IS TESTED AGAINST MONEY BOOKED: whatever was settled, released,
\* lost, ended by a deadlock or carried over a month's end, the month's total
\* is the estimates still standing and the costs of what was settled, and the
\* total spent is those costs.
BookedIsTheSum ==
    \A m \in Months :
        LET cost == MapThenSumSet(LAMBDA c : call[c].cost, CallsOf(m, {"settled"}))
        IN  spent[m] = cost /\ booked[m] = cost + Estimate * Cardinality(CallsOf(m, Standing))

\* A PERSON'S QUOTA HOLDS in a burst: the questions of a day that were let
\* through on a verdict and not handed back never pass the limit, or the one
\* a day's first insert lets through where the limit is zero; and the day's
\* count is exactly the calls that still count.
QuotaHolds ==
    \A u \in Users, m \in Months :
        LET mine == {c \in CallsOf(m, Standing \cup {"settled", "released"}) : call[c].user = u}
        IN  /\ days[u][m] = Cardinality(mine)
            /\ Cardinality({c \in mine : call[c].kind = "question"}) <= Larger(limit, 1)

\* THE OWNER IS TOLD ONCE that a month's budget ran out, or is running out,
\* and of the ceiling once more for each time the settings were saved.
ToldOnce == \A m \in Months : told[m]["warn"] <= 1 /\ told[m]["cap"] <= 1 + raises

\* 20260729230000_ai_spend_limits.sql:14 - the counter bump and the limit test
\* take a row lock, so concurrent callers serialise: with every verdict heard,
\* no call goes out that the meter has not counted.
BurstIsMetered == \A c \in Calls : call[c].stage \notin {"unheard", "unmetered"}
=============================================================================
