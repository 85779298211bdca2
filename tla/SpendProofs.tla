---------------------------- MODULE SpendProofs ----------------------------
(***************************************************************************)
(* What holds of SpendGuard for any number of calls and users, any limit,  *)
(* ceilings, prices and months.                                            *)
(***************************************************************************)
EXTENDS SpendLedger, FiniteSetTheorems, WellFoundedInduction, TLAPS

CallRow == [stage : Stages, user : Users \cup {NoUser}, kind : {"question", "content"},
            month : Months, cap : Caps \cup {0},
            then : {"none", "settled", "released", "refunded"}, cost : Costs \cup {0}]

\* The calls that count towards a person's day.
Counting == Standing \cup {"settled", "released"}
Mine(u, m) == {c \in CallsOf(m, Counting) : call[c].user = u}
Questions(u, m) == {c \in Mine(u, m) : call[c].kind = "question"}

\* The day row is held by one reservation at a time, and a question holds it
\* below the limit, or is the one that inserts it.
DayRowsAreHeld ==
    \A c \in Calls : call[c].stage = "counting" =>
        /\ \A d \in Calls : call[d].stage = "counting" /\ call[d].user = call[c].user
                            /\ call[d].month = call[c].month /\ call[c].user # NoUser => d = c
        /\ call[c].kind = "question" /\ call[c].user # NoUser
             => ~HasDayRow(call[c].user, call[c].month) \/ days[call[c].user][call[c].month] < limit

\* What a notice stands for: the warning for good, the ceiling's until it is
\* raised.
NoticesStand ==
    \A m \in Months :
        /\ told[m]["warn"] <= 1
        /\ told[m]["warn"] = 1 => \E a \in alerts : a.month = m /\ a.level = "warn"
        /\ told[m]["cap"] <= raises + 1
        /\ told[m]["cap"] = raises + 1 => \E a \in alerts : a.month = m /\ a.level = "cap"

\* A call that counts has its ceiling, and a settling one its outcome, which
\* costs something only if it settles.
CallsAreWhole ==
    \A c \in Calls :
        /\ call[c].stage = "counting" => call[c].cap \in Caps
        /\ call[c].stage = "settling" => /\ call[c].then # "none" /\ call[c].user # NoUser
                                         /\ call[c].then # "settled" => call[c].cost = 0

QuotaOf(u, m) ==
    days[u][m] = Cardinality(Mine(u, m)) /\ Cardinality(Questions(u, m)) <= Larger(limit, 1)

QuotaInv == TypeOK /\ CallsAreWhole /\ DayRowsAreHeld /\ QuotaHolds

NoticeInv == TypeOK /\ CallsAreWhole /\ NoticesStand

----------------------------------------------------------------------------

\* How a call's row moves: its person, kind and month stay.
Moves(c, x) ==
    /\ call'[c] \in CallRow /\ call'[c].stage = x
    /\ call'[c].user = call[c].user /\ call'[c].kind = call[c].kind /\ call'[c].month = call[c].month
    /\ call'[c].cap = call[c].cap
    /\ \A d \in Calls \ {c} : call'[d] = call[d]

LEMMA StageMoves ==
    ASSUME TypeOK, NEW c \in Calls, NEW x \in Stages,
           call' = [call EXCEPT ![c].stage = x]
    PROVE  call' \in [Calls -> CallRow] /\ Moves(c, x) /\ call'[c].then = call[c].then
  <1> DEFINE r == call[c]
             row == [stage |-> x, user |-> r.user, kind |-> r.kind, month |-> r.month, cap |-> r.cap,
                     then |-> r.then, cost |-> r.cost]
  <1>1. call \in [Calls -> CallRow] /\ call[c] \in CallRow
    BY DEF TypeOK, CallRow
  <1>2. [call[c] EXCEPT !.stage = x] = row /\ row \in CallRow
    BY <1>1 DEF CallRow
  <1>3. call' = [call EXCEPT ![c] = row]
    BY <1>2
  <1> QED
    BY <1>1, <1>2, <1>3 DEF Moves

LEMMA OutcomeMoves ==
    ASSUME TypeOK, NEW c \in Calls, NEW x \in Stages,
           NEW then \in {"none", "settled", "released", "refunded"}, NEW cost \in Costs \cup {0},
           call' = [call EXCEPT ![c] = [@ EXCEPT !.stage = x, !.then = then, !.cost = cost]]
    PROVE  call' \in [Calls -> CallRow] /\ Moves(c, x) /\ call'[c].then = then /\ call'[c].cost = cost
  <1> DEFINE row == [call[c] EXCEPT !.stage = x, !.then = then, !.cost = cost]
  <1>1. call \in [Calls -> CallRow] /\ call[c] \in CallRow
    BY DEF TypeOK, CallRow
  <1>2. /\ row \in CallRow /\ row.stage = x /\ row.then = then /\ row.cost = cost
        /\ row.user = call[c].user /\ row.kind = call[c].kind /\ row.month = call[c].month
        /\ row.cap = call[c].cap
    BY <1>1 DEF CallRow
  <1> HIDE DEF row
  <1>3. call' = [call EXCEPT ![c] = row]
    BY DEF row
  <1> QED
    BY <1>1, <1>2, <1>3 DEF Moves

----------------------------------------------------------------------------
(* The actions, as far as the invariants look.                             *)

\* A reservation begins.
LEMMA BeginReserveMeans ==
    ASSUME TypeOK, NEW c \in Calls, NEW u \in Users \cup {NoUser}, NEW kind \in {"question", "content"},
           BeginReserve(c, u, kind)
    PROVE  /\ call[c].stage = "idle" /\ UNCHANGED <<month, limit, cap, raises>> /\ UNCHANGED Meter /\ UNCHANGED Owner
           /\ u # NoUser => DayRowFree(u, month)
           /\ call' \in [Calls -> CallRow] /\ \A d \in Calls \ {c} : call'[d] = call[d]
           /\ call'[c].user = u /\ call'[c].kind = kind /\ call'[c].month = month /\ call'[c].cap = cap
           /\ call'[c].stage \in {"denied", "unheard", "counting"} /\ lost' \in 0..MaxLost
           /\ call'[c].stage # "counting" => OverLimit(u, kind)
           /\ call'[c].stage = "counting" => ~OverLimit(u, kind)
  <1> DEFINE begun == [Idle EXCEPT !.user = u, !.kind = kind, !.month = month, !.cap = cap]
  <1>1. PICK x \in {"denied", "unheard", "counting"} :
          /\ call' = [call EXCEPT ![c] = [begun EXCEPT !.stage = x]]
          /\ lost' = lost \/ (lost < MaxLost /\ lost' = lost + 1)
          /\ x = "counting" <=> ~OverLimit(u, kind)
    BY DEF BeginReserve
  <1>2. begun \in CallRow /\ begun.user = u /\ begun.kind = kind /\ begun.month = month /\ begun.cap = cap
    BY SpendConstants DEF Idle, CallRow, Stages, TypeOK, Months
  <1> HIDE DEF begun
  <1>3. /\ [begun EXCEPT !.stage = x] \in CallRow /\ [begun EXCEPT !.stage = x].stage = x
        /\ [begun EXCEPT !.stage = x].user = u /\ [begun EXCEPT !.stage = x].kind = kind
        /\ [begun EXCEPT !.stage = x].month = month /\ [begun EXCEPT !.stage = x].cap = cap
    BY <1>2 DEF CallRow, Stages
  <1>4. call \in [Calls -> CallRow]
    BY DEF TypeOK, CallRow
  <1>5. lost' \in 0..MaxLost
    BY <1>1, SpendConstants DEF TypeOK
  <1> QED
    BY <1>1, <1>3, <1>4, <1>5 DEF BeginReserve

\* A reservation ends: allowed, and booked and counted, or denied.
LEMMA FinishReserveMeans ==
    ASSUME TypeOK, NEW c \in Calls, FinishReserve(c)
    PROVE  /\ call[c].stage = "counting" /\ UNCHANGED <<month, limit, cap, raises, spent>>
           /\ call' \in [Calls -> CallRow] /\ lost' \in 0..MaxLost
           /\ \E x \in Stages : Moves(c, x) /\ call'[c].then = call[c].then
           /\ \/ /\ call'[c].stage \in {"allowed", "stranded"}
                 /\ booked' = [booked EXCEPT ![call[c].month] = @ + Estimate]
                 /\ days' = IF call[c].user = NoUser THEN days
                            ELSE [days EXCEPT ![call[c].user][call[c].month] = @ + 1]
                 /\ UNCHANGED Owner \/ Alert(call[c].month, "warn", call[c].cap)
              \/ /\ call'[c].stage \in {"denied", "unheard"}
                 /\ UNCHANGED <<booked, days>>
                 /\ Alert(call[c].month, "cap", call[c].cap)
  <1>1. /\ call[c].stage = "counting" /\ UNCHANGED <<month, limit, cap, raises, spent>>
        /\ \/ /\ Heard(c, "allowed")
              /\ booked' = [booked EXCEPT ![call[c].month] = @ + Estimate]
              /\ days' = IF call[c].user = NoUser THEN days
                         ELSE [days EXCEPT ![call[c].user][call[c].month] = @ + 1]
              /\ UNCHANGED Owner \/ Alert(call[c].month, "warn", call[c].cap)
           \/ /\ Heard(c, "denied")
              /\ UNCHANGED <<booked, days>>
              /\ Alert(call[c].month, "cap", call[c].cap)
    BY DEF FinishReserve
  <1>2. ASSUME Heard(c, "allowed")
        PROVE  /\ call' \in [Calls -> CallRow] /\ lost' \in 0..MaxLost
               /\ \E x \in {"allowed", "stranded"} : Moves(c, x) /\ call'[c].then = call[c].then
    <2>1. /\ call' = [call EXCEPT ![c].stage = "allowed"] \/ call' = [call EXCEPT ![c].stage = "stranded"]
          /\ lost' = lost \/ (lost < MaxLost /\ lost' = lost + 1)
      BY <1>2 DEF Heard
    <2> QED
      BY <2>1, StageMoves, SpendConstants DEF Stages, TypeOK
  <1>3. ASSUME Heard(c, "denied")
        PROVE  /\ call' \in [Calls -> CallRow] /\ lost' \in 0..MaxLost
               /\ \E x \in {"denied", "unheard"} : Moves(c, x) /\ call'[c].then = call[c].then
    <2>1. /\ call' = [call EXCEPT ![c].stage = "denied"] \/ call' = [call EXCEPT ![c].stage = "unheard"]
          /\ lost' = lost \/ (lost < MaxLost /\ lost' = lost + 1)
      BY <1>3 DEF Heard
    <2> QED
      BY <2>1, StageMoves, SpendConstants DEF Stages, TypeOK
  <1> QED
    BY <1>1, <1>2, <1>3 DEF Moves, Stages

\* A call is settled, released or handed back.
LEMMA CommitMeans ==
    ASSUME TypeOK, NEW c \in Calls, NEW then \in {"settled", "released", "refunded"},
           NEW cost \in Costs \cup {0}, Commit(c, then, cost)
    PROVE  /\ call' \in [Calls -> CallRow] /\ Moves(c, then) /\ call'[c].then = "none"
           /\ call'[c].cost = cost
           /\ booked' \in [Months -> Nat] /\ spent' \in [Months -> Nat]
           /\ booked' = [booked EXCEPT ![call[c].month] = Larger(0, @ - Estimate + cost)]
           /\ spent' = [spent EXCEPT ![call[c].month] = @ + cost]
           /\ days' = IF then = "refunded" /\ call[c].user # NoUser
                      THEN [days EXCEPT ![call[c].user][call[c].month] = Larger(0, @ - 1)] ELSE days
  <1>1. /\ call' = [call EXCEPT ![c] = [@ EXCEPT !.stage = then, !.then = "none", !.cost = cost]]
        /\ booked' = [booked EXCEPT ![call[c].month] = Larger(0, @ - Estimate + cost)]
        /\ spent' = [spent EXCEPT ![call[c].month] = @ + cost]
        /\ days' = IF then = "refunded" /\ call[c].user # NoUser
                   THEN [days EXCEPT ![call[c].user][call[c].month] = Larger(0, @ - 1)] ELSE days
    BY DEF Commit, Booking
  <1>2. call' \in [Calls -> CallRow] /\ Moves(c, then) /\ call'[c].then = "none" /\ call'[c].cost = cost
    <2>1. then \in Stages /\ "none" \in {"none", "settled", "released", "refunded"}
      BY DEF Stages
    <2> QED
      BY <1>1, <2>1, OutcomeMoves
  <1>3. call[c].month \in Months /\ cost \in Nat /\ Estimate \in Nat
    BY SpendConstants DEF TypeOK
  <1>4. \A n \in Nat : Larger(0, n - Estimate + cost) \in Nat
    BY <1>3 DEF Larger
  <1>5. booked' \in [Months -> Nat]
    BY <1>1, <1>3, <1>4 DEF TypeOK
  <1>6. spent' \in [Months -> Nat]
    BY <1>1, <1>3 DEF TypeOK
  <1> QED
    BY <1>1, <1>2, <1>5, <1>6

\* How a settlement or a release goes on: it waits for the day row, or commits.
FinishStep(c) ==
    \/ \E then \in {"settled", "released", "refunded"}, cost \in Costs \cup {0} : BeginFinish(c, then, cost)
    \/ Finish(c)

\* What it then comes to, and what that does to the month.
Pays(c, then, cost) ==
    /\ call'[c].cost = cost
    /\ then # "settled" => cost = 0
    /\ booked' = [booked EXCEPT ![call[c].month] = Larger(0, @ - Estimate + cost)]
    /\ spent' = [spent EXCEPT ![call[c].month] = @ + cost]

LEMMA FinishMeans ==
    ASSUME TypeOK, CallsAreWhole, NEW c \in Calls, FinishStep(c)
    PROVE  /\ call[c].stage \in {"allowed", "settling"}
           /\ UNCHANGED <<month, limit, cap, raises, lost>> /\ UNCHANGED Owner
           /\ call' \in [Calls -> CallRow]
           /\ \/ /\ Moves(c, "settling") /\ UNCHANGED Meter
                 /\ call'[c].then # "none" /\ call[c].user # NoUser
                 /\ call'[c].then # "settled" => call'[c].cost = 0
              \/ \E then \in {"settled", "released", "refunded"}, cost \in Costs \cup {0} :
                   /\ Moves(c, then) /\ booked' \in [Months -> Nat] /\ spent' \in [Months -> Nat]
                   /\ Pays(c, then, cost)
                   /\ days' = IF then = "refunded" /\ call[c].user # NoUser
                              THEN [days EXCEPT ![call[c].user][call[c].month] = Larger(0, @ - 1)] ELSE days
  <1>1. ASSUME NEW then \in {"settled", "released", "refunded"}, NEW cost \in Costs \cup {0},
               BeginFinish(c, then, cost)
        PROVE  /\ call[c].stage = "allowed" /\ UNCHANGED <<month, limit, cap, raises, lost>> /\ UNCHANGED Owner
               /\ then # "settled" => cost = 0
               /\ \/ Commit(c, then, cost)
                  \/ /\ call' \in [Calls -> CallRow] /\ Moves(c, "settling") /\ UNCHANGED Meter
                     /\ call'[c].then # "none" /\ call[c].user # NoUser
                     /\ call'[c].then # "settled" => call'[c].cost = 0
    <2>1. CASE TakesDayRow(c, then)
      <3>1. /\ call' = [call EXCEPT ![c] = [@ EXCEPT !.stage = "settling", !.then = then, !.cost = cost]]
            /\ UNCHANGED Meter
        BY <1>1, <2>1 DEF BeginFinish
      <3>2. call' \in [Calls -> CallRow] /\ Moves(c, "settling") /\ call'[c].then = then /\ call'[c].cost = cost
        BY <3>1, OutcomeMoves DEF Stages
      <3> QED
        BY <1>1, <2>1, <3>1, <3>2 DEF BeginFinish, TakesDayRow
    <2>2. CASE ~TakesDayRow(c, then)
      BY <1>1, <2>2 DEF BeginFinish
    <2> QED
      BY <2>1, <2>2
  <1>2. ASSUME Finish(c)
        PROVE  /\ call[c].stage = "settling" /\ UNCHANGED <<month, limit, cap, raises, lost>> /\ UNCHANGED Owner
               /\ call[c].then \in {"settled", "released", "refunded"} /\ call[c].cost \in Costs \cup {0}
               /\ call[c].then # "settled" => call[c].cost = 0
               /\ Commit(c, call[c].then, call[c].cost)
    BY <1>2 DEF Finish, TypeOK, CallsAreWhole
  <1>3. ASSUME NEW then \in {"settled", "released", "refunded"}, NEW cost \in Costs \cup {0},
               Commit(c, then, cost), then # "settled" => cost = 0
        PROVE  /\ call' \in [Calls -> CallRow] /\ Moves(c, then) /\ Pays(c, then, cost)
               /\ booked' \in [Months -> Nat] /\ spent' \in [Months -> Nat]
               /\ days' = IF then = "refunded" /\ call[c].user # NoUser
                          THEN [days EXCEPT ![call[c].user][call[c].month] = Larger(0, @ - 1)] ELSE days
    BY <1>3, CommitMeans DEF Pays
  <1>4. CASE Finish(c)
    <2> DEFINE then == call[c].then
               cost == call[c].cost
    <2>1. /\ then \in {"settled", "released", "refunded"} /\ cost \in Costs \cup {0} /\ Commit(c, then, cost)
          /\ then # "settled" => cost = 0
      BY <1>2, <1>4
    <2> HIDE DEF then, cost
    <2> QED
      BY <1>2, <1>3, <1>4, <2>1
  <1>5. CASE \E then \in {"settled", "released", "refunded"}, cost \in Costs \cup {0} : BeginFinish(c, then, cost)
    BY <1>1, <1>3, <1>5
  <1> QED
    BY <1>4, <1>5 DEF FinishStep

LEMMA DeadlockMeans ==
    ASSUME TypeOK, NEW c \in Calls, NEW d \in Calls, Deadlock(c, d)
    PROVE  /\ UNCHANGED <<month, limit, cap, raises, lost>> /\ UNCHANGED Meter /\ UNCHANGED Owner
           /\ call' \in [Calls -> CallRow]
           /\ \/ call[c].stage = "counting" /\ Moves(c, "unmetered")
              \/ call[d].stage = "settling" /\ Moves(d, "stranded")
  <1>1. CASE call' = [call EXCEPT ![c].stage = "unmetered"]
    BY <1>1, StageMoves DEF Deadlock, Stages
  <1>2. CASE call' = [call EXCEPT ![d] = [@ EXCEPT !.stage = "stranded", !.then = "none", !.cost = 0]]
    <2>1. "stranded" \in Stages /\ "none" \in {"none", "settled", "released", "refunded"} /\ 0 \in Costs \cup {0}
      BY DEF Stages
    <2>2. call' \in [Calls -> CallRow] /\ Moves(d, "stranded")
      BY <1>2, <2>1, OutcomeMoves
    <2> QED
      BY <2>2 DEF Deadlock
  <1> QED
    BY <1>1, <1>2 DEF Deadlock

----------------------------------------------------------------------------
(* Types.                                                                  *)

LEMMA AlertTypes ==
    ASSUME TypeOK, NEW m \in Months, NEW level \in {"warn", "cap"}, NEW at \in Caps,
           UNCHANGED Owner \/ Alert(m, level, at)
    PROVE  /\ alerts' \subseteq [month : Months, level : {"warn", "cap"}, cap : Caps]
           /\ told' \in [Months -> [{"warn", "cap"} -> Nat]]
  <1>1. CASE UNCHANGED Owner
    BY <1>1 DEF Owner, TypeOK
  <1>2. CASE /\ alerts' = alerts \cup {[month |-> m, level |-> level, cap |-> at]}
             /\ told' = [told EXCEPT ![m][level] = @ + 1]
    BY <1>2 DEF TypeOK
  <1> QED
    BY <1>1, <1>2 DEF Alert

LEMMA Starts == Init => TypeOK /\ CallsAreWhole /\ DayRowsAreHeld /\ NoticesStand
  <1> SUFFICES ASSUME Init PROVE TypeOK /\ CallsAreWhole /\ DayRowsAreHeld /\ NoticesStand
    OBVIOUS
  <1>1. TypeOK
    BY SpendConstants DEF Init, TypeOK, Idle, Stages, Months
  <1> QED
    BY <1>1, SpendConstants DEF Init, CallsAreWhole, DayRowsAreHeld, NoticesStand, Idle

LEMMA TypesKept ==
    ASSUME TypeOK, CallsAreWhole, [Next]_vars
    PROVE  TypeOK' /\ CallsAreWhole'
  <1>0. CASE UNCHANGED vars
    BY <1>0 DEF vars, TypeOK, CallsAreWhole
  <1>1. CASE Tick
    <2>1. month' \in Months
      BY <1>1, SpendConstants DEF Tick, TypeOK, Months
    <2> QED
      BY <1>1, <2>1 DEF Tick, Meter, Owner, TypeOK, CallsAreWhole
  <1>2. ASSUME NEW new \in Caps, SetLimits(new)
        PROVE  TypeOK' /\ CallsAreWhole'
    BY <1>2, SpendConstants DEF SetLimits, Meter, TypeOK, CallsAreWhole
  <1>3. ASSUME NEW c \in Calls, NEW u \in Users \cup {NoUser}, NEW kind \in {"question", "content"},
               BeginReserve(c, u, kind)
        PROVE  TypeOK' /\ CallsAreWhole'
    <2>1. /\ UNCHANGED <<month, limit, cap, raises>> /\ UNCHANGED Meter /\ UNCHANGED Owner
          /\ call' \in [Calls -> CallRow] /\ \A d \in Calls \ {c} : call'[d] = call[d]
          /\ call'[c].cap = cap /\ call'[c].stage \in {"denied", "unheard", "counting"} /\ lost' \in 0..MaxLost
      BY <1>3, BeginReserveMeans
    <2> QED
      BY <2>1 DEF TypeOK, CallsAreWhole, CallRow, Meter, Owner
  <1>4. ASSUME NEW c \in Calls, FinishReserve(c)
        PROVE  TypeOK' /\ CallsAreWhole'
    <2>1. /\ call[c].stage = "counting" /\ UNCHANGED <<month, limit, cap, raises, spent>>
          /\ call' \in [Calls -> CallRow] /\ lost' \in 0..MaxLost
          /\ \A d \in Calls \ {c} : call'[d] = call[d]
          /\ \/ /\ call'[c].stage \in {"allowed", "stranded"}
                /\ booked' = [booked EXCEPT ![call[c].month] = @ + Estimate]
                /\ days' = IF call[c].user = NoUser THEN days
                           ELSE [days EXCEPT ![call[c].user][call[c].month] = @ + 1]
                /\ UNCHANGED Owner \/ Alert(call[c].month, "warn", call[c].cap)
             \/ /\ call'[c].stage \in {"denied", "unheard"}
                /\ UNCHANGED <<booked, days>>
                /\ Alert(call[c].month, "cap", call[c].cap)
      BY <1>4, FinishReserveMeans DEF Moves
    <2>2. call[c].month \in Months /\ call[c].user \in Users \cup {NoUser} /\ call[c].cap \in Caps
      BY <2>1 DEF TypeOK, CallsAreWhole
    <2>3. /\ alerts' \subseteq [month : Months, level : {"warn", "cap"}, cap : Caps]
          /\ told' \in [Months -> [{"warn", "cap"} -> Nat]]
      BY <2>1, <2>2, AlertTypes
    <2>4. booked' \in [Months -> Nat]
      BY <2>1, <2>2, SpendConstants DEF TypeOK
    <2>5. days' \in [Users -> [Months -> Nat]]
      <3>1. CASE days' = days
        BY <3>1 DEF TypeOK
      <3>2. CASE call[c].user \in Users /\ days' = [days EXCEPT ![call[c].user][call[c].month] = @ + 1]
        BY <2>2, <3>2 DEF TypeOK
      <3> QED
        BY <2>1, <2>2, <3>1, <3>2
    <2>6. CallsAreWhole'
      BY <2>1 DEF CallsAreWhole
    <2> QED
      BY <2>1, <2>3, <2>4, <2>5, <2>6 DEF TypeOK, CallRow
  <1>5. ASSUME NEW c \in Calls, FinishStep(c)
        PROVE  TypeOK' /\ CallsAreWhole'
    <2>1. /\ UNCHANGED <<month, limit, cap, raises, lost>> /\ UNCHANGED Owner
          /\ call' \in [Calls -> CallRow]
          /\ \/ /\ Moves(c, "settling") /\ UNCHANGED Meter
                /\ call'[c].then # "none" /\ call[c].user # NoUser
                /\ call'[c].then # "settled" => call'[c].cost = 0
             \/ \E then \in {"settled", "released", "refunded"} :
                  /\ Moves(c, then) /\ booked' \in [Months -> Nat] /\ spent' \in [Months -> Nat]
                  /\ days' = IF then = "refunded" /\ call[c].user # NoUser
                             THEN [days EXCEPT ![call[c].user][call[c].month] = Larger(0, @ - 1)] ELSE days
      BY <1>5, FinishMeans
    <2>2. CallsAreWhole'
      BY <2>1 DEF CallsAreWhole, Moves
    <2>3. call[c].month \in Months /\ call[c].user \in Users \cup {NoUser} /\ \A n \in Nat : Larger(0, n - 1) \in Nat
      BY DEF TypeOK, Larger
    <2>4. days' \in [Users -> [Months -> Nat]] /\ booked' \in [Months -> Nat] /\ spent' \in [Months -> Nat]
      <3>1. CASE UNCHANGED Meter
        BY <3>1 DEF TypeOK, Meter
      <3>2. CASE ~UNCHANGED Meter
        <4>1. /\ booked' \in [Months -> Nat] /\ spent' \in [Months -> Nat]
              /\ \/ days' = [days EXCEPT ![call[c].user][call[c].month] = Larger(0, @ - 1)] /\ call[c].user # NoUser
                 \/ days' = days
          BY <2>1, <3>2
        <4>2. CASE days' = days
          BY <4>1, <4>2 DEF TypeOK
        <4>3. CASE days' = [days EXCEPT ![call[c].user][call[c].month] = Larger(0, @ - 1)] /\ call[c].user # NoUser
          <5>1. days \in [Users -> [Months -> Nat]] /\ call[c].user \in Users
            BY <2>3, <4>3 DEF TypeOK
          <5> QED
            BY <2>3, <4>1, <4>3, <5>1
        <4> QED
          BY <4>1, <4>2, <4>3
      <3> QED
        BY <3>1, <3>2
    <2> QED
      BY <2>1, <2>2, <2>4 DEF TypeOK, CallRow, Owner
  <1>6. ASSUME NEW c \in Calls, NEW d \in Calls, Deadlock(c, d)
        PROVE  TypeOK' /\ CallsAreWhole'
    <2>1. /\ UNCHANGED <<month, limit, cap, raises, lost>> /\ UNCHANGED Meter /\ UNCHANGED Owner
          /\ call' \in [Calls -> CallRow] /\ (Moves(c, "unmetered") \/ Moves(d, "stranded"))
      BY <1>6, DeadlockMeans
    <2>2. TypeOK'
      BY <2>1 DEF TypeOK, CallRow, Meter, Owner
    <2>3. CallsAreWhole'
      BY <2>1 DEF CallsAreWhole, Moves
    <2> QED
      BY <2>2, <2>3
  <1> QED
    BY <1>0, <1>1, <1>2, <1>3, <1>4, <1>5, <1>6 DEF Next, FinishStep

----------------------------------------------------------------------------
(* A person's quota.                                                       *)

LEMMA QuotaMeans == /\ QuotaHolds <=> \A u \in Users, m \in Months : QuotaOf(u, m)
                    /\ QuotaHolds' <=> \A u \in Users, m \in Months : QuotaOf(u, m)'
  BY DEF QuotaHolds, QuotaOf, Questions, Mine, Counting, Months

LEMMA MineIsCounted ==
    ASSUME NEW u, NEW m
    PROVE  /\ IsFiniteSet(Mine(u, m)) /\ Cardinality(Mine(u, m)) \in Nat
           /\ Cardinality(Questions(u, m)) \in Nat
           /\ Cardinality(Questions(u, m)) <= Cardinality(Mine(u, m))
           /\ Cardinality(Questions(u, m))' \in Nat
           /\ IsFiniteSet(Mine(u, m))'
           /\ Cardinality(Questions(u, m))' <= Cardinality(Mine(u, m))'
  <1>1. /\ Mine(u, m) \subseteq Calls /\ Questions(u, m) \subseteq Mine(u, m)
        /\ Mine(u, m)' \subseteq Calls /\ Questions(u, m)' \subseteq Mine(u, m)'
    BY DEF Mine, Questions, CallsOf
  <1>2. IsFiniteSet(Mine(u, m)) /\ IsFiniteSet(Mine(u, m)')
    BY <1>1, SpendConstants, FS_Subset
  <1>3. /\ IsFiniteSet(Questions(u, m)) /\ Cardinality(Questions(u, m)) <= Cardinality(Mine(u, m))
        /\ IsFiniteSet(Questions(u, m)') /\ Cardinality(Questions(u, m)') <= Cardinality(Mine(u, m)')
    BY <1>1, <1>2, FS_Subset
  <1> QED
    BY <1>2, <1>3, FS_CardinalityType

\* Where no reservation has written the day's row, none counts.
LEMMA NoRowNoCount ==
    ASSUME QuotaHolds, NEW u \in Users, NEW m \in Months, ~HasDayRow(u, m)
    PROVE  days[u][m] = 0
  <1>1. Mine(u, m) = {}
    BY DEF HasDayRow, Mine, CallsOf, Counting, Closed
  <1> QED
    BY <1>1, QuotaMeans, FS_EmptySet DEF QuotaOf

\* The calls that count stay the same.
LEMMA SameCount ==
    ASSUME QuotaHolds, days' = days, limit' = limit,
           \A d \in Calls : call'[d].stage \in Counting <=> call[d].stage \in Counting,
           \A d \in Calls : call[d].stage \in Counting =>
              call'[d].user = call[d].user /\ call'[d].kind = call[d].kind /\ call'[d].month = call[d].month
    PROVE  QuotaHolds'
  <1> SUFFICES ASSUME NEW u \in Users, NEW m \in Months PROVE QuotaOf(u, m)'
    BY QuotaMeans
  <1>1. Mine(u, m)' = Mine(u, m)
    BY DEF Mine, CallsOf, Counting, Standing
  <1>2. Questions(u, m)' = Questions(u, m)
    BY <1>1 DEF Questions, Mine, CallsOf
  <1> QED
    BY <1>1, <1>2, QuotaMeans DEF QuotaOf

\* One call counts that did not.
LEMMA OneMore ==
    ASSUME QuotaInv, NEW c \in Calls, NEW x \in {"allowed", "stranded"}, Moves(c, x),
           call[c].stage = "counting", limit' = limit,
           days' = IF call[c].user = NoUser THEN days
                   ELSE [days EXCEPT ![call[c].user][call[c].month] = @ + 1]
    PROVE  QuotaHolds'
  <1> SUFFICES ASSUME NEW u \in Users, NEW m \in Months PROVE QuotaOf(u, m)'
    BY QuotaMeans
  <1>0. QuotaOf(u, m) /\ days \in [Users -> [Months -> Nat]] /\ u # NoUser
    BY QuotaMeans, SpendConstants DEF QuotaInv, TypeOK
  <1>1. CASE u = call[c].user /\ m = call[c].month
    <2>1. Mine(u, m)' = Mine(u, m) \cup {c} /\ c \notin Mine(u, m)
      BY <1>1 DEF Moves, Mine, CallsOf, Counting, Standing
    <2>2. Cardinality(Mine(u, m)') = Cardinality(Mine(u, m)) + 1
      BY <2>1, MineIsCounted, FS_AddElement
    <2>3. days'[u][m] = days[u][m] + 1
      BY <1>0, <1>1
    <2>4. CASE call[c].kind = "question"
      <3>1. days[u][m] = 0 \/ days[u][m] < limit
        BY <1>0, <1>1, <2>4, NoRowNoCount DEF QuotaInv, DayRowsAreHeld
      <3>2. days[u][m] \in Nat /\ limit \in Nat /\ limit' = limit
        BY <1>0, SpendConstants DEF QuotaInv, TypeOK
      <3> QED
        BY <1>0, <2>2, <2>3, <3>1, <3>2, MineIsCounted DEF QuotaOf, Larger
    <2>5. CASE call[c].kind # "question"
      <3>1. Questions(u, m)' = Questions(u, m)
        BY <2>1, <2>5 DEF Moves, Questions, Mine, CallsOf
      <3>2. limit \in Nat /\ limit' = limit
        BY SpendConstants DEF QuotaInv, TypeOK
      <3> QED
        BY <1>0, <2>2, <2>3, <3>1, <3>2 DEF QuotaOf
    <2> QED
      BY <2>4, <2>5
  <1>2. CASE ~(u = call[c].user /\ m = call[c].month)
    <2>1. Mine(u, m)' = Mine(u, m)
      BY <1>2 DEF Moves, Mine, CallsOf, Counting, Standing
    <2>2. Questions(u, m)' = Questions(u, m)
      BY <2>1, <1>2 DEF Moves, Questions, Mine, CallsOf
    <2>3. days'[u][m] = days[u][m]
      BY <1>0, <1>2
    <2> QED
      BY <1>0, <2>1, <2>2, <2>3 DEF QuotaOf
  <1> QED
    BY <1>1, <1>2

\* One call that counted is handed back.
LEMMA OneLess ==
    ASSUME QuotaInv, NEW c \in Calls, Moves(c, "refunded"), call[c].stage \in {"allowed", "settling"},
           limit' = limit,
           days' = IF call[c].user # NoUser
                   THEN [days EXCEPT ![call[c].user][call[c].month] = Larger(0, @ - 1)] ELSE days
    PROVE  QuotaHolds'
  <1> SUFFICES ASSUME NEW u \in Users, NEW m \in Months PROVE QuotaOf(u, m)'
    BY QuotaMeans
  <1>0. QuotaOf(u, m) /\ days \in [Users -> [Months -> Nat]] /\ u # NoUser
    BY QuotaMeans, SpendConstants DEF QuotaInv, TypeOK
  <1>1. CASE u = call[c].user /\ m = call[c].month
    <2>1. Mine(u, m)' = Mine(u, m) \ {c} /\ c \in Mine(u, m)
      BY <1>1 DEF Moves, Mine, CallsOf, Counting, Standing
    <2>2. Cardinality(Mine(u, m)') = Cardinality(Mine(u, m)) - 1
      BY <2>1, MineIsCounted, FS_RemoveElement
    <2>3. days'[u][m] = Larger(0, days[u][m] - 1)
      BY <1>0, <1>1
    <2>4. Mine(u, m) # {} /\ Cardinality(Mine(u, m)) >= 1
      BY <2>1, MineIsCounted, FS_EmptySet
    <2>5. days'[u][m] = Cardinality(Mine(u, m)')
      BY <1>0, <2>2, <2>3, <2>4, MineIsCounted DEF QuotaOf, Larger
    <2>6. Questions(u, m)' \subseteq Questions(u, m)
      BY <2>1 DEF Moves, Questions, Mine, CallsOf
    <2>7. IsFiniteSet(Questions(u, m))
      BY MineIsCounted, FS_Subset DEF Questions
    <2>8. Cardinality(Questions(u, m)') <= Cardinality(Questions(u, m))
      BY <2>6, <2>7, FS_Subset
    <2> QED
      <3>1. Larger(limit, 1) \in Nat /\ limit' = limit
        BY SpendConstants DEF QuotaInv, TypeOK, Larger
      <3> QED
        BY <1>0, <2>5, <2>8, <3>1, MineIsCounted DEF QuotaOf, Larger
  <1>2. CASE ~(u = call[c].user /\ m = call[c].month)
    <2>1. Mine(u, m)' = Mine(u, m)
      BY <1>2 DEF Moves, Mine, CallsOf, Counting, Standing
    <2>2. Questions(u, m)' = Questions(u, m)
      BY <2>1, <1>2 DEF Moves, Questions, Mine, CallsOf
    <2>3. days'[u][m] = days[u][m]
      BY <1>0, <1>2
    <2> QED
      BY <1>0, <2>1, <2>2, <2>3 DEF QuotaOf
  <1> QED
    BY <1>1, <1>2

\* No reservation begins, and the days of those that hold one do not grow and
\* get no row.
LEMMA RowsStayHeld ==
    ASSUME DayRowsAreHeld, TypeOK, days' \in [Users -> [Months -> Nat]], limit' = limit,
           \A d \in Calls : \A u, m : call'[d].stage = "counting" /\ u = call[d].user /\ m = call[d].month
                                  /\ u # NoUser /\ HasDayRow(u, m)' => HasDayRow(u, m),
           \A d \in Calls : call'[d].stage = "counting" =>
              /\ call[d] = call'[d]
              /\ d \in Calls /\ call[d].user # NoUser =>
                    days'[call[d].user][call[d].month] <= days[call[d].user][call[d].month]
    PROVE  DayRowsAreHeld'
  <1> SUFFICES ASSUME NEW c \in Calls, call'[c].stage = "counting"
               PROVE  /\ \A d \in Calls : call'[d].stage = "counting" /\ call'[d].user = call'[c].user
                            /\ call'[d].month = call'[c].month /\ call'[c].user # NoUser => d = c
                      /\ call'[c].kind = "question" /\ call'[c].user # NoUser
                            => \A u, m : u = call'[c].user /\ m = call'[c].month /\ HasDayRow(u, m)'
                                            => days'[u][m] < limit
    BY DEF DayRowsAreHeld, HasDayRow, CallsOf
  <1>1. call[c] = call'[c] /\ call[c].user \in Users \cup {NoUser} /\ call[c].month \in Months
    BY DEF TypeOK
  <1>2. \A d \in Calls : call'[d].stage = "counting" /\ call'[d].user = call'[c].user
          /\ call'[d].month = call'[c].month /\ call'[c].user # NoUser => d = c
    BY <1>1 DEF DayRowsAreHeld
  <1>3. ASSUME call[c].kind = "question", call[c].user # NoUser
        PROVE  \A u, m : u = call[c].user /\ m = call[c].month /\ HasDayRow(u, m)' => days'[u][m] < limit
    <2>0. SUFFICES ASSUME NEW u, NEW m, u = call[c].user, m = call[c].month, HasDayRow(u, m)'
                   PROVE  days'[u][m] < limit
      OBVIOUS
    <2>1. /\ ~HasDayRow(u, m) \/ days[u][m] < limit
          /\ HasDayRow(u, m)
          /\ days'[u][m] <= days[u][m]
      BY <1>1, <1>3, <2>0 DEF DayRowsAreHeld
    <2>2. days[u][m] \in Nat /\ days'[u][m] \in Nat
      BY <1>1, <1>3, <2>0 DEF TypeOK
    <2>3. limit \in Nat
      BY SpendConstants DEF TypeOK
    <2> QED
      BY <2>1, <2>2, <2>3
  <1> QED
    BY <1>1, <1>2, <1>3

\* A call that moves between stages that all stand for a row, or none of which
\* does, brings no row.
LEMMA SameRows ==
    ASSUME \A d \in Calls :
             \/ call'[d] = call[d]
             \/ /\ call'[d].user = call[d].user /\ call'[d].month = call[d].month
                /\ \/ call'[d].stage \notin Standing \cup Closed \cup {"denied", "unheard"}
                   \/ call[d].stage \in Standing \cup Closed \cup {"denied", "unheard"},
           NEW u, NEW m, HasDayRow(u, m)'
    PROVE  HasDayRow(u, m)
  <1>1. PICK d \in Calls : /\ call'[d].user = u /\ call'[d].month = m
                           /\ call'[d].stage \in Standing \cup Closed \cup {"denied", "unheard"}
    BY DEF HasDayRow, CallsOf, Standing, Closed
  <1>2. /\ call[d].user = u /\ call[d].month = m
        /\ call[d].stage \in Standing \cup Closed \cup {"denied", "unheard"}
    BY <1>1
  <1> QED
    BY <1>2 DEF HasDayRow, CallsOf

LEMMA QuotaKept == QuotaInv /\ [Next]_vars => QuotaInv'
  <1> SUFFICES ASSUME QuotaInv, [Next]_vars PROVE DayRowsAreHeld' /\ QuotaHolds'
    BY TypesKept DEF QuotaInv
  <1> USE DEF QuotaInv
  <1>t. TypeOK' /\ days' \in [Users -> [Months -> Nat]]
    BY TypesKept DEF TypeOK
  <1>0. CASE call' = call /\ days' = days /\ limit' = limit
    BY <1>0 DEF DayRowsAreHeld, QuotaHolds, CallsOf, HasDayRow
  <1>1. CASE UNCHANGED vars \/ Tick \/ \E new \in Caps : SetLimits(new)
    BY <1>0, <1>1 DEF vars, Tick, SetLimits, Meter
  <1>3. ASSUME NEW c \in Calls, NEW u \in Users \cup {NoUser}, NEW kind \in {"question", "content"},
               BeginReserve(c, u, kind)
        PROVE  DayRowsAreHeld' /\ QuotaHolds'
    <2>1. /\ call[c].stage = "idle" /\ days' = days /\ limit' = limit
          /\ call'[c].stage # "counting" => OverLimit(u, kind)
          /\ u # NoUser => DayRowFree(u, month)
          /\ \A d \in Calls \ {c} : call'[d] = call[d]
          /\ call'[c].user = u /\ call'[c].kind = kind /\ call'[c].month = month
          /\ call'[c].stage \in {"denied", "unheard", "counting"}
          /\ call'[c].stage = "counting" => ~OverLimit(u, kind)
      BY <1>3, BeginReserveMeans DEF Meter
    <2>2. QuotaHolds'
      BY <2>1, SameCount DEF Counting, Standing
    <2>3. CASE call'[c].stage # "counting"
      <3>1. \A d \in Calls : call'[d].stage = "counting" => call[d] = call'[d]
        BY <2>1, <2>3
      <3>2. \A d \in Calls : call[d].user # NoUser =>
              days'[call[d].user][call[d].month] <= days[call[d].user][call[d].month]
        BY <2>1 DEF TypeOK
      <3>3. ASSUME NEW v, NEW n, HasDayRow(v, n)'
            PROVE  HasDayRow(v, n)
        <4>1. PICK e \in Calls : /\ call'[e].user = v /\ call'[e].month = n
                                 /\ call'[e].stage \in Standing \cup Closed \cup {"denied", "unheard"}
          BY <3>3 DEF HasDayRow, CallsOf, Standing, Closed
        <4>2. CASE e = c
          BY <2>1, <2>3, <4>1, <4>2 DEF OverLimit
        <4>3. CASE e # c
          BY <2>1, <4>1, <4>3 DEF HasDayRow, CallsOf
        <4> QED
          BY <4>2, <4>3
      <3> QED
        BY <1>t, <2>1, <2>2, <3>1, <3>2, <3>3, RowsStayHeld
    <2>4. CASE call'[c].stage = "counting"
      <3>1. u # NoUser => \A d \in Calls : ~(call[d].stage = "counting" /\ call[d].user = u /\ call[d].month = month)
        BY <2>1 DEF DayRowFree
      <3>2. kind = "question" /\ u # NoUser => ~HasDayRow(u, month) \/ days[u][month] < limit
        BY <2>1, <2>4, SpendConstants DEF TypeOK, OverLimit
      <3>4. ASSUME NEW v, NEW n, HasDayRow(v, n)' PROVE HasDayRow(v, n)
        <4>1. PICK e \in Calls : /\ call'[e].user = v /\ call'[e].month = n
                                 /\ call'[e].stage \in Standing \cup Closed \cup {"denied", "unheard"}
          BY <3>4 DEF HasDayRow, CallsOf, Standing, Closed
        <4>2. e # c /\ call'[e] = call[e]
          BY <2>1, <2>4, <4>1 DEF Standing, Closed
        <4> QED
          BY <4>1, <4>2 DEF HasDayRow, CallsOf
      <3>3. ASSUME NEW e \in Calls, call'[e].stage = "counting"
            PROVE  /\ \A d \in Calls : call'[d].stage = "counting" /\ call'[d].user = call'[e].user
                        /\ call'[d].month = call'[e].month /\ call'[e].user # NoUser => d = e
                   /\ call'[e].kind = "question" /\ call'[e].user # NoUser
                        => \A v, n : v = call'[e].user /\ n = call'[e].month /\ HasDayRow(v, n)'
                                        => days'[v][n] < limit'
        <4>1. CASE e = c
          BY <2>1, <3>1, <3>2, <3>4, <4>1
        <4>2. CASE e # c
          BY <2>1, <3>1, <3>3, <3>4, <4>2 DEF DayRowsAreHeld
        <4> QED
          BY <4>1, <4>2
      <3> QED
        BY <2>2, <3>3 DEF DayRowsAreHeld, HasDayRow, CallsOf
    <2> QED
      BY <2>3, <2>4
  <1>4. ASSUME NEW c \in Calls, FinishReserve(c)
        PROVE  DayRowsAreHeld' /\ QuotaHolds'
    <2>1. /\ call[c].stage = "counting" /\ limit' = limit
          /\ \E x \in Stages : Moves(c, x)
          /\ \/ /\ call'[c].stage \in {"allowed", "stranded"}
                /\ days' = IF call[c].user = NoUser THEN days
                           ELSE [days EXCEPT ![call[c].user][call[c].month] = @ + 1]
             \/ call'[c].stage \in {"denied", "unheard"} /\ days' = days
      BY <1>4, FinishReserveMeans
    <2>2. PICK x \in Stages : Moves(c, x) /\ call'[c].stage = x
      BY <2>1 DEF Moves
    <2>3. QuotaHolds'
      <3>1. CASE x \in {"allowed", "stranded"}
        BY <2>1, <2>2, <3>1, OneMore
      <3>2. CASE x \in {"denied", "unheard"} /\ days' = days
        BY <2>1, <2>2, <3>2, SameCount DEF Moves, Counting, Standing
      <3> QED
        BY <2>1, <2>2, <3>1, <3>2
    <2>4. \A d \in Calls : call'[d].stage = "counting" => d # c /\ call[d] = call'[d]
      BY <2>1, <2>2 DEF Moves
    <2>5. \A d \in Calls : call'[d].stage = "counting" /\ call[d].user # NoUser =>
            days'[call[d].user][call[d].month] <= days[call[d].user][call[d].month]
      <3> SUFFICES ASSUME NEW d \in Calls, call'[d].stage = "counting", call[d].user # NoUser
                   PROVE  days'[call[d].user][call[d].month] = days[call[d].user][call[d].month]
        BY DEF TypeOK
      <3>1. ~(call[d].user = call[c].user /\ call[d].month = call[c].month)
        BY <2>1, <2>4 DEF DayRowsAreHeld
      <3>2. call[d].user \in Users /\ call[d].month \in Months
        BY DEF TypeOK
      <3> QED
        BY <2>1, <3>1, <3>2 DEF TypeOK
    <2>6. ASSUME NEW d \in Calls, NEW u, NEW m, call'[d].stage = "counting",
                 u = call[d].user, m = call[d].month, u # NoUser, HasDayRow(u, m)'
          PROVE  HasDayRow(u, m)
      <3>1. ~(u = call[c].user /\ m = call[c].month)
        BY <2>1, <2>4, <2>6 DEF DayRowsAreHeld
      <3>2. PICK e \in Calls : /\ call'[e].user = u /\ call'[e].month = m
                               /\ call'[e].stage \in Standing \cup Closed \cup {"denied", "unheard"}
        BY <2>6 DEF HasDayRow, CallsOf, Standing, Closed
      <3>3. e # c /\ call'[e] = call[e]
        BY <2>2, <3>1, <3>2 DEF Moves
      <3> QED
        BY <3>2, <3>3 DEF HasDayRow, CallsOf
    <2> QED
      BY <1>t, <2>1, <2>3, <2>4, <2>5, <2>6, RowsStayHeld
  <1>5. ASSUME NEW c \in Calls, FinishStep(c)
        PROVE  DayRowsAreHeld' /\ QuotaHolds'
    <2>1. /\ call[c].stage \in {"allowed", "settling"} /\ limit' = limit
          /\ \/ Moves(c, "settling") /\ days' = days
             \/ \E then \in {"settled", "released", "refunded"} :
                  /\ Moves(c, then)
                  /\ days' = IF then = "refunded" /\ call[c].user # NoUser
                             THEN [days EXCEPT ![call[c].user][call[c].month] = Larger(0, @ - 1)] ELSE days
      BY <1>5, FinishMeans DEF Meter
    <2>2. PICK x \in {"settling", "settled", "released", "refunded"} :
            /\ Moves(c, x)
            /\ days' = IF x = "refunded" /\ call[c].user # NoUser
                       THEN [days EXCEPT ![call[c].user][call[c].month] = Larger(0, @ - 1)] ELSE days
      BY <2>1
    <2>3. QuotaHolds'
      <3>1. CASE x = "refunded"
        BY <2>1, <2>2, <3>1, OneLess
      <3>2. CASE x # "refunded"
        BY <2>1, <2>2, <3>2, SameCount DEF Moves, Counting, Standing
      <3> QED
        BY <3>1, <3>2
    <2>4. \A d \in Calls : call'[d].stage = "counting" => call[d] = call'[d]
      BY <2>2 DEF Moves
    <2>5. \A d \in Calls : call[d].user # NoUser =>
            days'[call[d].user][call[d].month] <= days[call[d].user][call[d].month]
      <3> SUFFICES ASSUME NEW u \in Users, NEW m \in Months PROVE days'[u][m] <= days[u][m]
        BY DEF TypeOK
      <3>1. call[c].user \in Users \cup {NoUser} /\ call[c].month \in Months /\ days[u][m] \in Nat
            /\ Larger(0, days[u][m] - 1) <= days[u][m]
        BY DEF TypeOK, Larger
      <3> QED
        BY <2>2, <3>1 DEF TypeOK
    <2>6. ASSUME NEW u, NEW m, HasDayRow(u, m)' PROVE HasDayRow(u, m)
      <3>1. \A d \in Calls : \/ call'[d] = call[d]
                             \/ /\ call'[d].user = call[d].user /\ call'[d].month = call[d].month
                                /\ call[d].stage \in Standing
        BY <2>1, <2>2 DEF Moves, Standing
      <3> QED
        BY <2>6, <3>1, SameRows
    <2> QED
      BY <1>t, <2>1, <2>3, <2>4, <2>5, <2>6, RowsStayHeld
  <1>6. ASSUME NEW c \in Calls, NEW d \in Calls, Deadlock(c, d)
        PROVE  DayRowsAreHeld' /\ QuotaHolds'
    <2>1. /\ days' = days /\ limit' = limit
          /\ \/ call[c].stage = "counting" /\ Moves(c, "unmetered")
             \/ call[d].stage = "settling" /\ Moves(d, "stranded")
      BY <1>6, DeadlockMeans DEF Meter
    <2>2. QuotaHolds'
      BY <2>1, SameCount DEF Moves, Counting, Standing
    <2>3. \A e \in Calls : call'[e].stage = "counting" => call[e] = call'[e]
      BY <2>1 DEF Moves
    <2>4. \A e \in Calls : call[e].user # NoUser =>
            days'[call[e].user][call[e].month] <= days[call[e].user][call[e].month]
      BY <2>1 DEF TypeOK
    <2>5. ASSUME NEW u, NEW m, HasDayRow(u, m)' PROVE HasDayRow(u, m)
      <3>1. \A e \in Calls : \/ call'[e] = call[e]
                             \/ /\ call'[e].user = call[e].user /\ call'[e].month = call[e].month
                                /\ \/ call'[e].stage \notin Standing \cup Closed \cup {"denied", "unheard"}
                                   \/ call[e].stage \in Standing
        BY <2>1 DEF Moves, Standing, Closed
      <3> QED
        BY <2>5, <3>1, SameRows
    <2> QED
      BY <1>t, <2>1, <2>2, <2>3, <2>4, <2>5, RowsStayHeld
  <1> QED
    BY <1>1, <1>3, <1>4, <1>5, <1>6 DEF Next, FinishStep

----------------------------------------------------------------------------
(* The owner's notices.                                                    *)

NoticesOf(m) ==
    /\ told[m]["warn"] <= 1
    /\ told[m]["warn"] = 1 => \E a \in alerts : a.month = m /\ a.level = "warn"
    /\ told[m]["cap"] <= raises + 1
    /\ told[m]["cap"] = raises + 1 => \E a \in alerts : a.month = m /\ a.level = "cap"

\* A notice is given, if it does not stand already.
LEMMA AlertKeeps ==
    ASSUME NoticeInv, NEW m \in Months, NEW level \in {"warn", "cap"}, NEW at, Alert(m, level, at),
           raises' = raises
    PROVE  NoticesStand'
  <1>0. TypeOK /\ NoticesStand /\ raises \in Nat
    BY SpendConstants DEF NoticeInv, TypeOK
  <1>1. CASE UNCHANGED Owner
    BY <1>0, <1>1 DEF Owner, NoticesStand
  <1>2. CASE /\ ~\E a \in alerts : a.month = m /\ a.level = level
             /\ alerts' = alerts \cup {[month |-> m, level |-> level, cap |-> at]}
             /\ told' = [told EXCEPT ![m][level] = @ + 1]
    <2>1. \A n \in Months : told[n]["warn"] \in Nat /\ told[n]["cap"] \in Nat
      BY <1>0 DEF TypeOK
    <2>2. \A n \in Months, l \in {"warn", "cap"} :
            told'[n][l] = IF n = m /\ l = level THEN told[n][l] + 1 ELSE told[n][l]
      BY <1>0, <1>2 DEF TypeOK
    <2>3. /\ \A a \in alerts : a \in alerts'
          /\ \E a \in alerts' : a.month = m /\ a.level = level
      <3> DEFINE new == [month |-> m, level |-> level, cap |-> at]
      <3>1. new.month = m /\ new.level = level
        OBVIOUS
      <3> HIDE DEF new
      <3>2. alerts' = alerts \cup {new}
        BY <1>2 DEF new
      <3> QED
        BY <3>1, <3>2
    <2> SUFFICES ASSUME NEW n \in Months PROVE NoticesOf(n)'
      BY DEF NoticesStand, NoticesOf
    <2>4. NoticesOf(n)
      BY <1>0 DEF NoticesStand, NoticesOf
    <2>5. /\ told'[n]["warn"] = IF n = m /\ level = "warn" THEN told[n]["warn"] + 1 ELSE told[n]["warn"]
          /\ told'[n]["cap"] = IF n = m /\ level = "cap" THEN told[n]["cap"] + 1 ELSE told[n]["cap"]
      BY <2>2
    <2>6. /\ n = m /\ level = "warn" => told[n]["warn"] < 1
          /\ n = m /\ level = "cap" => told[n]["cap"] < raises + 1
      BY <1>0, <1>2, <2>1, <2>4 DEF NoticesOf
    <2> QED
      BY <1>0, <2>1, <2>3, <2>4, <2>5, <2>6 DEF NoticesOf
  <1> QED
    BY <1>1, <1>2 DEF Alert

LEMMA NoticesKept == NoticeInv /\ [Next]_vars => NoticeInv'
  <1> SUFFICES ASSUME NoticeInv, [Next]_vars PROVE NoticesStand'
    BY TypesKept DEF NoticeInv
  <1>0. CASE UNCHANGED Owner /\ raises' = raises
    BY <1>0 DEF Owner, NoticeInv, NoticesStand
  <1>1. CASE UNCHANGED vars \/ Tick
    BY <1>0, <1>1 DEF vars, Tick, Owner
  <1>2. ASSUME NEW new \in Caps, SetLimits(new)
        PROVE  NoticesStand'
    <2>1. /\ raises' = raises + 1 /\ told' = told /\ raises \in Nat
          /\ \A a \in alerts : a.level = "warn" => a \in alerts'
      BY <1>2, SpendConstants DEF SetLimits, NoticeInv, TypeOK
    <2>2. ASSUME NEW m \in Months PROVE NoticesOf(m)'
      <3>1. NoticesOf(m) /\ told[m]["warn"] \in Nat /\ told[m]["cap"] \in Nat
        BY DEF NoticeInv, NoticesStand, NoticesOf, TypeOK
      <3>2. told[m]["cap"] < raises' + 1
        BY <2>1, <3>1 DEF NoticesOf
      <3> QED
        BY <2>1, <3>1, <3>2 DEF NoticesOf
    <2> QED
      BY <2>2 DEF NoticesStand, NoticesOf
  <1>3. ASSUME NEW c \in Calls, NEW u \in Users \cup {NoUser}, NEW kind \in {"question", "content"},
               BeginReserve(c, u, kind)
        PROVE  NoticesStand'
    BY <1>0, <1>3, BeginReserveMeans DEF NoticeInv
  <1>4. ASSUME NEW c \in Calls, FinishReserve(c)
        PROVE  NoticesStand'
    <2>1. /\ raises' = raises
          /\ \/ UNCHANGED Owner
             \/ Alert(call[c].month, "warn", call[c].cap)
             \/ Alert(call[c].month, "cap", call[c].cap)
      BY <1>4, FinishReserveMeans DEF NoticeInv
    <2>2. call[c].month \in Months
      BY DEF NoticeInv, TypeOK
    <2> QED
      BY <1>0, <2>1, <2>2, AlertKeeps
  <1>5. ASSUME NEW c \in Calls, FinishStep(c)
        PROVE  NoticesStand'
    BY <1>0, <1>5, FinishMeans DEF NoticeInv
  <1>6. ASSUME NEW c \in Calls, NEW d \in Calls, Deadlock(c, d)
        PROVE  NoticesStand'
    BY <1>0, <1>6, DeadlockMeans DEF NoticeInv
  <1> QED
    BY <1>1, <1>2, <1>3, <1>4, <1>5, <1>6 DEF Next, FinishStep

----------------------------------------------------------------------------
(* What the calls cost together: the sum the library folds over a set,     *)
(* one element at a time, in whatever order it picks them.                 *)

CostOf(f, S) == MapThenSumSet(LAMBDA c : f[c].cost, S)

One(s) == CHOOSE x \in s : TRUE
Sum(g, f, s) == IF s = {} THEN 0 ELSE f[One(s)].cost + g[s \ {One(s)}]
IsFold(g, f, S) == g = [s \in SUBSET S |-> Sum(g, f, s)]

LEMMA LeastExists ==
    ASSUME NEW T, T \subseteq Nat, T # {}
    PROVE  \E m \in T : \A k \in T : m <= k
  <1> DEFINE less == OpToRel(<, Nat)
  <1>1. IsWellFoundedOn(less, Nat)
    BY NatLessThanWellFounded
  <1>2. \A k, m \in Nat : <<k, m>> \in less <=> k < m
    BY DEF OpToRel
  <1> HIDE DEF less
  <1>3. PICK m \in T : \A k \in T : ~(<<k, m>> \in less)
    BY <1>1, WFMin
  <1>4. ASSUME NEW k \in T PROVE m <= k
    <2>1. k \in Nat /\ m \in Nat /\ ~(<<k, m>> \in less)
      BY <1>3
    <2> QED
      BY <1>2, <2>1
  <1> QED
    BY <1>4

LEMMA Picks == ASSUME NEW s, s # {} PROVE One(s) \in s
  BY DEF One

\* Taking one element off a finite set.
LEMMA OneOff ==
    ASSUME NEW S, IsFiniteSet(S), NEW s \in SUBSET S
    PROVE  /\ IsFiniteSet(s) /\ Cardinality(s) \in Nat
           /\ \A x \in s : /\ s \ {x} \in SUBSET S
                           /\ Cardinality(s \ {x}) \in Nat
                           /\ Cardinality(s \ {x}) = Cardinality(s) - 1
  <1>1. IsFiniteSet(s) /\ Cardinality(s) \in Nat
    BY FS_Subset, FS_CardinalityType
  <1>2. ASSUME NEW x \in s
        PROVE  Cardinality(s \ {x}) = Cardinality(s) - 1 /\ Cardinality(s \ {x}) \in Nat
    BY <1>1, FS_RemoveElement, FS_CardinalityType
  <1> QED
    BY <1>1, <1>2

\* The fold is made up to any number of elements.
UpTo(g, f, S, n) ==
    /\ g \in [SUBSET S -> Nat]
    /\ \A s \in SUBSET S : Cardinality(s) <= n => g[s] = Sum(g, f, s)

LEMMA FoldGrows ==
    ASSUME NEW f, NEW S, IsFiniteSet(S), \A c \in S : f[c].cost \in Nat, NEW n \in Nat
    PROVE  \E g : UpTo(g, f, S, n)
  <1> DEFINE T == {k \in Nat : ~ \E g : UpTo(g, f, S, k)}
  <1> SUFFICES ASSUME T # {} PROVE FALSE
    OBVIOUS
  <1>1. PICK m \in T : \A k \in T : m <= k
    BY LeastExists
  <1>2. m # 0
    <2> DEFINE g == [s \in SUBSET S |-> 0]
    <2>1. ASSUME NEW s \in SUBSET S, Cardinality(s) <= 0 PROVE s = {}
      BY <2>1, OneOff, FS_EmptySet
    <2>2. UpTo(g, f, S, 0)
      BY <2>1 DEF UpTo, Sum
    <2> QED
      BY <2>2
  <1>3. m - 1 \in Nat /\ m - 1 \notin T
    BY <1>1, <1>2
  <1>4. PICK g : UpTo(g, f, S, m - 1)
    BY <1>3
  <1> DEFINE h == [s \in SUBSET S |-> IF Cardinality(s) = m THEN f[One(s)].cost + g[s \ {One(s)}] ELSE g[s]]
  <1>5. ASSUME NEW s \in SUBSET S, s # {}
        PROVE  /\ One(s) \in s /\ s \ {One(s)} \in SUBSET S /\ f[One(s)].cost \in Nat
               /\ Cardinality(s) \in Nat /\ Cardinality(s \ {One(s)}) = Cardinality(s) - 1
               /\ g[s \ {One(s)}] \in Nat
    BY <1>4, <1>5, Picks, OneOff DEF UpTo
  <1>6. {} \in SUBSET S /\ Cardinality({}) = 0
    BY FS_EmptySet
  <1>7. h \in [SUBSET S -> Nat]
    <2>1. ASSUME NEW s \in SUBSET S
          PROVE  (IF Cardinality(s) = m THEN f[One(s)].cost + g[s \ {One(s)}] ELSE g[s]) \in Nat
      <3>1. g[s] \in Nat
        BY <1>4 DEF UpTo
      <3>2. CASE Cardinality(s) = m
        <4>1. s # {}
          BY <1>2, <1>6, <3>2
        <4>2. f[One(s)].cost \in Nat /\ g[s \ {One(s)}] \in Nat
          BY <1>5, <4>1
        <4>3. f[One(s)].cost + g[s \ {One(s)}] \in Nat
          BY <4>2
        <4> QED
          BY <3>2, <4>3
      <3> QED
        BY <3>1, <3>2
    <2> QED
      BY <2>1
  <1>8. ASSUME NEW s \in SUBSET S, Cardinality(s) <= m PROVE h[s] = Sum(h, f, s)
    <2>1. CASE s = {}
      <3>1. h[s] = g[s] /\ g[s] = Sum(g, f, s)
        BY <1>2, <1>3, <1>4, <1>6, <2>1 DEF UpTo
      <3> QED
        BY <2>1, <3>1 DEF Sum
    <2>2. CASE s # {}
      <3>1. h[s \ {One(s)}] = g[s \ {One(s)}]
        BY <1>5, <1>8, <2>2
      <3>2. CASE Cardinality(s) = m
        BY <2>2, <3>1, <3>2 DEF Sum
      <3>3. CASE Cardinality(s) # m
        <4>1. Cardinality(s) <= m - 1
          <5>1. m \in Nat /\ Cardinality(s) \in Nat
            BY <1>1, <1>5, <2>2
          <5> QED
            BY <1>8, <3>3, <5>1
        <4>2. h[s] = g[s] /\ g[s] = Sum(g, f, s)
          BY <1>4, <3>3, <4>1 DEF UpTo
        <4> QED
          BY <2>2, <3>1, <4>2 DEF Sum
      <3> QED
        BY <3>2, <3>3
    <2> QED
      BY <2>1, <2>2
  <1> HIDE DEF h
  <1>9. UpTo(h, f, S, m)
    BY <1>7, <1>8 DEF UpTo
  <1> QED
    BY <1>9

LEMMA FoldExists ==
    ASSUME NEW f, NEW S, IsFiniteSet(S), \A c \in S : f[c].cost \in Nat
    PROVE  \E g : IsFold(g, f, S)
  <1>1. Cardinality(S) \in Nat
    BY FS_CardinalityType
  <1>2. PICK g : UpTo(g, f, S, Cardinality(S))
    BY <1>1, FoldGrows
  <1>3. ASSUME NEW s \in SUBSET S PROVE g[s] = Sum(g, f, s)
    <2>1. Cardinality(s) <= Cardinality(S)
      BY FS_Subset
    <2> QED
      BY <1>2, <2>1 DEF UpTo
  <1>4. g = [s \in SUBSET S |-> Sum(g, f, s)]
    BY <1>2, <1>3 DEF UpTo
  <1> QED
    BY <1>4 DEF IsFold

\* The sum is the fold's value.
LEMMA CostFolds ==
    ASSUME NEW f, NEW S, IsFiniteSet(S), \A c \in S : f[c].cost \in Nat
    PROVE  \E g : IsFold(g, f, S) /\ CostOf(f, S) = g[S]
  <1> DEFINE G == CHOOSE g : IsFold(g, f, S)
  <1>1. CostOf(f, S) = G[S]
    BY Zenon DEF CostOf, MapThenSumSet, MapThenFoldSet, IsFold, Sum, One
  <1>2. IsFold(G, f, S)
    BY FoldExists
  <1> QED
    BY <1>1, <1>2

LEMMA FoldAt ==
    ASSUME NEW g, NEW f, NEW S, IsFold(g, f, S), NEW s \in SUBSET S
    PROVE  g[s] = Sum(g, f, s)
  BY DEF IsFold

\* A smallest set among some of a finite set's subsets.
LEMMA SmallestExists ==
    ASSUME NEW S, IsFiniteSet(S), NEW Bad, Bad \subseteq SUBSET S, Bad # {}
    PROVE  \E s \in Bad : \A t \in SUBSET s : t # s => t \notin Bad
  <1> DEFINE Sizes == {Cardinality(s) : s \in Bad}
  <1>1. Sizes \subseteq Nat /\ Sizes # {}
    BY FS_Subset, FS_CardinalityType
  <1>2. PICK m \in Sizes : \A k \in Sizes : m <= k
    BY <1>1, LeastExists
  <1>3. PICK s \in Bad : Cardinality(s) = m
    BY <1>2
  <1>4. ASSUME NEW t \in SUBSET s, t # s, t \in Bad PROVE FALSE
    <2>1. IsFiniteSet(s)
      BY FS_Subset
    <2>2. Cardinality(t) < Cardinality(s)
      <3>1. Cardinality(t) <= Cardinality(s) /\ Cardinality(t) # Cardinality(s)
        BY <1>4, <2>1, FS_Subset
      <3>2. Cardinality(t) \in Nat /\ Cardinality(s) \in Nat
        BY <1>1, <1>4
      <3> QED
        BY <3>1, <3>2
    <2>3. m <= Cardinality(t)
      BY <1>2, <1>4
    <2>4. m \in Nat /\ Cardinality(t) \in Nat
      BY <1>1, <1>4
    <2> QED
      BY <1>3, <2>2, <2>3, <2>4
  <1> QED
    BY <1>4

\* Two folds agree wherever what they add up agrees.
LEMMA FoldsAgree ==
    ASSUME NEW g, NEW f, NEW S, NEW h, NEW e, NEW T, IsFold(g, f, S), IsFold(h, e, T),
           IsFiniteSet(S), S \subseteq T, \A c \in S : f[c].cost = e[c].cost
    PROVE  g[S] = h[S]
  <1> DEFINE Bad == {s \in SUBSET S : g[s] # h[s]}
  <1> SUFFICES ASSUME Bad # {} PROVE FALSE
    OBVIOUS
  <1>1. PICK s \in Bad : \A t \in SUBSET s : t # s => t \notin Bad
    <2>1. Bad \subseteq SUBSET S
      OBVIOUS
    <2> HIDE DEF Bad
    <2> QED
      BY <2>1, SmallestExists
  <1>2. g[s] = Sum(g, f, s) /\ h[s] = Sum(h, e, s)
    BY FoldAt
  <1>3. s # {}
    BY <1>2 DEF Sum
  <1>4. One(s) \in s /\ f[One(s)].cost = e[One(s)].cost
    BY <1>3, Picks
  <1>5. g[s \ {One(s)}] = h[s \ {One(s)}]
    BY <1>1, <1>4
  <1> QED
    BY <1>2, <1>3, <1>4, <1>5 DEF Sum

\* A fold takes off any element, not only the one it picks first.
TakesAny(g, f, s) == g[s] \in Nat /\ \A x \in s : g[s] = f[x].cost + g[s \ {x}]

LEMMA FoldTakesAny ==
    ASSUME NEW g, NEW f, NEW S, IsFold(g, f, S), IsFiniteSet(S), \A c \in S : f[c].cost \in Nat
    PROVE  \A s \in SUBSET S : TakesAny(g, f, s)
  <1> DEFINE Bad == {s \in SUBSET S : ~TakesAny(g, f, s)}
  <1> SUFFICES ASSUME Bad # {} PROVE FALSE
    OBVIOUS
  <1>1. PICK s \in Bad : \A t \in SUBSET s : t # s => t \notin Bad
    <2>1. Bad \subseteq SUBSET S
      OBVIOUS
    <2> HIDE DEF Bad
    <2> QED
      BY <2>1, SmallestExists
  <1>2. \A t \in SUBSET s : t # s => TakesAny(g, f, t)
    BY <1>1
  <1>3. g[s] = Sum(g, f, s) /\ s \in SUBSET S
    BY FoldAt
  <1>4. s # {}
    BY <1>3 DEF Sum, TakesAny
  <1>5. PICK p \in s : g[s] = f[p].cost + g[s \ {p}]
    BY <1>3, <1>4, Picks DEF Sum
  <1>6. \A x \in s : f[x].cost \in Nat /\ g[s \ {x}] \in Nat
    BY <1>2, <1>3 DEF TakesAny
  <1>7. g[s] \in Nat
    BY <1>5, <1>6
  <1>8. ASSUME NEW x \in s, x # p PROVE g[s] = f[x].cost + g[s \ {x}]
    <2> DEFINE rest == (s \ {p}) \ {x}
    <2>1. /\ x \in s \ {p} /\ p \in s \ {x} /\ rest = (s \ {x}) \ {p}
          /\ s \ {p} \in SUBSET s /\ s \ {x} \in SUBSET s /\ rest \in SUBSET s
          /\ s \ {p} # s /\ s \ {x} # s /\ rest # s
      BY <1>8
    <2>2. g[s \ {p}] = f[x].cost + g[rest] /\ g[s \ {x}] = f[p].cost + g[rest] /\ g[rest] \in Nat
      BY <1>2, <2>1 DEF TakesAny
    <2> HIDE DEF rest
    <2>3. f[x].cost \in Nat /\ f[p].cost \in Nat
      BY <1>6
    <2> QED
      BY <1>5, <2>2, <2>3
  <1> QED
    BY <1>5, <1>7, <1>8 DEF TakesAny

\* The sum depends on the costs in the set, is none for none, and grows by the
\* cost of a call that joins it.
LEMMA CostsAgree ==
    ASSUME NEW f, NEW e, NEW S, IsFiniteSet(S), \A c \in S : f[c].cost \in Nat /\ e[c].cost = f[c].cost
    PROVE  CostOf(e, S) = CostOf(f, S)
  <1>1. PICK g : IsFold(g, f, S) /\ CostOf(f, S) = g[S]
    BY CostFolds
  <1>2. PICK h : IsFold(h, e, S) /\ CostOf(e, S) = h[S]
    BY CostFolds
  <1>3. g[S] = h[S]
    BY <1>1, <1>2, FoldsAgree
  <1> QED
    BY <1>1, <1>2, <1>3

LEMMA CostOfNone == ASSUME NEW f PROVE CostOf(f, {}) = 0
  <1>1. PICK g : IsFold(g, f, {}) /\ CostOf(f, {}) = g[{}]
    BY CostFolds, FS_EmptySet
  <1> QED
    BY <1>1 DEF IsFold, Sum

LEMMA CostOfOneMore ==
    ASSUME NEW f, NEW S, IsFiniteSet(S), \A c \in S : f[c].cost \in Nat,
           NEW x, x \notin S, f[x].cost \in Nat
    PROVE  /\ CostOf(f, S) \in Nat
           /\ CostOf(f, S \cup {x}) = CostOf(f, S) + f[x].cost
  <1> DEFINE T == S \cup {x}
  <1>1. IsFiniteSet(T) /\ \A c \in T : f[c].cost \in Nat
    BY FS_AddElement
  <1>2. PICK g : IsFold(g, f, S) /\ CostOf(f, S) = g[S]
    BY CostFolds
  <1>3. PICK h : IsFold(h, f, T) /\ CostOf(f, T) = h[T]
    BY <1>1, CostFolds
  <1>4. g[S] = h[S]
    BY <1>2, <1>3, FoldsAgree
  <1>5. TakesAny(h, f, T) /\ TakesAny(h, f, S)
    BY <1>1, <1>3, FoldTakesAny
  <1>6. x \in T /\ T \ {x} = S
    OBVIOUS
  <1>7. h[T] = f[x].cost + h[S] /\ h[S] \in Nat
    BY <1>5, <1>6 DEF TakesAny
  <1> HIDE DEF T
  <1>8. CostOf(f, T) = CostOf(f, S) + f[x].cost
    BY <1>2, <1>3, <1>4, <1>7
  <1> QED
    BY <1>2, <1>4, <1>7, <1>8 DEF T

----------------------------------------------------------------------------
(* What is booked.                                                         *)

Paid(m) == CostOf(call, CallsOf(m, {"settled"}))
Open(m) == Cardinality(CallsOf(m, Standing))
BookedOf(m) == spent[m] = Paid(m) /\ booked[m] = Paid(m) + Estimate * Open(m)

BooksInv == TypeOK /\ CallsAreWhole /\ BookedIsTheSum

LEMMA BooksMean == /\ BookedIsTheSum <=> \A m \in Months : BookedOf(m)
                   /\ BookedIsTheSum' <=> \A m \in Months : BookedOf(m)'
  <1>1. BookedIsTheSum <=> \A m \in Months : BookedOf(m)
    BY DEF BookedIsTheSum, BookedOf, Paid, Open, CostOf
  <1>2. BookedIsTheSum' <=> \A m \in Months : BookedOf(m)'
    BY DEF BookedIsTheSum, BookedOf, Paid, Open, CostOf, Months
  <1> QED
    BY <1>1, <1>2

\* Any month's calls are finitely many, and cost natural numbers.
LEMMA CallsAreFew ==
    ASSUME TypeOK, NEW m, NEW stages
    PROVE  /\ IsFiniteSet(CallsOf(m, stages)) /\ Cardinality(CallsOf(m, stages)) \in Nat
           /\ \A c \in CallsOf(m, stages) : call[c].cost \in Nat
  <1>1. CallsOf(m, stages) \subseteq Calls
    BY DEF CallsOf
  <1>2. \A c \in Calls : call[c].cost \in Nat
    <2>1. call \in [Calls -> CallRow] /\ Costs \subseteq Nat
      BY SpendConstants DEF TypeOK, CallRow
    <2> SUFFICES ASSUME NEW c \in Calls PROVE call[c].cost \in Nat
      OBVIOUS
    <2>2. call[c].cost \in Costs \cup {0}
      BY <2>1 DEF CallRow
    <2>3. Costs \cup {0} \subseteq Nat
      BY SpendConstants
    <2> QED
      BY <2>2, <2>3
  <1> QED
    BY <1>1, <1>2, SpendConstants, FS_Subset, FS_CardinalityType

\* A call that costs nothing new, and no other, joins or leaves the books.
LEMMA SamePaid ==
    ASSUME TypeOK, NEW m \in Months,
           \A d \in Calls : call'[d].stage = "settled" <=> call[d].stage = "settled",
           \A d \in Calls : call[d].stage = "settled" => call'[d] = call[d]
    PROVE  Paid(m)' = Paid(m)
  <1> DEFINE S == CallsOf(m, {"settled"})
  <1>1. CallsOf(m, {"settled"})' = S
    BY DEF CallsOf
  <1>2. IsFiniteSet(S) /\ \A c \in S : call[c].cost \in Nat /\ call'[c].cost = call[c].cost
    <2>1. \A c \in S : call'[c] = call[c]
      BY DEF CallsOf
    <2> QED
      BY <2>1, CallsAreFew
  <1> HIDE DEF S
  <1>3. CostOf(call', S) = CostOf(call, S)
    BY <1>2, CostsAgree
  <1>4. Paid(m)' = CostOf(call', CallsOf(m, {"settled"})')
    BY DEF Paid
  <1> QED
    BY <1>1, <1>3, <1>4 DEF Paid, S

LEMMA SameOpen ==
    ASSUME NEW m,
           \A d \in Calls : call'[d].stage \in Standing <=> call[d].stage \in Standing,
           \A d \in Calls : call[d].stage \in Standing => call'[d].month = call[d].month
    PROVE  Open(m)' = Open(m)
  <1>1. CallsOf(m, Standing)' = CallsOf(m, Standing)
    BY DEF CallsOf, Standing
  <1> QED
    BY <1>1 DEF Open

LEMMA SameBooks ==
    ASSUME TypeOK, BookedIsTheSum, booked' = booked, spent' = spent,
           \A d \in Calls : call'[d].stage \in Standing <=> call[d].stage \in Standing,
           \A d \in Calls : call[d].stage \in Standing => call'[d].month = call[d].month,
           \A d \in Calls : call'[d].stage = "settled" <=> call[d].stage = "settled",
           \A d \in Calls : call[d].stage = "settled" => call'[d] = call[d]
    PROVE  BookedIsTheSum'
  <1> SUFFICES ASSUME NEW m \in Months PROVE BookedOf(m)'
    BY BooksMean
  <1>1. BookedOf(m) /\ Paid(m)' = Paid(m) /\ Open(m)' = Open(m)
    BY BooksMean, SamePaid, SameOpen
  <1> QED
    BY <1>1 DEF BookedOf

\* A reservation books its estimate.
LEMMA OneBooked ==
    ASSUME TypeOK, BookedIsTheSum, NEW c \in Calls, NEW x \in {"allowed", "stranded"},
           call[c].stage = "counting", Moves(c, x), spent' = spent,
           booked' = [booked EXCEPT ![call[c].month] = @ + Estimate]
    PROVE  BookedIsTheSum'
  <1> SUFFICES ASSUME NEW m \in Months PROVE BookedOf(m)'
    BY BooksMean
  <1>1. BookedOf(m)
    BY BooksMean
  <1>2. Paid(m)' = Paid(m)
    BY SamePaid DEF Moves
  <1>3. CASE m = call[c].month
    <2> DEFINE S == CallsOf(m, Standing)
    <2>1. CallsOf(m, Standing)' = S \cup {c} /\ c \notin S
      BY <1>3 DEF CallsOf, Standing, Moves
    <2>2. IsFiniteSet(S) /\ Cardinality(S) \in Nat
      BY CallsAreFew
    <2> HIDE DEF S
    <2>3. Open(m)' = Cardinality(S) + 1
      BY <2>1, <2>2, FS_AddElement DEF Open
    <2>4. Open(m) = Cardinality(S)
      BY DEF Open, S
    <2>5. Estimate * (Cardinality(S) + 1) = Estimate * Cardinality(S) + Estimate
          /\ Estimate * Cardinality(S) \in Int
      BY <2>2, SpendConstants
    <2>6. booked'[m] = booked[m] + Estimate /\ spent'[m] = spent[m] /\ spent[m] \in Nat /\ Estimate \in Nat
      BY <1>3, SpendConstants DEF TypeOK
    <2> QED
      BY <1>1, <1>2, <2>3, <2>4, <2>5, <2>6 DEF BookedOf
  <1>4. CASE m # call[c].month
    <2>1. CallsOf(m, Standing)' = CallsOf(m, Standing)
      BY <1>4 DEF CallsOf, Standing, Moves
    <2>2. Open(m)' = Open(m) /\ booked'[m] = booked[m]
      BY <1>4, <2>1 DEF Open, TypeOK
    <2> QED
      BY <1>1, <1>2, <2>2 DEF BookedOf
  <1> QED
    BY <1>3, <1>4

\* A call leaves the books' estimates, and its cost joins what was paid.
LEMMA OneCommitted ==
    ASSUME TypeOK, BookedIsTheSum, NEW c \in Calls, NEW then \in {"settled", "released", "refunded"},
           NEW cost \in Nat, then # "settled" => cost = 0,
           call[c].stage \in {"allowed", "settling"}, Moves(c, then), call'[c].cost = cost,
           booked' = [booked EXCEPT ![call[c].month] = Larger(0, @ - Estimate + cost)],
           spent' = [spent EXCEPT ![call[c].month] = @ + cost]
    PROVE  BookedIsTheSum'
  <1> SUFFICES ASSUME NEW m \in Months PROVE BookedOf(m)'
    BY BooksMean
  <1>1. BookedOf(m)
    BY BooksMean
  <1>2. CASE m = call[c].month
    <2> DEFINE S == CallsOf(m, Standing)
    <2>1. c \in S /\ CallsOf(m, Standing)' = S \ {c}
      BY <1>2 DEF CallsOf, Standing, Moves
    <2>2. IsFiniteSet(S) /\ Cardinality(S) \in Nat
      BY CallsAreFew
    <2>3. Open(m) = Cardinality(S)
      BY DEF Open
    <2> HIDE DEF S
    <2>4. Open(m)' = Cardinality(S) - 1 /\ Cardinality(S) - 1 \in Nat
      <3>1. Cardinality(S \ {c}) = Cardinality(S) - 1 /\ IsFiniteSet(S \ {c})
        BY <2>1, <2>2, FS_RemoveElement
      <3>2. Cardinality(S \ {c}) \in Nat
        BY <3>1, FS_CardinalityType
      <3> QED
        BY <2>1, <3>1, <3>2 DEF Open
    <2>5. /\ Estimate * Cardinality(S) = Estimate * (Cardinality(S) - 1) + Estimate
          /\ Estimate * (Cardinality(S) - 1) \in Nat
      BY <2>2, <2>4, SpendConstants
    <2>6. /\ booked'[m] = Larger(0, booked[m] - Estimate + cost) /\ spent'[m] = spent[m] + cost
          /\ spent[m] \in Nat /\ Estimate \in Nat
      BY <1>2, SpendConstants DEF TypeOK
    <2>7. Paid(m)' = Paid(m) + cost
      <3>1. CASE then # "settled"
        <4>1. Paid(m)' = Paid(m)
          BY <3>1, SamePaid DEF Moves
        <4> QED
          BY <1>1, <2>6, <3>1, <4>1 DEF BookedOf
      <3>2. CASE then = "settled"
        <4> DEFINE P == CallsOf(m, {"settled"})
        <4>1. c \notin P /\ CallsOf(m, {"settled"})' = P \cup {c}
          BY <1>2, <3>2 DEF CallsOf, Moves
        <4>2. IsFiniteSet(P) /\ \A d \in P : call[d].cost \in Nat /\ call'[d].cost = call[d].cost
          <5>1. \A d \in P : call'[d] = call[d]
            BY <4>1 DEF CallsOf, Moves
          <5> QED
            BY <5>1, CallsAreFew
        <4>3. Paid(m)' = CostOf(call', CallsOf(m, {"settled"})') /\ Paid(m) = CostOf(call, P)
          BY DEF Paid
        <4> HIDE DEF P
        <4>4. CostOf(call', P) = CostOf(call, P)
          BY <4>2, CostsAgree
        <4>5. CostOf(call', P \cup {c}) = CostOf(call', P) + cost
          <5>1. \A d \in P : call'[d].cost \in Nat
            BY <4>2
          <5> QED
            BY <4>1, <4>2, <5>1, CostOfOneMore
        <4> QED
          BY <4>1, <4>3, <4>4, <4>5
      <3> QED
        BY <3>1, <3>2
    <2> DEFINE p == Paid(m)
               e == Estimate * (Cardinality(S) - 1)
    <2>8. /\ spent[m] = p /\ booked[m] = p + (e + Estimate) /\ p \in Nat /\ e \in Nat
      BY <1>1, <2>3, <2>5, <2>6 DEF BookedOf
    <2>9. Paid(m)' = p + cost /\ Estimate * Open(m)' = e
      BY <2>4, <2>7
    <2> HIDE DEF p, e
    <2>10. booked'[m] = p + cost + e
      BY <2>6, <2>8 DEF Larger
    <2> QED
      BY <2>6, <2>8, <2>9, <2>10 DEF BookedOf
  <1>3. CASE m # call[c].month
    <2>1. CallsOf(m, Standing)' = CallsOf(m, Standing) /\ CallsOf(m, {"settled"})' = CallsOf(m, {"settled"})
      BY <1>3 DEF CallsOf, Standing, Moves
    <2>2. /\ IsFiniteSet(CallsOf(m, {"settled"}))
          /\ \A d \in CallsOf(m, {"settled"}) : call[d].cost \in Nat /\ call'[d].cost = call[d].cost
      BY <1>3, CallsAreFew DEF CallsOf, Moves
    <2>3. CostOf(call', CallsOf(m, {"settled"})) = CostOf(call, CallsOf(m, {"settled"}))
      BY <2>2, CostsAgree
    <2>4. Paid(m)' = CostOf(call', CallsOf(m, {"settled"})')
      BY DEF Paid
    <2>5. Paid(m)' = Paid(m)
      BY <2>1, <2>3, <2>4 DEF Paid
    <2>6. Open(m)' = Open(m) /\ booked'[m] = booked[m] /\ spent'[m] = spent[m]
      BY <1>3, <2>1 DEF Open, TypeOK
    <2> QED
      BY <1>1, <2>5, <2>6 DEF BookedOf
  <1> QED
    BY <1>2, <1>3

LEMMA BooksKept == BooksInv /\ [Next]_vars => BooksInv'
  <1> SUFFICES ASSUME BooksInv, [Next]_vars PROVE BookedIsTheSum'
    BY TypesKept DEF BooksInv
  <1> USE DEF BooksInv
  <1>1. CASE UNCHANGED vars \/ Tick \/ \E new \in Caps : SetLimits(new)
    <2>1. call' = call /\ booked' = booked /\ spent' = spent
      BY <1>1 DEF vars, Tick, SetLimits, Meter
    <2> QED
      BY <2>1, SameBooks
  <1>2. ASSUME NEW c \in Calls, NEW u \in Users \cup {NoUser}, NEW kind \in {"question", "content"},
               BeginReserve(c, u, kind)
        PROVE  BookedIsTheSum'
    <2>1. /\ call[c].stage = "idle" /\ UNCHANGED Meter /\ \A d \in Calls \ {c} : call'[d] = call[d]
          /\ call'[c].stage \in {"denied", "unheard", "counting"}
      BY <1>2, BeginReserveMeans
    <2> QED
      BY <2>1, SameBooks DEF Meter, Standing
  <1>3. ASSUME NEW c \in Calls, FinishReserve(c)
        PROVE  BookedIsTheSum'
    <2>1. /\ call[c].stage = "counting" /\ spent' = spent
          /\ \E x \in Stages : Moves(c, x)
          /\ \/ /\ call'[c].stage \in {"allowed", "stranded"}
                /\ booked' = [booked EXCEPT ![call[c].month] = @ + Estimate]
             \/ call'[c].stage \in {"denied", "unheard"} /\ booked' = booked
      BY <1>3, FinishReserveMeans
    <2>2. PICK x \in Stages : Moves(c, x) /\ call'[c].stage = x
      BY <2>1 DEF Moves
    <2>3. CASE x \in {"allowed", "stranded"}
      BY <2>1, <2>2, <2>3, OneBooked
    <2>4. CASE x \in {"denied", "unheard"}
      BY <2>1, <2>2, <2>4, SameBooks DEF Moves, Standing
    <2> QED
      BY <2>1, <2>2, <2>3, <2>4
  <1>4. ASSUME NEW c \in Calls, FinishStep(c)
        PROVE  BookedIsTheSum'
    <2>1. CASE Moves(c, "settling") /\ UNCHANGED Meter
      <3>1. call[c].stage \in {"allowed", "settling"}
        BY <1>4, FinishMeans
      <3> QED
        BY <2>1, <3>1, SameBooks DEF Moves, Standing, Meter
    <2>2. CASE ~(Moves(c, "settling") /\ UNCHANGED Meter)
      <3>0. TypeOK /\ CallsAreWhole
        OBVIOUS
      <3>1. PICK then \in {"settled", "released", "refunded"}, cost \in Costs \cup {0} :
              Moves(c, then) /\ Pays(c, then, cost)
        BY <1>4, <2>2, <3>0, FinishMeans
      <3>2. call[c].stage \in {"allowed", "settling"} /\ cost \in Nat
        <4>1. call[c].stage \in {"allowed", "settling"}
          BY <1>4, <3>0, FinishMeans, Zenon
        <4>2. cost \in Nat
          BY SpendConstants
        <4> QED
          BY <4>1, <4>2
      <3> QED
        BY <3>1, <3>2, OneCommitted DEF Pays
    <2> QED
      BY <2>1, <2>2
  <1>5. ASSUME NEW c \in Calls, NEW d \in Calls, Deadlock(c, d)
        PROVE  BookedIsTheSum'
    <2>1. /\ UNCHANGED Meter
          /\ \/ call[c].stage = "counting" /\ Moves(c, "unmetered")
             \/ call[d].stage = "settling" /\ Moves(d, "stranded")
      BY <1>5, DeadlockMeans
    <2> QED
      BY <2>1, SameBooks DEF Moves, Standing, Meter
  <1> QED
    BY <1>1, <1>2, <1>3, <1>4, <1>5 DEF Next, FinishStep

----------------------------------------------------------------------------
(* SpendGuard implements CallLedger.                                       *)

StandsIn(x) == x \in Standing \cup {"settled", "released", "refunded"}

\* What an entry says of its call.
LEMMA EntryIs ==
    ASSUME TypeOK, NEW c \in Calls
    PROVE  LET r == call[c]
               e == entries[c]
           IN  /\ ~StandsIn(r.stage) => e = NoEntry
               /\ StandsIn(r.stage) => e.user = r.user /\ e.kind = r.kind /\ e.month = r.month
               /\ e.state = "open" <=> r.stage \in Standing
               /\ \A x \in {"settled", "released", "refunded"} : e.state = x <=> r.stage = x
               /\ r.stage = "settled" => e.cost = r.cost
  <1>1. entries[c] = EntryOf(call[c])
    BY DEF entries
  <1>2. CASE StandsIn(call[c].stage)
    BY <1>1, <1>2 DEF StandsIn, EntryOf, StateOf, Standing, Row
  <1>3. CASE ~StandsIn(call[c].stage)
    BY <1>1, <1>3 DEF StandsIn, EntryOf, StateOf, Standing, NoEntry, Row
  <1> QED
    BY <1>2, <1>3

\* The entries of a month are the calls that have one.
LEMMA EntriesOfMonth ==
    ASSUME TypeOK, NEW m \in Months
    PROVE  /\ Account!In(m, {"open"}) = CallsOf(m, Standing)
           /\ Account!In(m, {"settled"}) = CallsOf(m, {"settled"})
           /\ \A u \in Users : {c \in Account!In(m, {"open", "settled", "released"}) : entries[c].user = u}
                               = Mine(u, m)
           /\ ~HasMonthRow(m) => Account!Entered(m) = {}
           /\ \A u \in Users : ~HasDayRow(u, m) => Account!First(u, m)
  <1>1. Account!In(m, {"open"}) = CallsOf(m, Standing)
    BY EntryIs DEF Account!In, CallsOf, StandsIn
  <1>2. Account!In(m, {"settled"}) = CallsOf(m, {"settled"})
    BY EntryIs DEF Account!In, CallsOf, StandsIn
  <1>3. ASSUME NEW u \in Users
        PROVE  {c \in Account!In(m, {"open", "settled", "released"}) : entries[c].user = u} = Mine(u, m)
    BY EntryIs DEF Account!In, CallsOf, StandsIn, Mine, Counting
  <1>4. \A c \in Account!Entered(m) : c \in CallsOf(m, Standing \cup Closed) /\ entries[c].user = call[c].user
    BY EntryIs DEF Account!Entered, Account!In, CallsOf, StandsIn, Closed
  <1>5. ~HasMonthRow(m) => Account!Entered(m) = {}
    BY <1>4 DEF HasMonthRow
  <1>6. \A u \in Users : ~HasDayRow(u, m) => Account!First(u, m)
    BY <1>4 DEF HasDayRow, CallsOf, Account!First
  <1> QED
    BY <1>1, <1>2, <1>3, <1>5, <1>6

\* The ledger counts and adds up as the guard does.
LEMMA SameSize == ASSUME NEW S PROVE Account!Cardinality(S) = Cardinality(S)
  BY Zenon DEF Account!Cardinality, Cardinality

LEMMA SameSum ==
    ASSUME NEW f, NEW S
    PROVE  Account!MapThenSumSet(LAMBDA c : f[c].cost, S) = CostOf(f, S)
  BY Zenon DEF CostOf, Account!MapThenSumSet, MapThenSumSet, Account!MapThenFoldSet, MapThenFoldSet

\* The counters say what the ledger does.
LEMMA CountersAgree ==
    ASSUME TypeOK, BookedIsTheSum, QuotaHolds, NEW m \in Months
    PROVE  /\ Account!Total(m) = booked[m]
           /\ \A u \in Users : Account!CountOf(u, m) = days[u][m]
  <1> DEFINE S == CallsOf(m, {"settled"})
  <1>1. IsFiniteSet(S) /\ \A c \in S : call[c].cost \in Nat /\ entries[c].cost = call[c].cost
    <2>1. \A c \in S : c \in Calls /\ call[c].stage = "settled"
      BY DEF CallsOf
    <2> QED
      BY <2>1, CallsAreFew, EntryIs
  <1>2. CostOf(entries, S) = CostOf(call, S)
    <2> HIDE DEF S
    <2> QED
      BY <1>1, CostsAgree
  <1>3. Account!Total(m) = CostOf(entries, S) + Estimate * Cardinality(CallsOf(m, Standing))
    <2>1. Account!Total(m) = CostOf(entries, Account!In(m, {"settled"}))
                             + Estimate * Cardinality(Account!In(m, {"open"}))
      BY SameSize, SameSum DEF Account!Total
    <2> QED
      BY <2>1, EntriesOfMonth
  <1>4. booked[m] = CostOf(call, S) + Estimate * Cardinality(CallsOf(m, Standing))
    BY BooksMean DEF BookedOf, Paid, Open
  <1>5. ASSUME NEW u \in Users PROVE Account!CountOf(u, m) = days[u][m]
    <2>1. QuotaOf(u, m)
      BY QuotaMeans
    <2>2. {c \in Account!In(m, {"open", "settled", "released"}) : entries[c].user = u} = Mine(u, m)
      BY EntriesOfMonth
    <2>3. Account!CountOf(u, m) = Cardinality(Mine(u, m))
      BY <2>2, SameSize DEF Account!CountOf
    <2> QED
      BY <2>1, <2>3 DEF QuotaOf
  <1> QED
    BY <1>2, <1>3, <1>4, <1>5

\* One call's entry changes, or none does.
LEMMA OneEntry ==
    ASSUME NEW c \in Calls, \A d \in Calls \ {c} : call'[d] = call[d]
    PROVE  entries' = [entries EXCEPT ![c] = EntryOf(call'[c])]
  BY DEF entries

LEMMA SameEntries ==
    ASSUME NEW c \in Calls, \A d \in Calls \ {c} : call'[d] = call[d], EntryOf(call'[c]) = EntryOf(call[c])
    PROVE  entries' = entries
  BY DEF entries

LedgerInv == QuotaInv /\ BookedIsTheSum

LEMMA AdmitStep ==
    ASSUME LedgerInv, NEW c \in Calls, FinishReserve(c)
    PROVE  \/ entries' = entries
           \/ \E u \in Users \cup {NoUser}, kind \in {"question", "content"}, m \in Months :
                Account!Admit(c, u, kind, m)
  <1> DEFINE r == call[c]
  <1>1. TypeOK /\ CallsAreWhole /\ DayRowsAreHeld /\ QuotaHolds /\ BookedIsTheSum
    BY DEF LedgerInv, QuotaInv
  <1>2. /\ r.stage = "counting" /\ r.cap \in Caps /\ r.month \in Months
        /\ r.user \in Users \cup {NoUser} /\ r.kind \in {"question", "content"}
    BY <1>1 DEF FinishReserve, CallsAreWhole, TypeOK
  <1>3. \E x \in Stages : Moves(c, x)
    BY <1>1, FinishReserveMeans
  <1>4. entries[c] = NoEntry /\ EntryOf(r) = NoEntry
    BY <1>1, <1>2, EntryIs DEF StandsIn, Standing, entries
  <1>5. CASE ~HasMonthRow(r.month) \/ booked[r.month] < EffectiveCap(r)
    <2>1. call'[c].stage \in {"allowed", "stranded"}
      <3>1. Heard(c, "allowed")
        BY <1>5 DEF FinishReserve
      <3>2. call' = [call EXCEPT ![c].stage = "allowed"] \/ call' = [call EXCEPT ![c].stage = "stranded"]
        BY <3>1 DEF Heard
      <3> QED
        BY <1>1, <3>2, StageMoves DEF Moves, Stages
    <2>2. EntryOf(call'[c]) = Row("open", r.user, r.kind, r.month, 0)
      BY <1>3, <2>1 DEF Moves, EntryOf, StateOf
    <2>3. entries' = [entries EXCEPT ![c] = EntryOf(call'[c])]
      BY <1>3, OneEntry DEF Moves
    <2>4. r.kind = "question" /\ r.user # NoUser
            => Account!First(r.user, r.month) \/ Account!CountOf(r.user, r.month) < limit
      BY <1>1, <1>2, CountersAgree, EntriesOfMonth DEF DayRowsAreHeld
    <2>5. \/ Account!Entered(r.month) = {}
          \/ Account!Total(r.month) < IF r.kind = "content" THEN r.cap * Multiplier ELSE r.cap
      BY <1>1, <1>2, <1>5, CountersAgree, EntriesOfMonth DEF EffectiveCap
    <2> HIDE DEF r
    <2>6. Account!Admit(c, r.user, r.kind, r.month)
      BY <1>2, <1>4, <2>2, <2>3, <2>4, <2>5 DEF Account!Admit, Account!NoEntry, Account!Row, NoEntry, Row
    <2> QED
      BY <1>2, <2>6
  <1>6. CASE ~(~HasMonthRow(r.month) \/ booked[r.month] < EffectiveCap(r))
    <2>1. call'[c].stage \in {"denied", "unheard"}
      <3>1. Heard(c, "denied")
        BY <1>6 DEF FinishReserve
      <3>2. call' = [call EXCEPT ![c].stage = "denied"] \/ call' = [call EXCEPT ![c].stage = "unheard"]
        BY <3>1 DEF Heard
      <3> QED
        BY <1>1, <3>2, StageMoves DEF Moves, Stages
    <2>2. EntryOf(call'[c]) = NoEntry
      BY <2>1 DEF EntryOf, StateOf
    <2> QED
      BY <1>3, <1>4, <2>2, SameEntries DEF Moves
  <1> QED
    BY <1>5, <1>6

LEMMA CloseStep ==
    ASSUME LedgerInv, NEW c \in Calls, FinishStep(c)
    PROVE  \/ entries' = entries
           \/ \E how \in {"settled", "released", "refunded"}, cost \in Costs \cup {0} :
                Account!Close(c, how, cost)
  <1>1. TypeOK /\ CallsAreWhole
    BY DEF LedgerInv, QuotaInv
  <1>2. call[c].stage \in {"allowed", "settling"}
    BY <1>1, FinishMeans
  <1>3. EntryOf(call[c]) = Row("open", call[c].user, call[c].kind, call[c].month, 0)
    BY <1>2 DEF EntryOf, StateOf
  <1>4. CASE Moves(c, "settling")
    <2>1. EntryOf(call'[c]) = EntryOf(call[c])
      BY <1>3, <1>4 DEF Moves, EntryOf, StateOf
    <2> QED
      BY <1>4, <2>1, SameEntries DEF Moves
  <1>5. ASSUME NEW how \in {"settled", "released", "refunded"}, NEW cost \in Costs \cup {0},
               Moves(c, how), Pays(c, how, cost)
        PROVE  Account!Close(c, how, cost)
    <2>1. how # "settled" => cost = 0
      BY <1>5 DEF Pays
    <2>2. EntryOf(call'[c]) = Row(how, call[c].user, call[c].kind, call[c].month, cost)
      BY <1>5, <2>1 DEF Moves, Pays, EntryOf, StateOf
    <2>3. /\ entries[c] = Row("open", call[c].user, call[c].kind, call[c].month, 0)
          /\ entries[c].state = "open" /\ entries[c].user = call[c].user
          /\ entries[c].kind = call[c].kind /\ entries[c].month = call[c].month
      BY <1>3 DEF entries, Row
    <2>4. entries' = [entries EXCEPT ![c] = EntryOf(call'[c])]
      BY <1>5, OneEntry DEF Moves
    <2> QED
      BY <2>1, <2>2, <2>3, <2>4 DEF Account!Close, Account!Row, Row
  <1> QED
    BY <1>1, <1>4, <1>5, FinishMeans

LEMMA LedgerStep == LedgerInv /\ [Next]_vars => [Account!Next]_<<entries, limit>>
  <1>l. [Next]_vars => limit' = limit
    BY DEF Next, vars, Tick, SetLimits, BeginReserve, FinishReserve, BeginFinish, Finish, Deadlock
  <1> SUFFICES ASSUME LedgerInv, [Next]_vars PROVE Account!Next \/ entries' = entries
    BY <1>l
  <1>0. TypeOK
    BY DEF LedgerInv, QuotaInv
  <1>1. CASE call' = call
    BY <1>1 DEF entries
  <1>2. ASSUME NEW c \in Calls, NEW u \in Users \cup {NoUser}, NEW kind \in {"question", "content"},
               BeginReserve(c, u, kind)
        PROVE  entries' = entries
    <2>1. /\ call[c].stage = "idle" /\ \A d \in Calls \ {c} : call'[d] = call[d]
          /\ call'[c].stage \in {"denied", "unheard", "counting"}
      BY <1>0, <1>2, BeginReserveMeans
    <2>2. EntryOf(call[c]) = NoEntry /\ EntryOf(call'[c]) = NoEntry
      BY <2>1 DEF EntryOf, StateOf
    <2> QED
      BY <2>1, <2>2, SameEntries
  <1>3. ASSUME NEW c \in Calls, FinishReserve(c)
        PROVE  Account!Next \/ entries' = entries
    BY <1>l, <1>3, AdmitStep DEF Account!Next, Account!Months, Months
  <1>4. ASSUME NEW c \in Calls, FinishStep(c)
        PROVE  Account!Next \/ entries' = entries
    BY <1>l, <1>4, CloseStep DEF Account!Next
  <1>5. ASSUME NEW c \in Calls, NEW d \in Calls, Deadlock(c, d)
        PROVE  entries' = entries
    <2>1. CASE call[c].stage = "counting" /\ Moves(c, "unmetered")
      <3>1. EntryOf(call[c]) = NoEntry /\ EntryOf(call'[c]) = NoEntry
        BY <2>1 DEF Moves, EntryOf, StateOf
      <3> QED
        BY <2>1, <3>1, SameEntries DEF Moves
    <2>2. CASE call[d].stage = "settling" /\ Moves(d, "stranded")
      <3>1. EntryOf(call'[d]) = EntryOf(call[d])
        BY <2>2 DEF Moves, EntryOf, StateOf
      <3> QED
        BY <2>2, <3>1, SameEntries DEF Moves
    <2> QED
      BY <1>0, <1>5, <2>1, <2>2, DeadlockMeans
  <1>6. CASE UNCHANGED vars \/ Tick \/ \E new \in Caps : SetLimits(new)
    BY <1>1, <1>6 DEF vars, Tick, SetLimits
  <1> QED
    BY <1>2, <1>3, <1>4, <1>5, <1>6 DEF Next, FinishStep

----------------------------------------------------------------------------
(* The theorems.                                                           *)

\* Nobody's day starts with a call on it.
LEMMA QuotaStarts == Init => QuotaHolds
  <1> SUFFICES ASSUME Init, NEW u \in Users, NEW m \in Months PROVE QuotaOf(u, m)
    BY QuotaMeans
  <1>1. Mine(u, m) = {} /\ Questions(u, m) = {}
    BY DEF Init, Idle, Mine, Questions, CallsOf, Counting, Standing
  <1>2. days[u][m] = 0
    BY DEF Init
  <1> QED
    BY <1>1, <1>2, FS_EmptySet, SpendConstants DEF Init, QuotaOf, Larger

LEMMA QuotaInvHolds == Spec => []QuotaInv
  BY Starts, QuotaStarts, QuotaKept, PTL DEF Spec, QuotaInv

\* Types, for every value of the constants: in particular no booking, count or
\* total falls below zero.
THEOREM MeterTypes == Spec => []TypeOK
  <1>1. QuotaInv => TypeOK
    BY DEF QuotaInv
  <1> QED
    BY <1>1, QuotaInvHolds, PTL

\* THE CEILING IS TESTED AGAINST MONEY BOOKED, for any number of calls, any
\* costs and any months: the estimates still standing and the costs of what was
\* settled, whatever was released, lost or ended by a deadlock.
THEOREM BooksHold == Spec => []BookedIsTheSum
  <1>1. Init => BookedIsTheSum
    <2> SUFFICES ASSUME Init, NEW m \in Months PROVE BookedOf(m)
      BY BooksMean
    <2>1. CallsOf(m, {"settled"}) = {} /\ CallsOf(m, Standing) = {}
      BY DEF Init, Idle, CallsOf, Standing
    <2>2. Paid(m) = 0 /\ Open(m) = 0
      BY <2>1, CostOfNone, FS_EmptySet DEF Paid, Open
    <2> QED
      BY <2>2, SpendConstants DEF Init, BookedOf
  <1>2. BooksInv => BookedIsTheSum
    BY DEF BooksInv
  <1> QED
    BY Starts, BooksKept, <1>1, <1>2, PTL DEF Spec, BooksInv

\* A PERSON'S QUOTA HOLDS, for any number of calls in any burst and any limit,
\* save the one question of a day that a limit of zero lets through: the day's
\* row is held from the test, or the insert, to the end of the reservation.
THEOREM QuotaIsKept == Spec => []QuotaHolds
  <1>1. QuotaInv => QuotaHolds
    BY DEF QuotaInv
  <1> QED
    BY <1>1, QuotaInvHolds, PTL

\* THE OWNER IS TOLD ONCE, for any number of calls that cross the ceiling
\* together and any number of changes of it.
THEOREM OwnerIsToldOnce == Spec => []ToldOnce
  <1>1. Spec => []NoticeInv
    BY Starts, NoticesKept, PTL DEF Spec, NoticeInv
  <1>2. NoticeInv => ToldOnce
    BY SpendConstants DEF NoticeInv, NoticesStand, ToldOnce, TypeOK
  <1> QED
    BY <1>1, <1>2, PTL

\* A BURST IS DECIDED ONE CALL AT A TIME, for any number of calls and people,
\* any prices and ceilings, and whatever the database ends: every behaviour of
\* the guard, with its rows, counters and halves of transactions, is one of the
\* ledger.
THEOREM AccountKept == Spec => KeepsAccount
  <1>1. Init => Account!Init
    <2> SUFFICES ASSUME Init PROVE entries = [c \in Calls |-> NoEntry]
      BY SpendConstants DEF Init, Account!Init, Account!NoEntry, Account!Row, NoEntry, Row
    <2> QED
      BY DEF Init, Idle, entries, EntryOf, StateOf
  <1>2. Spec => []LedgerInv
    BY QuotaInvHolds, BooksHold, PTL DEF LedgerInv
  <1> QED
    BY <1>1, <1>2, LedgerStep, PTL DEF Spec, KeepsAccount, Account!Spec
=============================================================================
