---------------------------- MODULE ClockProofs ----------------------------
(***************************************************************************)
(* What holds of ServerClock for any phones, any caps and bounds, and any  *)
(* number of shifts.                                                       *)
(***************************************************************************)
EXTENDS ServerClock, SequenceTheorems, FiniteSetTheorems, WellFoundedInduction, TLAPS

Breaks == BreakStarts \cup BreakEnds

\* A row whose times are past.
Row == [in : 0..now, out : NoTime..now, brk : NoTime..now, secs : Nat, last : NoTime..now,
        status : Status, marked : BOOLEAN, auto : BOOLEAN, byHand : BOOLEAN]
Open(r) == r.status = "open" /\ r.out = NoTime
Settled(r) == r.status \in {"submitted", "approved"}
Counted(r) == r.status \in {"open", "submitted", "approved"}

\* The times of a row nobody typed are in order.
Fits(r) ==
    Counted(r) /\ ~r.byHand => /\ r.brk # NoTime => r.in <= r.brk
                               /\ r.out # NoTime => r.in <= r.out
\* A row the office may pay has a finish, unless somebody edited it.
GoodRow(r) == r \in Row /\ (Settled(r) /\ ~r.byHand => r.out # NoTime) /\ Fits(r)

\* How far the breaks of a row reach, and that they are no longer than that.
Reach(r) == IF r.brk # NoTime THEN r.brk ELSE Larger(r.in, r.last)
Tally(r) ==
    Counted(r) /\ ~r.byHand /\ ~r.marked /\ ~r.auto =>
        IF r.out = NoTime THEN r.in + r.secs <= Reach(r)
        ELSE r.brk = NoTime /\ r.in + r.secs <= r.out

\* A tap is of the past, and so is the one behind every clock-in under way.
TapsArePast ==
    /\ taps = [id \in Ids |-> taps[id]]
    /\ \A id \in Ids : taps[id].secs \in Nat /\ (taps[id] # NoTap => taps[id].at \in 0..now)
    /\ \A x \in txns : x.kind = "keyed" => x.id \in Ids /\ taps[x.id] # NoTap

IsCard(f) == \E n \in Nat : f = [s \in 1..n |-> f[s]]

CardInv ==
    /\ now \in Nat
    /\ IsCard(shifts)
    /\ \A s \in Rows : GoodRow(shifts[s])
    /\ TapsArePast

----------------------------------------------------------------------------
(* A row with its fields listed, and with one of them written.             *)

Is(q, i, o, b, n, l, st, m, a, h) ==
    /\ q \in Row /\ q.in = i /\ q.out = o /\ q.brk = b /\ q.secs = n /\ q.last = l
    /\ q.status = st /\ q.marked = m /\ q.auto = a /\ q.byHand = h

LEMMA IsItself ==
    ASSUME NEW r \in Row
    PROVE  Is(r, r.in, r.out, r.brk, r.secs, r.last, r.status, r.marked, r.auto, r.byHand)
  BY DEF Is

LEMMA SetIn ==
    ASSUME now \in Nat, NEW r \in Row, NEW t \in 0..now
    PROVE  Is([r EXCEPT !.in = t], t, r.out, r.brk, r.secs, r.last, r.status, r.marked, r.auto, r.byHand)
  BY DEF Is, Row, NoTime, Status

LEMMA SetOut ==
    ASSUME now \in Nat, NEW r \in Row, NEW t \in NoTime..now
    PROVE  Is([r EXCEPT !.out = t], r.in, t, r.brk, r.secs, r.last, r.status, r.marked, r.auto, r.byHand)
  BY DEF Is, Row, NoTime, Status

LEMMA SetBreak ==
    ASSUME now \in Nat, NEW r \in Row, NEW t \in NoTime..now
    PROVE  Is([r EXCEPT !.brk = t], r.in, r.out, t, r.secs, r.last, r.status, r.marked, r.auto, r.byHand)
  BY DEF Is, Row, NoTime, Status

LEMMA SetSecs ==
    ASSUME now \in Nat, NEW r \in Row, NEW n \in Nat
    PROVE  Is([r EXCEPT !.secs = n], r.in, r.out, r.brk, n, r.last, r.status, r.marked, r.auto, r.byHand)
  BY DEF Is, Row, NoTime, Status

LEMMA SetLast ==
    ASSUME now \in Nat, NEW r \in Row, NEW t \in NoTime..now
    PROVE  Is([r EXCEPT !.last = t], r.in, r.out, r.brk, r.secs, t, r.status, r.marked, r.auto, r.byHand)
  BY DEF Is, Row, NoTime, Status

LEMMA SetStatus ==
    ASSUME now \in Nat, NEW r \in Row, NEW st \in Status
    PROVE  Is([r EXCEPT !.status = st], r.in, r.out, r.brk, r.secs, r.last, st, r.marked, r.auto, r.byHand)
  BY DEF Is, Row, NoTime, Status

LEMMA SetMark ==
    ASSUME now \in Nat, NEW r \in Row, NEW m \in BOOLEAN
    PROVE  Is([r EXCEPT !.marked = m], r.in, r.out, r.brk, r.secs, r.last, r.status, m, r.auto, r.byHand)
  BY DEF Is, Row, NoTime, Status

LEMMA SetAuto ==
    ASSUME now \in Nat, NEW r \in Row
    PROVE  Is([r EXCEPT !.auto = TRUE], r.in, r.out, r.brk, r.secs, r.last, r.status, r.marked, TRUE, r.byHand)
  BY DEF Is, Row, NoTime, Status

LEMMA SetHand ==
    ASSUME now \in Nat, NEW r \in Row
    PROVE  Is([r EXCEPT !.byHand = TRUE], r.in, r.out, r.brk, r.secs, r.last, r.status, r.marked, r.auto, TRUE)
  BY DEF Is, Row, NoTime, Status

LEMMA ClosedRow ==
    ASSUME now \in Nat, NEW s, NEW r \in Row, NEW t \in 0..now, NEW total \in Nat
    PROVE  Is(Close(s, r, t, total), r.in, t, NoTime, total, r.last, "submitted", r.marked, r.auto, r.byHand)
  <1> DEFINE a == [r EXCEPT !.out = t]
             b == [a EXCEPT !.secs = total]
             c == [b EXCEPT !.brk = NoTime]
             d == [c EXCEPT !.status = "submitted"]
  <1>1. t \in NoTime..now /\ NoTime \in NoTime..now /\ "submitted" \in Status
    BY DEF NoTime, Status
  <1>2. Close(s, r, t, total) = d
    BY Zenon DEF Close
  <1>3. Is(a, r.in, t, r.brk, r.secs, r.last, r.status, r.marked, r.auto, r.byHand)
    BY <1>1, SetOut
  <1> HIDE DEF a
  <1>4. Is(b, r.in, t, r.brk, total, r.last, r.status, r.marked, r.auto, r.byHand)
    BY <1>3, SetSecs DEF Is
  <1> HIDE DEF b
  <1>5. Is(c, r.in, t, NoTime, total, r.last, r.status, r.marked, r.auto, r.byHand)
    BY <1>1, <1>4, SetBreak DEF Is
  <1> HIDE DEF c
  <1>6. Is(d, r.in, t, NoTime, total, r.last, "submitted", r.marked, r.auto, r.byHand)
    BY <1>1, <1>5, SetStatus DEF Is
  <1> HIDE DEF d
  <1> QED
    BY <1>2, <1>6

----------------------------------------------------------------------------
(* What a phone shows.                                                     *)

LEMMA LeastExists ==
    ASSUME NEW T, T \subseteq Nat, T # {}
    PROVE  \E m \in T : \A k \in T : m <= k
  <1> DEFINE less == OpToRel(<, Nat)
  <1>1. IsWellFoundedOn(less, Nat)
    BY NatLessThanWellFounded
  <1>2. \A k, m \in Nat : <<k, m>> \in less <=> k < m
    BY DEF OpToRel
  <1> HIDE DEF less
  <1>3. PICK m \in T : \A k \in T : ~(<<k, m>> \in less)
    BY <1>1, WFMin
  <1>4. ASSUME NEW k \in T PROVE m <= k
    <2>1. k \in Nat /\ m \in Nat /\ ~(<<k, m>> \in less)
      BY <1>3
    <2> QED
      BY <1>2, <2>1
  <1> QED
    BY <1>4

\* One more tap on top of a view.
Then(view, ref, n) == IF NthTap(n) \in Queued(ref) THEN ApplyQueued(view, NthTap(n)) ELSE view
IsView(f, ref, n) == f = [k \in 0..n |-> IF k = 0 THEN RowsBreaks(ref) ELSE Then(f[k - 1], ref, k)]

LEMMA ViewExists ==
    ASSUME NEW ref, NEW n \in Nat
    PROVE  \E f : IsView(f, ref, n)
  <1> DEFINE T == {k \in Nat : ~ \E f : IsView(f, ref, k)}
  <1> SUFFICES ASSUME T # {} PROVE FALSE
    OBVIOUS
  <1>1. PICK m \in T : \A k \in T : m <= k
    BY LeastExists
  <1>2. m # 0
    <2>1. IsView([k \in 0..0 |-> RowsBreaks(ref)], ref, 0)
      BY DEF IsView
    <2> QED
      BY <2>1
  <1>3. m - 1 \in Nat /\ m - 1 \notin T
    BY <1>1, <1>2
  <1>4. PICK f : IsView(f, ref, m - 1)
    BY <1>3
  <1> DEFINE g == [k \in 0..m |-> IF k < m THEN f[k] ELSE Then(f[m - 1], ref, m)]
  <1>5. ASSUME NEW k \in 0..m
        PROVE  g[k] = IF k = 0 THEN RowsBreaks(ref) ELSE Then(g[k - 1], ref, k)
    <2>1. CASE k = 0
      BY <1>2, <1>4, <2>1 DEF IsView
    <2>2. CASE k # 0 /\ k < m
      <3>1. k \in 0..(m - 1) /\ k - 1 \in 0..m /\ k - 1 < m
        BY <2>2
      <3>2. f[k] = Then(f[k - 1], ref, k)
        BY <1>4, <2>2, <3>1 DEF IsView
      <3> QED
        BY <2>2, <3>1, <3>2
    <2>3. CASE k = m
      BY <1>2, <2>3
    <2> QED
      BY <2>1, <2>2, <2>3
  <1>6. IsView(g, ref, m)
    BY <1>5 DEF IsView
  <1> QED
    BY <1>6

LEMMA ShownIs ==
    ASSUME NEW ref
    PROVE  \E f : LET n == Cardinality(Tapped)
                  IN  /\ n \in Nat
                      /\ Shown(ref) = f[n]
                      /\ f[0] = RowsBreaks(ref)
                      /\ \A k \in 1..n : f[k] = Then(f[k - 1], ref, k)
  <1> DEFINE n == Cardinality(Tapped)
             G == CHOOSE f : IsView(f, ref, n)
  <1>1. n \in Nat
    <2>1. IsFiniteSet(Tapped)
      BY ClockIds, FS_Subset DEF Tapped, Ids
    <2> QED
      BY <2>1, FS_CardinalityType
  <1>2. Shown(ref) = G[n]
    BY Zenon DEF Shown, IsView, Then
  <1>3. IsView(G, ref, n)
    BY <1>1, ViewExists
  <1> HIDE DEF G, n
  <1>4. G[0] = RowsBreaks(ref)
    BY <1>1, <1>3 DEF IsView
  <1>5. \A k \in 1..n : G[k] = Then(G[k - 1], ref, k)
    BY <1>1, <1>3 DEF IsView
  <1> QED
    BY <1>1, <1>2, <1>4, <1>5 DEF n

\* What is true of the row and is kept by every queued tap is true of what is
\* shown.
LEMMA ShownTyped ==
    ASSUME CardInv, NEW ref
    PROVE  Shown(ref) \in [brk : NoTime..now, secs : Nat]
  <1> DEFINE View == [brk : NoTime..now, secs : Nat]
             n == Cardinality(Tapped)
  <1>1. PICK f : /\ n \in Nat /\ Shown(ref) = f[n] /\ f[0] = RowsBreaks(ref)
                 /\ \A k \in 1..n : f[k] = Then(f[k - 1], ref, k)
    BY ShownIs
  <1>2. now \in Nat /\ RowsBreaks(ref) \in View
    <2>1. Landed(ref) \in Rows => shifts[Landed(ref)] \in Row
      BY DEF CardInv, GoodRow
    <2> QED
      BY <2>1 DEF RowsBreaks, NoBreaks, Row, CardInv, NoTime
  <1>3. ASSUME NEW view \in View, NEW k
        PROVE  Then(view, ref, k) \in View
    <2> DEFINE id == NthTap(k)
    <2>1. id \in Queued(ref) => taps[id].at \in 0..now
      <3>1. id \in Queued(ref) => id \in Ids /\ taps[id] # NoTap
        BY DEF Queued, TappedOn, Ids
      <3> QED
        BY <3>1 DEF CardInv, TapsArePast
    <2> HIDE DEF id
    <2>2. id \in Queued(ref) => ApplyQueued(view, id) \in View
      BY <1>2, <2>1 DEF ApplyQueued, NoTime, Larger
    <2> QED
      BY <2>2 DEF Then, id
  <1> DEFINE T == {k \in Nat : k <= n /\ f[k] \notin View}
  <1> HIDE DEF View, n
  <1>4. T = {}
    <2> SUFFICES ASSUME T # {} PROVE FALSE
      OBVIOUS
    <2>1. PICK m \in T : \A k \in T : m <= k
      BY LeastExists
    <2>2. m # 0
      BY <1>1, <1>2, <2>1
    <2>3. f[m - 1] \in View
      BY <1>1, <2>1, <2>2
    <2> QED
      BY <1>1, <1>3, <2>1, <2>2, <2>3
  <1> QED
    BY <1>1, <1>4 DEF View

LEMMA PhoneCounts ==
    ASSUME CardInv, NEW ref
    PROVE  PhoneBreak(ref) \in Nat
  BY ShownTyped DEF PhoneBreak, CardInv, Larger, NoTime

----------------------------------------------------------------------------
(* What any step may do to a row.                                          *)

Live(r) == Open(r) /\ ~r.byHand /\ ~r.marked /\ ~r.auto

MayBecome(r, q) ==
    /\ GoodRow(q)
    /\ ~q.byHand => /\ ~r.byHand /\ q.in = r.in
                    /\ r.marked => q.marked
                    /\ Open(q) => Open(r)
                    /\ Counted(q) => Counted(r)
                    /\ Counted(q) /\ ~Open(r) => q.out = r.out
    /\ r.status = "approved" /\ q.status = "approved" /\ r.brk = NoTime =>
          q.in = r.in /\ q.out = r.out /\ q.secs = r.secs

\* The server's own count of the breaks stays within the shift.
Counts4Itself(r, q) == Tally(r) => Tally(q)
\* A clock-out that takes the total of the phone.
Told(s, q) ==
    \E id \in ClockOuts :
        /\ Arrives(id) /\ Landed(taps[id].ref) = s /\ Open(shifts[s])
        /\ q.in = shifts[s].in /\ q.brk = NoTime /\ q.out # NoTime
        /\ q.byHand = shifts[s].byHand /\ q.auto = shifts[s].auto
        /\ q.secs = taps[id].secs
        /\ ~q.marked => ~shifts[s].marked /\ q.out = taps[id].at

\* Where the row's breaks stand, if it still waits for punches.
StillAs(r, q) == Live(q) => Live(r) /\ q.in = r.in /\ q.brk = r.brk /\ q.last = r.last
\* A break punch that came in its turn.
Punched(s, q) ==
    \E id \in Breaks :
        /\ Arrives(id) /\ Landed(taps[id].ref) = s /\ ~Overtakes(id) /\ ledger' = [ledger EXCEPT ![id] = s]
        /\ Live(q) => /\ Live(shifts[s]) /\ q.in = shifts[s].in /\ q.in <= taps[id].at
                      /\ q.last = taps[id].at /\ q.brk \in {NoTime, taps[id].at}

\* A close as no work that looked before the row had its finish.
WroteOff(s, q) ==
    /\ s \in wasUnended /\ GoodRow(q) /\ q.byHand
    /\ q.in = shifts[s].in /\ q.out = shifts[s].in /\ q.secs = 0

RowStep(s, q) ==
    /\ MayBecome(shifts[s], q) \/ WroteOff(s, q)
    /\ Counts4Itself(shifts[s], q) \/ Told(s, q)
    /\ StillAs(shifts[s], q) \/ s \in mixed' \/ Punched(s, q)

\* A row that moves as the server alone may move it.
Quiet(r, q) == MayBecome(r, q) /\ Counts4Itself(r, q) /\ StillAs(r, q)

LEMMA QuietSteps ==
    ASSUME NEW s, NEW q, Quiet(shifts[s], q)
    PROVE  RowStep(s, q)
  BY DEF Quiet, RowStep

LEMMA RowStays == ASSUME NEW r, GoodRow(r) PROVE Quiet(r, r)
  BY DEF Quiet, MayBecome, GoodRow, Counts4Itself, StillAs

LEMMA PayIsPast ==
    ASSUME CardInv, NEW id \in Ids, taps[id] # NoTap, NEW floor \in Int
    PROVE  LET p == PickTime(id, floor)
           IN  /\ p.pay \in 0..now /\ (p.used => p.pay = taps[id].at /\ floor <= p.pay)
               /\ (~p.used => p.pay = now)
  <1> DEFINE ok == taps[id].trusted /\ now - taps[id].at <= Cap /\ taps[id].at >= floor
  <1>1. now \in Nat /\ taps[id].at \in 0..now
    BY DEF CardInv, TapsArePast
  <1>2. ok => floor <= taps[id].at
    BY <1>1
  <1>3. PickTime(id, floor) = [pay |-> IF ok THEN taps[id].at ELSE now, used |-> ok]
    BY Zenon DEF PickTime
  <1> HIDE DEF ok
  <1> QED
    BY <1>1, <1>2, <1>3

\* Every action but the clock-in's commit and the clock's tick moves the rows
\* that are there, and adds none.
RowsMove == IsCard(shifts)' /\ DOMAIN shifts' = Rows /\ \A s \in Rows : RowStep(s, shifts'[s])

LEMMA RowsStay ==
    ASSUME CardInv, UNCHANGED shifts
    PROVE  RowsMove
  BY RowStays, QuietSteps DEF RowsMove, CardInv, Rows

LEMMA OneRowMoves ==
    ASSUME CardInv, NEW s, NEW q, shifts' = [shifts EXCEPT ![s] = q],
           s \in Rows => RowStep(s, q)
    PROVE  RowsMove
  <1>1. PICK n \in Nat : shifts = [t \in 1..n |-> shifts[t]]
    BY DEF CardInv, IsCard
  <1>2. DOMAIN shifts = 1..n
    BY <1>1
  <1>3. shifts' = [t \in 1..n |-> IF t = s THEN q ELSE shifts[t]]
    BY <1>2
  <1>4. shifts' = [t \in 1..n |-> shifts'[t]] /\ DOMAIN shifts' = Rows
    BY <1>2, <1>3 DEF Rows
  <1>5. ASSUME NEW t \in Rows PROVE RowStep(t, shifts'[t])
    <2>1. GoodRow(shifts[t])
      BY DEF CardInv
    <2>2. t # s => shifts'[t] = shifts[t]
      BY <1>2, <1>3 DEF Rows
    <2>3. t = s => shifts'[t] = q
      BY <1>2, <1>3 DEF Rows
    <2> QED
      BY <2>1, <2>2, <2>3, RowStays, QuietSteps
  <1> QED
    BY <1>4, <1>5 DEF RowsMove, IsCard

----------------------------------------------------------------------------
(* The actions.                                                            *)

LEMMA KnownRow ==
    ASSUME CardInv, NEW s \in Rows
    PROVE  /\ now \in Nat /\ now \in 0..now /\ now \in NoTime..now /\ now # NoTime /\ NoTime \in NoTime..now
           /\ GoodRow(shifts[s]) /\ shifts[s] \in Row
           /\ shifts[s].in \in 0..now /\ shifts[s].out \in NoTime..now /\ shifts[s].brk \in NoTime..now
           /\ shifts[s].secs \in Nat /\ shifts[s].last \in NoTime..now
           /\ IsOpen(s) <=> Open(shifts[s])
  <1>1. now \in Nat /\ GoodRow(shifts[s]) /\ shifts[s] \in Row
    BY DEF CardInv, GoodRow
  <1> QED
    BY <1>1 DEF NoTime, IsOpen, Open, Row

\* A break still running adds a whole number, and brings the total to t.
LEMMA RunningIs ==
    ASSUME CardInv, NEW s \in Rows, NEW t \in 0..now
    PROVE  /\ shifts[s].secs + Running(s, t) \in Nat
           /\ shifts[s].brk = NoTime => Running(s, t) = 0
           /\ shifts[s].brk # NoTime /\ shifts[s].brk <= t => Running(s, t) = t - shifts[s].brk
  BY KnownRow DEF Running, Larger, NoTime

\* The row a punch names, and the time pay takes for it.
LEMMA PunchRow ==
    ASSUME CardInv, NEW id \in Ids, Arrives(id), NEW floor \in Int, Target(id) \in Rows
    PROVE  LET p == PickTime(id, floor)
           IN  /\ p.pay \in 0..now /\ p.pay \in NoTime..now /\ p.pay # NoTime /\ now \in Nat
               /\ (p.used => p.pay = taps[id].at /\ floor <= p.pay)
               /\ (~p.used => p.pay = now)
               /\ GoodRow(shifts[Target(id)]) /\ shifts[Target(id)] \in Row
  <1>1. now \in Nat /\ GoodRow(shifts[Target(id)]) /\ taps[id] # NoTap
    BY DEF Arrives, CardInv
  <1> QED
    BY <1>1, PayIsPast DEF NoTime, GoodRow

\* The shift a punch is on.
LEMMA TargetIs ==
    ASSUME NEW id, Target(id) # NoShift
    PROVE  Landed(taps[id].ref) = Target(id)
  BY DEF Target, Landed

\* An open row closed at a time that is not before its punches.
LEMMA ClosingIsQuiet ==
    ASSUME CardInv, NEW s \in Rows, Open(shifts[s]), NEW q \in Row, NEW t \in 0..now,
           q.in = shifts[s].in, q.out = t, q.brk = NoTime, q.status = "submitted",
           q.auto = shifts[s].auto, q.byHand = shifts[s].byHand,
           shifts[s].marked => q.marked, shifts[s].in <= t
    PROVE  /\ MayBecome(shifts[s], q) /\ StillAs(shifts[s], q)
           /\ (~q.marked => Reach(shifts[s]) <= t) /\ q.secs \in {shifts[s].secs, shifts[s].secs + Running(s, t)}
                 => Counts4Itself(shifts[s], q)
  <1> DEFINE r == shifts[s]
  <1>1. GoodRow(r) /\ r.in \in 0..now /\ r.brk \in NoTime..now /\ r.secs \in Nat /\ r.last \in NoTime..now /\ now \in Nat
    BY KnownRow
  <1>2. MayBecome(r, q) /\ StillAs(r, q)
    BY <1>1 DEF MayBecome, StillAs, GoodRow, Fits, Settled, Counted, Open, Live, NoTime
  <1>3. ASSUME ~q.marked => Reach(r) <= t, q.secs \in {r.secs, r.secs + Running(s, t)}, Tally(r)
        PROVE  Tally(q)
    <2>1. CASE q.marked \/ r.byHand \/ r.auto
      BY <2>1 DEF Tally
    <2>2. CASE ~q.marked /\ ~r.byHand /\ ~r.auto
      <3>1. r.in + r.secs <= Reach(r) /\ Reach(r) <= t
        BY <1>3, <2>2 DEF Tally, Open, Counted
      <3>2. r.in + q.secs <= t
        <4>1. CASE r.brk = NoTime
          BY <1>1, <1>3, <3>1, <4>1, RunningIs DEF Reach, Larger, NoTime
        <4>2. CASE r.brk # NoTime
          BY <1>1, <1>3, <3>1, <4>2, RunningIs DEF Reach, NoTime
        <4> QED
          BY <4>1, <4>2
      <3> QED
        BY <3>2 DEF Tally, NoTime
    <2> QED
      BY <2>1, <2>2
  <1> QED
    BY <1>2, <1>3 DEF Counts4Itself

LEMMA ClockOutMoves ==
    ASSUME CardInv, NEW id \in ClockOuts, ClockOut(id)
    PROVE  RowsMove
  <1> DEFINE s == Target(id)
             r == shifts[s]
             p == PickTime(id, LastPunch(s))
  <1>1. PICK total \in {taps[id].secs, r.secs + Running(s, p.pay)} :
              shifts' = [shifts EXCEPT ![s] =
                  [Close(s, r, p.pay, total) EXCEPT !.last = p.pay, !.marked = @ \/ ~p.used]]
    BY Zenon DEF ClockOut, Write
  <1> DEFINE a == Close(s, r, p.pay, total)
             b == [a EXCEPT !.last = p.pay]
             c == [b EXCEPT !.marked = @ \/ ~p.used]
  <1>2. shifts' = [shifts EXCEPT ![s] = c]
    BY <1>1, Zenon
  <1>3. ASSUME s \in Rows
        PROVE  RowStep(s, c)
    <2>1. Arrives(id) /\ Open(r) /\ id \in Ids /\ Landed(taps[id].ref) = s
      BY <1>3, KnownRow, TargetIs DEF ClockOut, Ids
    <2>2. LastPunch(s) \in Int /\ r.in <= LastPunch(s) /\ Reach(r) <= LastPunch(s)
      BY <1>3, KnownRow DEF LastPunch, Larger, Reach, NoTime
    <2>3. /\ p.pay \in 0..now /\ p.pay \in NoTime..now /\ p.pay # NoTime /\ now \in Nat
          /\ (p.used => p.pay = taps[id].at /\ LastPunch(s) <= p.pay)
          /\ (~p.used => p.pay = now)
          /\ GoodRow(r) /\ r \in Row
      BY <1>3, <2>1, <2>2, PunchRow
    <2>4. total \in Nat
      <3>1. taps[id].secs \in Nat
        BY <2>1 DEF CardInv, TapsArePast
      <3> QED
        BY <1>1, <1>3, <2>3, <3>1, RunningIs
    <2>5. Is(a, r.in, p.pay, NoTime, total, r.last, "submitted", r.marked, r.auto, r.byHand)
      BY <2>3, <2>4, ClosedRow
    <2>6. r.in <= p.pay /\ (p.used => Reach(r) <= p.pay)
      <3>1. r.in \in 0..now /\ r.brk \in NoTime..now /\ r.last \in NoTime..now
        BY <1>3, KnownRow
      <3>2. Reach(r) \in Int
        BY <2>3, <3>1 DEF Reach, Larger, NoTime
      <3> QED
        BY <2>2, <2>3, <3>1, <3>2
    <2>7. r.marked \in BOOLEAN
      BY <2>3 DEF Row
    <2> HIDE DEF a
    <2>8. Is(b, r.in, p.pay, NoTime, total, p.pay, "submitted", r.marked, r.auto, r.byHand)
      BY <2>3, <2>5, SetLast DEF Is
    <2> HIDE DEF b
    <2> DEFINE m == r.marked \/ ~p.used
    <2>9. Is(c, r.in, p.pay, NoTime, total, p.pay, "submitted", m, r.auto, r.byHand)
      <3>1. c = [b EXCEPT !.marked = m]
        BY <2>8, Zenon DEF Is
      <3>2. m \in BOOLEAN
        OBVIOUS
      <3> HIDE DEF c, m
      <3> QED
        BY <2>3, <2>8, <3>1, <3>2, SetMark DEF Is
    <2>10. m \in BOOLEAN /\ (r.marked => m) /\ (~m => p.used)
      OBVIOUS
    <2> HIDE DEF c, m, p, s, r
    <2>13. /\ c \in Row /\ c.in = r.in /\ c.out = p.pay /\ c.brk = NoTime /\ c.status = "submitted"
           /\ c.auto = r.auto /\ c.byHand = r.byHand /\ c.secs = total
      BY <2>9 DEF Is
    <2>14. (r.marked => c.marked) /\ (~c.marked => p.used)
      BY <2>9, <2>10 DEF Is
    <2>11. MayBecome(r, c) /\ StillAs(r, c)
           /\ (total = r.secs + Running(s, p.pay) => Counts4Itself(r, c))
      BY <1>3, <2>1, <2>3, <2>4, <2>6, <2>13, <2>14, ClosingIsQuiet DEF r
    <2>12. total = taps[id].secs => Told(s, c)
      BY <2>1, <2>3, <2>9, <2>10 DEF Told, Is, r, m
    <2> QED
      BY <1>1, <2>11, <2>12 DEF RowStep, r
  <1> HIDE DEF c, s
  <1> QED
    BY <1>2, <1>3, OneRowMoves

LEMMA StartBreakMoves ==
    ASSUME CardInv, NEW id \in BreakStarts, StartBreak(id)
    PROVE  RowsMove
  <1> DEFINE s == Target(id)
             r == shifts[s]
             p == PickTime(id, Larger(r.in, r.last))
             a == [r EXCEPT !.brk = p.pay]
             b == [a EXCEPT !.last = p.pay]
             c == [b EXCEPT !.marked = @ \/ ~p.used]
  <1>1. \/ UNCHANGED shifts
        \/ r.brk = NoTime
           /\ shifts' = [shifts EXCEPT ![s] = [r EXCEPT !.brk = p.pay, !.last = p.pay, !.marked = @ \/ ~p.used]]
    BY Zenon DEF StartBreak, Write
  <1>2. CASE UNCHANGED shifts
    BY <1>2, RowsStay
  <1>3. CASE r.brk = NoTime /\ shifts' = [shifts EXCEPT ![s] = c]
    <2>1. ASSUME s \in Rows
          PROVE  RowStep(s, c)
      <3>1. Arrives(id) /\ Open(r) /\ id \in Ids /\ id \in Breaks /\ Landed(taps[id].ref) = s /\ NoteOrder(id)
            /\ ledger' = [ledger EXCEPT ![id] = s]
        BY <2>1, KnownRow, TargetIs DEF StartBreak, Ids, Breaks, Record
      <3>2. /\ Larger(r.in, r.last) \in Int /\ r.in <= Larger(r.in, r.last)
            /\ r.in \in 0..now /\ r.last \in NoTime..now /\ r.secs \in Nat
        BY <2>1, KnownRow DEF Larger, NoTime
      <3>3. /\ p.pay \in 0..now /\ p.pay \in NoTime..now /\ p.pay # NoTime /\ now \in Nat
            /\ (p.used => p.pay = taps[id].at /\ Larger(r.in, r.last) <= p.pay)
            /\ (~p.used => p.pay = now)
            /\ GoodRow(r) /\ r \in Row
        BY <2>1, <3>1, <3>2, PunchRow
      <3> DEFINE m == r.marked \/ ~p.used
      <3>4. m \in BOOLEAN /\ (r.marked => m) /\ (~m => p.used /\ ~r.marked)
        OBVIOUS
      <3> HIDE DEF m, p
      <3>5. Is(a, r.in, r.out, p.pay, r.secs, r.last, r.status, r.marked, r.auto, r.byHand)
        BY <3>3, SetBreak
      <3> HIDE DEF a
      <3>6. Is(b, r.in, r.out, p.pay, r.secs, p.pay, r.status, r.marked, r.auto, r.byHand)
        BY <3>3, <3>5, SetLast DEF Is
      <3> HIDE DEF b
      <3>7. Is(c, r.in, r.out, p.pay, r.secs, p.pay, r.status, m, r.auto, r.byHand)
        <4>1. c = [b EXCEPT !.marked = m]
          BY <3>6, Zenon DEF Is, m
        <4> HIDE DEF c
        <4> QED
          BY <3>3, <3>4, <3>6, <4>1, SetMark DEF Is
      <3>8. r.in <= p.pay
        BY <3>2, <3>3
      <3> HIDE DEF c, r, s
      <3>9. MayBecome(r, c)
        BY <3>1, <3>3, <3>4, <3>7, <3>8 DEF MayBecome, GoodRow, Fits, Settled, Counted, Open, Is
      <3>10. Counts4Itself(r, c)
        <4>1. ASSUME Tally(r), ~m, ~r.byHand, ~r.auto
              PROVE  r.in + r.secs <= p.pay
          <5>1. ~r.marked /\ r.in + r.secs <= Reach(r)
            BY <3>1, <3>4, <4>1 DEF Tally, Open, Counted
          <5>2. Reach(r) = Larger(r.in, r.last)
            BY <1>3 DEF Reach, r
          <5> QED
            BY <3>2, <3>3, <3>4, <4>1, <5>1, <5>2
        <4> QED
          BY <3>1, <3>3, <3>7, <4>1 DEF Counts4Itself, Tally, Reach, Is, Open
      <3>11. Overtakes(id) => s \in mixed'
        BY <3>1 DEF NoteOrder, s
      <3>12. ~Overtakes(id) => Punched(s, c)
        BY <3>1, <3>3, <3>4, <3>7, <3>8 DEF Punched, Live, Open, Is, r
      <3> QED
        BY <3>9, <3>10, <3>11, <3>12 DEF RowStep, r
    <2> HIDE DEF c, s
    <2> QED
      BY <1>3, <2>1, OneRowMoves
  <1>4. c = [r EXCEPT !.brk = p.pay, !.last = p.pay, !.marked = @ \/ ~p.used]
    BY Zenon
  <1> HIDE DEF a, b, c, p, s, r
  <1> QED
    BY <1>1, <1>2, <1>3, <1>4, Zenon

LEMMA EndBreakMoves ==
    ASSUME CardInv, NEW id \in BreakEnds, EndBreak(id)
    PROVE  RowsMove
  <1> DEFINE s == Target(id)
             r == shifts[s]
             p == PickTime(id, Larger(r.brk, r.last))
             m == [r EXCEPT !.marked = TRUE]
             a == [r EXCEPT !.secs = @ + Running(s, p.pay)]
             b == [a EXCEPT !.brk = NoTime]
             c == [b EXCEPT !.last = p.pay]
             d == [c EXCEPT !.marked = @ \/ ~p.used]
  <1>1. \/ UNCHANGED shifts
        \/ IsOpen(s) /\ shifts' = [shifts EXCEPT ![s] = m]
        \/ IsOpen(s) /\ r.brk # NoTime /\ shifts' = [shifts EXCEPT ![s] =
              [r EXCEPT !.secs = @ + Running(s, p.pay), !.brk = NoTime,
                        !.last = p.pay, !.marked = @ \/ ~p.used]]
    BY Zenon DEF EndBreak, Write
  <1>2. CASE UNCHANGED shifts
    BY <1>2, RowsStay
  <1>3. ASSUME IsOpen(s), s \in Rows
        PROVE  RowStep(s, m)
    <2>1. now \in Nat /\ GoodRow(r) /\ r \in Row /\ Open(r)
      BY <1>3, KnownRow
    <2>2. Is(m, r.in, r.out, r.brk, r.secs, r.last, r.status, TRUE, r.auto, r.byHand)
      BY <2>1, SetMark
    <2> HIDE DEF m, r, s
    <2>3. Quiet(r, m)
      BY <2>1, <2>2 DEF Quiet, MayBecome, Counts4Itself, StillAs, Live, Tally,
         GoodRow, Fits, Settled, Counted, Open, Is
    <2> QED
      BY <2>3, QuietSteps DEF r
  <1>4. ASSUME IsOpen(s), s \in Rows, r.brk # NoTime
        PROVE  RowStep(s, d)
    <2>1. Arrives(id) /\ Open(r) /\ id \in Ids /\ id \in Breaks /\ Landed(taps[id].ref) = s /\ NoteOrder(id)
          /\ ledger' = [ledger EXCEPT ![id] = s]
      BY <1>4, KnownRow, TargetIs DEF EndBreak, Ids, Breaks, Record
    <2>2. /\ Larger(r.brk, r.last) \in Int /\ r.brk <= Larger(r.brk, r.last)
          /\ r.in \in 0..now /\ r.brk \in 0..now /\ r.last \in NoTime..now /\ r.secs \in Nat
      BY <1>4, KnownRow DEF Larger, NoTime
    <2>3. /\ p.pay \in 0..now /\ p.pay \in NoTime..now /\ p.pay # NoTime /\ now \in Nat
          /\ (p.used => p.pay = taps[id].at /\ Larger(r.brk, r.last) <= p.pay)
          /\ (~p.used => p.pay = now)
          /\ GoodRow(r) /\ r \in Row
      BY <1>4, <2>1, <2>2, PunchRow
    <2> DEFINE total == r.secs + Running(s, p.pay)
               mark == r.marked \/ ~p.used
    <2>4. mark \in BOOLEAN /\ (r.marked => mark) /\ (~mark => p.used /\ ~r.marked)
      OBVIOUS
    <2>5. r.brk <= p.pay
      BY <2>2, <2>3
    <2>6. total = r.secs + (p.pay - r.brk) /\ total \in Nat /\ NoTime \in NoTime..now
      BY <1>4, <2>2, <2>3, <2>5, RunningIs DEF NoTime
    <2>7. Is(a, r.in, r.out, r.brk, total, r.last, r.status, r.marked, r.auto, r.byHand)
      <3>1. a = [r EXCEPT !.secs = total]
        BY Zenon
      <3> HIDE DEF total, a
      <3> QED
        BY <2>3, <2>6, <3>1, SetSecs
    <2> HIDE DEF mark, p, total, a
    <2>8. Is(b, r.in, r.out, NoTime, total, r.last, r.status, r.marked, r.auto, r.byHand)
      BY <2>3, <2>6, <2>7, SetBreak DEF Is
    <2> HIDE DEF b
    <2>9. Is(c, r.in, r.out, NoTime, total, p.pay, r.status, r.marked, r.auto, r.byHand)
      BY <2>3, <2>8, SetLast DEF Is
    <2> HIDE DEF c
    <2>10. Is(d, r.in, r.out, NoTime, total, p.pay, r.status, mark, r.auto, r.byHand)
      <3>1. d = [c EXCEPT !.marked = mark]
        BY <2>9, Zenon DEF Is, mark
      <3> HIDE DEF d
      <3> QED
        BY <2>3, <2>4, <2>9, <3>1, SetMark DEF Is
    <2> HIDE DEF d, r, s
    <2>11. MayBecome(r, d)
      BY <2>1, <2>3, <2>4, <2>10 DEF MayBecome, GoodRow, Fits, Settled, Counted, Open, Is
    <2>12. Counts4Itself(r, d)
      <3>1. ASSUME Tally(r), ~mark, ~r.byHand, ~r.auto
            PROVE  r.in + total <= p.pay
        <4>1. ~r.marked /\ r.in + r.secs <= Reach(r)
          BY <2>1, <2>4, <3>1 DEF Tally, Open, Counted
        <4>2. Reach(r) = r.brk
          BY <1>4 DEF Reach
        <4> QED
          BY <2>2, <2>3, <2>6, <4>1, <4>2
      <3>2. p.pay <= Larger(r.in, p.pay)
        BY <2>2, <2>3 DEF Larger
      <3>3. Larger(r.in, p.pay) \in Nat
        BY <2>2, <2>3 DEF Larger
      <3> QED
        BY <2>1, <2>2, <2>3, <2>6, <2>10, <3>1, <3>2, <3>3 DEF Counts4Itself, Tally, Reach, Is, Open
    <2>13. Overtakes(id) => s \in mixed'
      BY <2>1 DEF NoteOrder, s
    <2>14. Live(d) => /\ Live(r) /\ d.in = r.in /\ d.in <= taps[id].at
                      /\ d.last = taps[id].at /\ d.brk = NoTime
      <3>1. ASSUME Live(d) PROVE p.used /\ Live(r) /\ r.in <= r.brk
        BY <2>1, <2>3, <2>4, <2>10, <1>4, <3>1 DEF Live, Open, Is, GoodRow, Fits, Counted
      <3>2. ASSUME p.used, r.in <= r.brk PROVE r.in <= taps[id].at /\ p.pay = taps[id].at
        BY <2>2, <2>3, <2>5, <3>2
      <3> QED
        BY <2>10, <3>1, <3>2 DEF Is
    <2>15. ~Overtakes(id) => Punched(s, d)
      BY <2>1, <2>14 DEF Punched, r
    <2> QED
      BY <2>11, <2>12, <2>13, <2>15 DEF RowStep, r
  <1>5. CASE IsOpen(s) /\ shifts' = [shifts EXCEPT ![s] = m]
    <2> HIDE DEF m, s
    <2> QED
      BY <1>3, <1>5, OneRowMoves
  <1>6. CASE IsOpen(s) /\ r.brk # NoTime /\ shifts' = [shifts EXCEPT ![s] = d]
    <2> HIDE DEF d, s
    <2> QED
      BY <1>4, <1>6, OneRowMoves
  <1>7. d = [r EXCEPT !.secs = @ + Running(s, p.pay), !.brk = NoTime,
                      !.last = p.pay, !.marked = @ \/ ~p.used]
    BY Zenon
  <1> HIDE DEF a, b, c, d, m, p, s, r
  <1> QED
    BY <1>1, <1>2, <1>5, <1>6, <1>7, Zenon

\* The calls with no key.
LEMMA LegacyClockOutMoves ==
    ASSUME CardInv, NEW s \in Rows, LegacyClockOut(s)
    PROVE  RowsMove
  <1> DEFINE r == shifts[s]
  <1>1. PICK total \in {r.secs, r.secs + Running(s, now)} :
            shifts' = [shifts EXCEPT ![s] = [Close(s, r, now, total) EXCEPT !.last = now]]
    BY Zenon DEF LegacyClockOut, Write
  <1> DEFINE a == Close(s, r, now, total)
             b == [a EXCEPT !.last = now]
  <1>2. Open(r) /\ now \in Nat /\ now \in 0..now /\ now \in NoTime..now /\ r \in Row /\ total \in Nat
    BY <1>1, KnownRow, RunningIs DEF LegacyClockOut
  <1>3. Is(a, r.in, now, NoTime, total, r.last, "submitted", r.marked, r.auto, r.byHand)
    BY <1>2, ClosedRow
  <1> HIDE DEF a
  <1>4. Is(b, r.in, now, NoTime, total, now, "submitted", r.marked, r.auto, r.byHand)
    BY <1>2, <1>3, SetLast DEF Is
  <1> HIDE DEF b
  <1>5. r.in <= now /\ Reach(r) <= now
    BY KnownRow DEF Reach, Larger, NoTime
  <1>6. RowStep(s, b)
    BY <1>1, <1>2, <1>4, <1>5, ClosingIsQuiet, QuietSteps DEF Is, Quiet
  <1>7. shifts' = [shifts EXCEPT ![s] = b]
    BY <1>1, Zenon DEF a, b
  <1> QED
    BY <1>6, <1>7, OneRowMoves

LEMMA LegacyStartBreakMoves ==
    ASSUME CardInv, NEW s \in Rows, LegacyStartBreak(s)
    PROVE  RowsMove
  <1> DEFINE r == shifts[s]
             a == [r EXCEPT !.brk = now]
             b == [a EXCEPT !.last = now]
  <1>1. shifts' = [shifts EXCEPT ![s] = b] /\ Open(r) /\ r.brk = NoTime /\ s \in mixed'
    BY KnownRow, Zenon DEF LegacyStartBreak, Write
  <1>2. now \in Nat /\ now \in 0..now /\ now \in NoTime..now /\ now # NoTime /\ r \in Row /\ GoodRow(r)
        /\ r.in \in 0..now /\ r.secs \in Nat /\ r.last \in NoTime..now
    BY KnownRow
  <1>3. Is(a, r.in, r.out, now, r.secs, r.last, r.status, r.marked, r.auto, r.byHand)
    BY <1>2, SetBreak
  <1> HIDE DEF a
  <1>4. Is(b, r.in, r.out, now, r.secs, now, r.status, r.marked, r.auto, r.byHand)
    BY <1>2, <1>3, SetLast DEF Is
  <1> HIDE DEF b, r
  <1>5. MayBecome(r, b)
    BY <1>1, <1>2, <1>4 DEF MayBecome, GoodRow, Fits, Settled, Counted, Open, Is
  <1>6. Counts4Itself(r, b)
    <2>1. ASSUME Tally(r), Counted(r), ~r.byHand, ~r.marked, ~r.auto
          PROVE  r.in + r.secs <= now
      <3>1. r.in + r.secs <= Larger(r.in, r.last) /\ Larger(r.in, r.last) <= now
        BY <1>1, <1>2, <2>1 DEF Tally, Open, Reach, Larger, NoTime
      <3> QED
        BY <1>2, <3>1 DEF Larger, NoTime
    <2> QED
      BY <1>1, <1>2, <1>4, <2>1 DEF Counts4Itself, Tally, Counted, Open, Reach, Is
  <1>7. RowStep(s, b)
    BY <1>1, <1>5, <1>6 DEF RowStep, r
  <1> QED
    BY <1>1, <1>7, OneRowMoves

LEMMA LegacyEndBreakMoves ==
    ASSUME CardInv, NEW s \in Rows, LegacyEndBreak(s)
    PROVE  RowsMove
  <1> DEFINE r == shifts[s]
             total == r.secs + Running(s, now)
             a == [r EXCEPT !.secs = @ + Running(s, now)]
             b == [a EXCEPT !.brk = NoTime]
             c == [b EXCEPT !.last = now]
  <1>1. shifts' = [shifts EXCEPT ![s] = c] /\ r.brk # NoTime /\ s \in mixed'
    BY Zenon DEF LegacyEndBreak, Write
  <1>2. now \in Nat /\ now \in 0..now /\ now \in NoTime..now /\ NoTime \in NoTime..now /\ r \in Row /\ GoodRow(r)
        /\ r.in \in 0..now /\ r.secs \in Nat /\ r.last \in NoTime..now /\ r.brk \in NoTime..now
    BY KnownRow
  <1>3. total \in Nat /\ total = r.secs + (now - r.brk)
    BY <1>1, <1>2, RunningIs DEF NoTime
  <1>4. Is(a, r.in, r.out, r.brk, total, r.last, r.status, r.marked, r.auto, r.byHand)
    <2>1. a = [r EXCEPT !.secs = total]
      BY Zenon
    <2> HIDE DEF a, total
    <2> QED
      BY <1>2, <1>3, <2>1, SetSecs
  <1> HIDE DEF a, total
  <1>5. Is(b, r.in, r.out, NoTime, total, r.last, r.status, r.marked, r.auto, r.byHand)
    BY <1>2, <1>4, SetBreak DEF Is
  <1> HIDE DEF b
  <1>6. Is(c, r.in, r.out, NoTime, total, now, r.status, r.marked, r.auto, r.byHand)
    BY <1>2, <1>5, SetLast DEF Is
  <1> HIDE DEF c, r
  <1>7. MayBecome(r, c)
    BY <1>1, <1>2, <1>6 DEF MayBecome, GoodRow, Fits, Settled, Counted, Open, Is
  <1>8. Counts4Itself(r, c)
    <2>1. ASSUME Tally(r), Counted(r), ~r.byHand, ~r.marked, ~r.auto
          PROVE  r.out = NoTime /\ r.in + total <= Larger(r.in, now)
      <3>1. r.out = NoTime /\ r.in + r.secs <= r.brk
        BY <1>1, <2>1 DEF Tally, Reach
      <3> QED
        BY <1>2, <1>3, <3>1 DEF Larger, NoTime
    <2> QED
      BY <1>2, <1>6, <2>1 DEF Counts4Itself, Tally, Counted, Reach, Is
  <1>9. RowStep(s, c)
    BY <1>1, <1>7, <1>8 DEF RowStep, r
  <1> QED
    BY <1>1, <1>9, OneRowMoves

\* The office.  A time somebody typed need not fit the punches.
LEMMA HandMoves ==
    ASSUME NEW r \in Row, NEW q \in Row, q.byHand,
           r.status = "approved" /\ q.status = "approved" =>
              q.in = r.in /\ q.out = r.out /\ q.secs = r.secs
    PROVE  Quiet(r, q)
  BY DEF Quiet, MayBecome, Counts4Itself, StillAs, Live, Tally, GoodRow, Fits

LEMMA ClockOutForMoves ==
    ASSUME CardInv, NEW s \in Rows, ClockOutFor(s)
    PROVE  RowsMove
  <1> DEFINE r == shifts[s]
             total == r.secs + Running(s, now)
             hand == r.byHand \/ ~IsOpen(s)
             a == Close(s, r, now, total)
             b == [a EXCEPT !.byHand = hand]
  <1>1. shifts' = [shifts EXCEPT ![s] = [a EXCEPT !.byHand = @ \/ ~IsOpen(s)]]
    BY Zenon DEF ClockOutFor, Write
  <1>2. now \in Nat /\ now \in 0..now /\ r \in Row /\ total \in Nat
    BY KnownRow, RunningIs
  <1>3. Is(a, r.in, now, NoTime, total, r.last, "submitted", r.marked, r.auto, r.byHand)
    BY <1>2, ClosedRow
  <1> HIDE DEF a
  <1>4. [a EXCEPT !.byHand = @ \/ ~IsOpen(s)] = b
    <2>1. a.byHand = r.byHand
      BY <1>3 DEF Is
    <2> QED
      BY <2>1
  <1>5. CASE Open(r) /\ ~r.byHand
    <2>1. hand = r.byHand
      BY <1>2, <1>5, KnownRow DEF Row
    <2>2. b = [a EXCEPT !.byHand = a.byHand]
      BY <1>3, <2>1 DEF Is
    <2>3. b = a
      BY <1>3, <2>2 DEF Is, Row
    <2>4. r.in <= now /\ Reach(r) <= now
      BY KnownRow DEF Reach, Larger, NoTime
    <2> HIDE DEF b
    <2>5. RowStep(s, b)
      BY <1>2, <1>3, <1>5, <2>3, <2>4, ClosingIsQuiet, QuietSteps DEF Is, Quiet
    <2> QED
      BY <1>1, <1>4, <2>5, OneRowMoves
  <1>6. CASE ~(Open(r) /\ ~r.byHand)
    <2>1. b = [a EXCEPT !.byHand = TRUE]
      <3>1. r.byHand \in BOOLEAN /\ (IsOpen(s) <=> Open(r))
        BY <1>2, KnownRow DEF Row
      <3>2. hand = TRUE
        BY <1>6, <3>1
      <3> QED
        BY <3>2
    <2> HIDE DEF b, hand
    <2>2. Is(b, r.in, now, NoTime, total, r.last, "submitted", r.marked, r.auto, TRUE)
      BY <1>2, <1>3, <2>1, SetHand DEF Is
    <2>3. Quiet(r, b)
      BY <1>2, <2>2, HandMoves DEF Is
    <2> QED
      BY <1>1, <1>4, <2>3, OneRowMoves, QuietSteps
  <1> QED
    BY <1>5, <1>6

LEMMA VoidMoves ==
    ASSUME CardInv, NEW s \in Rows, Void(s)
    PROVE  RowsMove
  <1> DEFINE r == shifts[s]
             a == [r EXCEPT !.status = "voided"]
  <1>1. shifts' = [shifts EXCEPT ![s] = a] /\ "voided" \in Status
    BY Zenon DEF Void, Write, Status
  <1>2. Is(a, r.in, r.out, r.brk, r.secs, r.last, "voided", r.marked, r.auto, r.byHand)
    BY <1>1, KnownRow, SetStatus
  <1> HIDE DEF a
  <1>3. Quiet(r, a)
    BY <1>2, KnownRow DEF Quiet, MayBecome, Counts4Itself, StillAs, Live, Tally,
       GoodRow, Fits, Settled, Counted, Open, Is
  <1> QED
    BY <1>1, <1>3, OneRowMoves, QuietSteps

LEMMA RejectMoves ==
    ASSUME CardInv, NEW s \in Rows, Reject(s)
    PROVE  RowsMove
  <1> DEFINE r == shifts[s]
             a == [r EXCEPT !.status = "rejected"]
  <1>1. shifts' = [shifts EXCEPT ![s] = a] /\ "rejected" \in Status
    BY Zenon DEF Reject, Write, Status
  <1>2. Is(a, r.in, r.out, r.brk, r.secs, r.last, "rejected", r.marked, r.auto, r.byHand)
    BY <1>1, KnownRow, SetStatus
  <1> HIDE DEF a
  <1>3. Quiet(r, a)
    BY <1>2, KnownRow DEF Quiet, MayBecome, Counts4Itself, StillAs, Live, Tally,
       GoodRow, Fits, Settled, Counted, Open, Is
  <1> QED
    BY <1>1, <1>3, OneRowMoves, QuietSteps

LEMMA RestoreMoves ==
    ASSUME CardInv, NEW s \in Rows, Restore(s)
    PROVE  RowsMove
  <1> DEFINE r == shifts[s]
             st == IF r.out # NoTime THEN "submitted" ELSE "open"
             a == [r EXCEPT !.byHand = TRUE]
             b == [a EXCEPT !.status = st]
  <1>1. shifts' = [shifts EXCEPT ![s] = b] /\ st \in Status /\ r.status # "approved"
    BY Zenon DEF Restore, Write, Status
  <1>2. Is(a, r.in, r.out, r.brk, r.secs, r.last, r.status, r.marked, r.auto, TRUE)
    BY KnownRow, SetHand
  <1> HIDE DEF a, st
  <1>5. Is(b, r.in, r.out, r.brk, r.secs, r.last, st, r.marked, r.auto, TRUE)
    BY <1>1, <1>2, KnownRow, SetStatus DEF Is
  <1> HIDE DEF b
  <1>6. Quiet(r, b)
    BY <1>1, <1>5, KnownRow, HandMoves DEF Is
  <1> QED
    BY <1>1, <1>6, OneRowMoves, QuietSteps

LEMMA FinishAtMoves ==
    ASSUME CardInv, NEW s \in Rows, NEW t \in 0..now, FinishAt(s, t)
    PROVE  RowsMove
  <1> DEFINE r == shifts[s]
  <1>1. PICK total \in {r.secs, 0} : shifts' = [shifts EXCEPT ![s] = [Close(s, r, t, total) EXCEPT !.byHand = TRUE]]
    BY Zenon DEF FinishAt, Write
  <1>2. total \in Nat /\ r \in Row /\ now \in Nat
    BY <1>1, KnownRow
  <1> DEFINE a == Close(s, r, t, total)
             b == [a EXCEPT !.byHand = TRUE]
  <1>3. Is(a, r.in, t, NoTime, total, r.last, "submitted", r.marked, r.auto, r.byHand)
    BY <1>2, ClosedRow
  <1> HIDE DEF a
  <1>4. Is(b, r.in, t, NoTime, total, r.last, "submitted", r.marked, r.auto, TRUE)
    BY <1>2, <1>3, SetHand DEF Is
  <1>5. shifts' = [shifts EXCEPT ![s] = b]
    BY <1>1 DEF a
  <1> HIDE DEF b
  <1>6. Quiet(r, b)
    BY <1>2, <1>4, HandMoves DEF Is
  <1> QED
    BY <1>5, <1>6, OneRowMoves, QuietSteps

LEMMA EditShiftMoves ==
    ASSUME CardInv, NEW s \in Rows, NEW from \in 0..now, NEW to \in NoTime..now, EditShift(s, from, to)
    PROVE  RowsMove
  <1> DEFINE r == shifts[s]
             typed == to # r.out
             changed(total, moved) == from # r.in \/ to # r.out \/ total # r.secs \/ moved
             after(x, total, moved) == IF \/ x = "approved" /\ changed(total, moved)
                                          \/ x = "rejected"
                                          \/ x \in {"open", "needs_finish"} /\ typed
                                       THEN "submitted" ELSE x
  <1>1. PICK total \in {r.secs, 0}, moved \in BOOLEAN :
            shifts' = [shifts EXCEPT ![s] = [r EXCEPT !.in = from, !.out = to, !.secs = total, !.byHand = TRUE,
                                                      !.status = after(@, total, moved)]]
    BY Zenon DEF EditShift, Write
  <1> DEFINE st == after(r.status, total, moved)
             a == [r EXCEPT !.in = from]
             b == [a EXCEPT !.out = to]
             c == [b EXCEPT !.secs = total]
             d == [c EXCEPT !.byHand = TRUE]
             e == [d EXCEPT !.status = st]
  <1>2. total \in Nat /\ r \in Row /\ now \in Nat
    BY <1>1, KnownRow
  <1>3. st \in Status
    BY <1>2 DEF Row, Status
  <1>4. r.status = "approved" /\ st = "approved" => from = r.in /\ to = r.out /\ total = r.secs
    OBVIOUS
  <1> HIDE DEF after
  <1>5. [r EXCEPT !.in = from, !.out = to, !.secs = total, !.byHand = TRUE, !.status = after(@, total, moved)]
        = [d EXCEPT !.status = after(d.status, total, moved)]
    BY Zenon
  <1>6. Is(a, from, r.out, r.brk, r.secs, r.last, r.status, r.marked, r.auto, r.byHand)
    BY <1>2, SetIn
  <1> HIDE DEF a
  <1>7. Is(b, from, to, r.brk, r.secs, r.last, r.status, r.marked, r.auto, r.byHand)
    BY <1>2, <1>6, SetOut DEF Is
  <1> HIDE DEF b
  <1>8. Is(c, from, to, r.brk, total, r.last, r.status, r.marked, r.auto, r.byHand)
    BY <1>2, <1>7, SetSecs DEF Is
  <1> HIDE DEF c
  <1>9. Is(d, from, to, r.brk, total, r.last, r.status, r.marked, r.auto, TRUE)
    BY <1>2, <1>8, SetHand DEF Is
  <1> HIDE DEF d
  <1>10. d.status = r.status
    BY <1>9 DEF Is
  <1>11. shifts' = [shifts EXCEPT ![s] = e]
    BY <1>1, <1>5, <1>10
  <1> HIDE DEF st
  <1>12. Is(e, from, to, r.brk, total, r.last, st, r.marked, r.auto, TRUE)
    BY <1>2, <1>3, <1>9, SetStatus DEF Is
  <1> HIDE DEF e
  <1>13. r.status = "approved" /\ e.status = "approved" => e.in = r.in /\ e.out = r.out /\ e.secs = r.secs
    BY <1>4, <1>12 DEF Is
  <1>14. Quiet(r, e)
    BY <1>2, <1>12, <1>13, HandMoves DEF Is
  <1> QED
    BY <1>11, <1>14, OneRowMoves, QuietSteps

LEMMA CloseAsNoWorkMoves ==
    ASSUME CardInv, NEW s \in Rows, CloseAsNoWork(s)
    PROVE  RowsMove
  <1> DEFINE r == shifts[s]
             a == Close(s, r, r.in, 0)
             b == [a EXCEPT !.status = "approved"]
             c == [b EXCEPT !.byHand = TRUE]
  <1>1. shifts' = [shifts EXCEPT ![s] = c] /\ s \in wasUnended /\ "approved" \in Status
    BY Zenon DEF CloseAsNoWork, Write, Status
  <1>2. Is(a, r.in, r.in, NoTime, 0, r.last, "submitted", r.marked, r.auto, r.byHand)
    BY KnownRow, ClosedRow
  <1> HIDE DEF a
  <1>3. Is(b, r.in, r.in, NoTime, 0, r.last, "approved", r.marked, r.auto, r.byHand)
    BY <1>1, <1>2, KnownRow, SetStatus DEF Is
  <1> HIDE DEF b
  <1>4. Is(c, r.in, r.in, NoTime, 0, r.last, "approved", r.marked, r.auto, TRUE)
    BY <1>3, KnownRow, SetHand DEF Is
  <1> HIDE DEF c
  <1>5. WroteOff(s, c)
    BY <1>1, <1>4 DEF WroteOff, GoodRow, Fits, Is
  <1>6. Counts4Itself(r, c) /\ StillAs(r, c)
    BY <1>4 DEF Counts4Itself, Tally, StillAs, Live, Is
  <1>7. RowStep(s, c)
    BY <1>5, <1>6 DEF RowStep
  <1> QED
    BY <1>1, <1>7, OneRowMoves

LEMMA UnapproveMoves ==
    ASSUME CardInv, NEW s \in Rows, Unapprove(s)
    PROVE  RowsMove
  <1> DEFINE r == shifts[s]
             a == [r EXCEPT !.status = "submitted"]
             b == [a EXCEPT !.byHand = TRUE]
  <1>1. shifts' = [shifts EXCEPT ![s] = b] /\ r.status = "approved" /\ "submitted" \in Status
    BY Zenon DEF Unapprove, Write, Status
  <1>2. Is(a, r.in, r.out, r.brk, r.secs, r.last, "submitted", r.marked, r.auto, r.byHand)
    BY <1>1, KnownRow, SetStatus
  <1> HIDE DEF a
  <1>3. Is(b, r.in, r.out, r.brk, r.secs, r.last, "submitted", r.marked, r.auto, TRUE)
    BY <1>2, KnownRow, SetHand DEF Is
  <1> HIDE DEF b
  <1>5. Quiet(r, b)
    BY <1>3, KnownRow, HandMoves DEF Is
  <1> QED
    BY <1>1, <1>5, OneRowMoves, QuietSteps

LEMMA ApproveWeekMoves ==
    ASSUME CardInv, ApproveWeek
    PROVE  RowsMove
  <1>1. PICK n \in Nat : shifts = [s \in 1..n |-> shifts[s]]
    BY DEF CardInv, IsCard
  <1>2. Rows = 1..n
    BY <1>1 DEF Rows
  <1>3. shifts' = [s \in 1..n |-> IF shifts[s].status = "submitted"
                                  THEN [shifts[s] EXCEPT !.status = "approved"] ELSE shifts[s]]
    BY <1>2, Zenon DEF ApproveWeek
  <1>4. shifts' = [s \in 1..n |-> shifts'[s]] /\ DOMAIN shifts' = Rows
    BY <1>2, <1>3
  <1>5. ASSUME NEW s \in Rows
        PROVE  RowStep(s, shifts'[s])
    <2> DEFINE r == shifts[s]
               a == [r EXCEPT !.status = "approved"]
    <2>1. "approved" \in Status /\ GoodRow(r) /\ r \in Row /\ now \in Nat
      BY KnownRow DEF Status
    <2>2. shifts'[s] = IF r.status = "submitted" THEN a ELSE r
      BY <1>2, <1>3
    <2>3. Is(a, r.in, r.out, r.brk, r.secs, r.last, "approved", r.marked, r.auto, r.byHand)
      BY <2>1, SetStatus
    <2> HIDE DEF a, r
    <2>4. r.status = "submitted" => Quiet(r, a)
      BY <2>1, <2>3 DEF Quiet, MayBecome, Counts4Itself, StillAs, Live, Tally,
         GoodRow, Fits, Settled, Counted, Open, Is
    <2>5. Quiet(r, shifts'[s])
      BY <2>1, <2>2, <2>4, RowStays
    <2> QED
      BY <2>5, QuietSteps DEF r
  <1> QED
    BY <1>4, <1>5 DEF RowsMove, IsCard

----------------------------------------------------------------------------
(* Clock in.                                                               *)

\* A set of past times has a latest one.
LEMMA LatestIs ==
    ASSUME now \in Nat, NEW S, S \subseteq NoTime..now, S # {}
    PROVE  Latest(S) \in S /\ \A u \in S : u <= Latest(S)
  <1> DEFINE T == {now - t : t \in S}
  <1>1. T \subseteq Nat /\ T # {}
    BY DEF NoTime
  <1>2. PICK m \in T : \A k \in T : m <= k
    BY <1>1, LeastExists
  <1>3. PICK t \in S : m = now - t
    BY <1>2
  <1>4. ASSUME NEW u \in S PROVE u <= t
    <2>1. now - u \in T /\ u \in Int /\ t \in Int
      BY DEF NoTime
    <2>2. now - t <= now - u
      BY <1>2, <1>3, <2>1
    <2> QED
      BY <2>1, <2>2
  <1> QED
    BY <1>4 DEF Latest

\* What a clock-in does to the rows it saw open.
LEMMA DanglingMoves ==
    ASSUME CardInv, NEW seen, NEW s \in Rows
    PROVE  /\ Quiet(shifts[s], CloseDangling(seen)[s])
           /\ s \in seen => ~Open(CloseDangling(seen)[s])
  <1> DEFINE r == shifts[s]
             a == [r EXCEPT !.out = now]
             b == [a EXCEPT !.status = "submitted"]
             c == [b EXCEPT !.auto = TRUE]
             d == [r EXCEPT !.status = "needs_finish"]
             e == [d EXCEPT !.brk = NoTime]
  <1>1. CloseDangling(seen)[s] =
            IF s \notin seen \/ ~IsOpen(s) THEN r
            ELSE IF now - r.in <= Cap
                 THEN [r EXCEPT !.out = now, !.status = "submitted", !.auto = TRUE]
                 ELSE [r EXCEPT !.status = "needs_finish", !.brk = NoTime]
    BY Zenon DEF CloseDangling
  <1>2. [r EXCEPT !.out = now, !.status = "submitted", !.auto = TRUE] = c
        /\ [r EXCEPT !.status = "needs_finish", !.brk = NoTime] = e
    BY Zenon
  <1>3. ASSUME Open(r)
        PROVE  Quiet(r, c) /\ Quiet(r, e) /\ ~Open(c) /\ ~Open(e)
    <2>1. "submitted" \in Status /\ "needs_finish" \in Status
      BY DEF Status
    <2>2. Is(a, r.in, now, r.brk, r.secs, r.last, r.status, r.marked, r.auto, r.byHand)
      BY KnownRow, SetOut
    <2> HIDE DEF a
    <2>3. Is(b, r.in, now, r.brk, r.secs, r.last, "submitted", r.marked, r.auto, r.byHand)
      BY <2>1, <2>2, KnownRow, SetStatus DEF Is
    <2> HIDE DEF b
    <2>4. Is(c, r.in, now, r.brk, r.secs, r.last, "submitted", r.marked, TRUE, r.byHand)
      BY <2>3, KnownRow, SetAuto DEF Is
    <2> HIDE DEF c
    <2>5. Is(d, r.in, r.out, r.brk, r.secs, r.last, "needs_finish", r.marked, r.auto, r.byHand)
      BY <2>1, KnownRow, SetStatus
    <2> HIDE DEF d
    <2>6. Is(e, r.in, r.out, NoTime, r.secs, r.last, "needs_finish", r.marked, r.auto, r.byHand)
      BY <2>5, KnownRow, SetBreak DEF Is
    <2> HIDE DEF e
    <2>7. GoodRow(r) /\ now \in Nat /\ now # NoTime /\ r.in \in 0..now /\ r.brk \in NoTime..now
      BY KnownRow
    <2> HIDE DEF r
    <2>8. Quiet(r, c) /\ ~Open(c)
      BY <1>3, <2>4, <2>7 DEF Quiet, MayBecome, Counts4Itself, StillAs, Live, Tally,
         GoodRow, Fits, Settled, Counted, Open, Is
    <2>9. Quiet(r, e) /\ ~Open(e)
      BY <1>3, <2>6, <2>7 DEF Quiet, MayBecome, Counts4Itself, StillAs, Live, Tally,
         GoodRow, Fits, Settled, Counted, Open, Is
    <2> QED
      BY <2>8, <2>9
  <1> HIDE DEF c, e
  <1>4. CloseDangling(seen)[s] = (IF s \notin seen \/ ~IsOpen(s) THEN r ELSE IF now - r.in <= Cap THEN c ELSE e)
    BY <1>1, <1>2, Zenon
  <1>5. GoodRow(r) /\ (IsOpen(s) <=> Open(r))
    BY KnownRow
  <1> HIDE DEF r
  <1>6. Quiet(r, CloseDangling(seen)[s]) /\ (s \in seen => ~Open(CloseDangling(seen)[s]))
    BY <1>3, <1>4, <1>5, RowStays
  <1> QED
    BY <1>6 DEF r

LEMMA DanglingRows ==
    ASSUME CardInv, NEW seen
    PROVE  LET rows == CloseDangling(seen)
           IN  \E n \in Nat : /\ shifts = [s \in 1..n |-> shifts[s]] /\ Rows = 1..n
                              /\ rows = [s \in 1..n |-> rows[s]] /\ DOMAIN rows = 1..n
  <1>1. PICK n \in Nat : shifts = [s \in 1..n |-> shifts[s]]
    BY DEF CardInv, IsCard
  <1>2. Rows = 1..n
    BY <1>1 DEF Rows
  <1> QED
    BY <1>1, <1>2 DEF CloseDangling

\* A shift starts in the past, and no earlier than a shift that counts ended.
LEMMA StartIsFree ==
    ASSUME CardInv, NEW x \in txns
    PROVE  LET rows == CloseDangling(x.seen)
               pay == StartOf(x, rows).pay
           IN  pay \in 0..now /\ \A s \in Rows : rows[s].status # "voided" => rows[s].out <= pay
  <1> DEFINE rows == CloseDangling(x.seen)
             pay == StartOf(x, rows).pay
             counted == {r \in Rows : rows[r].status # "voided"}
             S == {NoTime} \cup {Larger(rows[s].in, rows[s].out) : s \in counted}
             p == PickTime(x.id, NoTime)
  <1>1. now \in Nat /\ now \in 0..now
    BY DEF CardInv
  <1>2. \A s \in Rows : rows[s].in \in 0..now /\ rows[s].out \in NoTime..now
    <2>1. \A s \in Rows : GoodRow(rows[s])
      BY DanglingMoves DEF Quiet, MayBecome
    <2> HIDE DEF rows
    <2> QED
      BY <2>1 DEF GoodRow, Row
  <1>3. DOMAIN rows = Rows
    BY DEF CloseDangling
  <1> HIDE DEF rows
  <1>4. PreviousEnd(rows) = Latest(S)
    BY <1>3 DEF PreviousEnd, Rows
  <1>5. S \subseteq NoTime..now /\ S # {}
    BY <1>1, <1>2 DEF Larger, NoTime
  <1>6. PreviousEnd(rows) \in NoTime..now /\ \A u \in S : u <= PreviousEnd(rows)
    BY <1>1, <1>4, <1>5, LatestIs
  <1>7. \A s \in Rows : rows[s].status # "voided" => rows[s].out <= PreviousEnd(rows)
    <2>1. ASSUME NEW s \in Rows, rows[s].status # "voided"
          PROVE  rows[s].out <= PreviousEnd(rows)
      <3>1. Larger(rows[s].in, rows[s].out) \in S
        BY <2>1
      <3>2. Larger(rows[s].in, rows[s].out) <= PreviousEnd(rows)
        BY <3>1, <1>6
      <3> HIDE DEF S
      <3> QED
        BY <1>1, <1>2, <1>6, <3>2 DEF Larger, NoTime
    <2> QED
      BY <2>1
  <1> DEFINE Free == pay \in 0..now /\ \A s \in Rows : rows[s].status # "voided" => rows[s].out <= pay
  <1>8. ASSUME pay = now
        PROVE  Free
    BY <1>1, <1>2, <1>8 DEF NoTime
  <1>9. ASSUME x.kind = "keyed", pay = p.pay, ~(p.pay < PreviousEnd(rows))
        PROVE  Free
    <2>1. x.id \in Ids /\ taps[x.id] # NoTap
      BY <1>9 DEF CardInv, TapsArePast
    <2>2. p.pay \in 0..now
      BY <2>1, PayIsPast DEF NoTime
    <2> HIDE DEF p, pay, S
    <2> QED
      BY <1>1, <1>2, <1>6, <1>7, <1>9, <2>2 DEF NoTime
  <1>10. pay = now \/ (x.kind = "keyed" /\ pay = p.pay /\ ~(p.pay < PreviousEnd(rows)))
    <2> HIDE DEF p, S
    <2>1. CASE x.kind # "keyed"
      BY <2>1 DEF StartOf
    <2>2. CASE x.kind = "keyed" /\ x.seen # {}
      BY <2>2 DEF StartOf
    <2>3. CASE x.kind = "keyed" /\ x.seen = {}
      <3>1. StartOf(x, rows) = IF p.pay < PreviousEnd(rows) THEN [pay |-> now, used |-> FALSE] ELSE p
        BY <2>3, Zenon DEF StartOf, p
      <3> QED
        BY <2>3, <3>1
    <2> QED
      BY <2>1, <2>2, <2>3
  <1>11. Free
    BY <1>8, <1>9, <1>10
  <1> QED
    BY <1>11, Zenon DEF rows

LEMMA AppendOne ==
    ASSUME NEW n \in Nat, NEW f, f = [s \in 1..n |-> f[s]], NEW e
    PROVE  LET g == Append(f, e)
           IN  /\ DOMAIN g = 1..(n + 1) /\ g = [s \in 1..(n + 1) |-> g[s]]
               /\ \A s \in 1..n : g[s] = f[s]
               /\ g[n + 1] = e
  <1> DEFINE X == {f[s] : s \in 1..n} \cup {e}
  <1>1. \A s \in 1..n : f[s] \in X
    OBVIOUS
  <1>2. e \in X
    OBVIOUS
  <1> HIDE DEF X
  <1>3. f \in [1..n -> X]
    BY <1>1
  <1>4. f \in Seq(X) /\ Len(f) = n
    BY <1>3
  <1>5. /\ Append(f, e) \in Seq(X) /\ Len(Append(f, e)) = n + 1
        /\ \A s \in 1..n : Append(f, e)[s] = f[s]
        /\ Append(f, e)[n + 1] = e
    BY <1>2, <1>4, AppendProperties
  <1>6. DOMAIN Append(f, e) = 1..(n + 1) /\ Append(f, e) = [s \in 1..(n + 1) |-> Append(f, e)[s]]
    BY <1>5
  <1> QED
    BY <1>5, <1>6

\* A clock-in's time is that of its tap, unless its row is marked.
LEMMA StartIsTap ==
    ASSUME CardInv, NEW x \in txns, x.kind = "keyed"
    PROVE  LET p == StartOf(x, CloseDangling(x.seen)) IN p.used => p.pay = taps[x.id].at
  <1> DEFINE rows == CloseDangling(x.seen)
             p == PickTime(x.id, NoTime)
  <1>1. x.id \in Ids /\ taps[x.id] # NoTap /\ NoTime \in Int
    BY DEF CardInv, TapsArePast, NoTime
  <1>2. p.used => p.pay = taps[x.id].at
    BY <1>1, PayIsPast
  <1> HIDE DEF rows, p
  <1>3. StartOf(x, rows) = IF x.seen # {} THEN [pay |-> now, used |-> FALSE]
                           ELSE IF p.pay < PreviousEnd(rows) THEN [pay |-> now, used |-> FALSE] ELSE p
    BY Zenon DEF StartOf, p
  <1> QED
    BY <1>2, <1>3 DEF rows

\* A row just opened.
Fresh(q) ==
    /\ GoodRow(q) /\ Open(q) /\ q.brk = NoTime /\ q.secs = 0 /\ ~q.byHand
    /\ q.in \in 0..now /\ q.last \in {NoTime, q.in}

\* A clock-in adds one row, untouched and open, that starts where nothing ran.
LEMMA CommitRows ==
    ASSUME CardInv, NEW x \in txns, CommitClockIn(x)
    PROVE  \E n \in Nat :
             /\ Rows = 1..n /\ IsCard(shifts)' /\ DOMAIN shifts' = 1..(n + 1)
             /\ \A s \in Rows : shifts'[s] = CloseDangling(x.seen)[s]
             /\ Fresh(shifts'[n + 1])
             /\ x.kind = "keyed" /\ ~shifts'[n + 1].marked => shifts'[n + 1].in = taps[x.id].at
             /\ \A s \in Rows : shifts'[s].status # "voided" => shifts'[s].out <= shifts'[n + 1].in
             /\ ledger' = IF x.kind = "keyed" THEN [ledger EXCEPT ![x.id] = n + 1] ELSE ledger
             /\ txns' = txns \ {x} /\ UNCHANGED <<now, taps, others, mixed>>
             /\ crossed' = crossed \cup Crossings(x, n + 1)
             /\ wasOpen' = wasOpen \cup {n + 1} /\ wasUnended' = wasUnended \cup {n + 1}
  <1> DEFINE rows == CloseDangling(x.seen)
             p == StartOf(x, rows)
             kept == IF x.kind = "keyed" THEN p.pay ELSE NoTime
             mark == ~p.used
             new == [in |-> p.pay, out |-> NoTime, brk |-> NoTime, secs |-> 0, last |-> kept,
                     status |-> "open", marked |-> mark, auto |-> FALSE, byHand |-> FALSE]
  <1>1. shifts' = Append(rows, new) /\ txns' = txns \ {x} /\ UNCHANGED <<now, taps, others, mixed>>
        /\ ledger' = IF x.kind = "keyed" THEN [ledger EXCEPT ![x.id] = Len(shifts) + 1] ELSE ledger
    BY Zenon DEF CommitClockIn
  <1>1a. /\ crossed' = crossed \cup Crossings(x, Len(shifts) + 1)
         /\ wasOpen' = wasOpen \cup {Len(shifts) + 1} /\ wasUnended' = wasUnended \cup {Len(shifts) + 1}
    BY Zenon DEF CommitClockIn
  <1>2. PICK n \in Nat : /\ shifts = [s \in 1..n |-> shifts[s]] /\ Rows = 1..n
                         /\ rows = [s \in 1..n |-> rows[s]] /\ DOMAIN rows = 1..n
    BY DanglingRows
  <1>3. p.pay \in 0..now /\ \A s \in Rows : rows[s].status # "voided" => rows[s].out <= p.pay
    BY StartIsFree
  <1>4. mark \in BOOLEAN /\ (x.kind = "keyed" /\ ~mark => p.pay = taps[x.id].at)
    BY StartIsTap
  <1> HIDE DEF rows, p, mark
  <1>5. now \in Nat /\ p.pay \in NoTime..now /\ kept \in NoTime..now /\ kept \in {NoTime, p.pay}
    BY <1>3 DEF CardInv, NoTime
  <1>6. Is(new, p.pay, NoTime, NoTime, 0, kept, "open", mark, FALSE, FALSE)
    BY <1>3, <1>4, <1>5 DEF Is, Row, NoTime, Status
  <1> HIDE DEF new, kept
  <1>7. Fresh(new) /\ new.in = p.pay /\ new.marked = mark
    BY <1>3, <1>5, <1>6 DEF Fresh, GoodRow, Settled, Fits, Open, Is
  <1>8. /\ DOMAIN shifts' = 1..(n + 1) /\ shifts' = [s \in 1..(n + 1) |-> shifts'[s]]
        /\ \A s \in 1..n : shifts'[s] = rows[s]
        /\ shifts'[n + 1] = new
    <2>1. rows = [s \in 1..n |-> rows[s]]
      BY <1>2
    <2> QED
      BY <1>1, <2>1, AppendOne
  <1>9. Len(shifts) = n
    <2>1. shifts \in [1..n -> {shifts[s] : s \in 1..n}]
      BY <1>2
    <2> QED
      BY <2>1
  <1>10. IsCard(shifts)'
    BY <1>8 DEF IsCard
  <1>11. \A s \in Rows : shifts'[s] = rows[s]
    BY <1>2, <1>8
  <1>12. \A s \in Rows : shifts'[s].status # "voided" => shifts'[s].out <= shifts'[n + 1].in
    BY <1>3, <1>7, <1>8, <1>11
  <1>13. \A s \in Rows : shifts'[s] = CloseDangling(x.seen)[s]
    BY <1>11 DEF rows
  <1>14. x.kind = "keyed" /\ ~shifts'[n + 1].marked => shifts'[n + 1].in = taps[x.id].at
    BY <1>4, <1>7, <1>8
  <1>15. Fresh(shifts'[n + 1])
    BY <1>7, <1>8
  <1>16. ledger' = IF x.kind = "keyed" THEN [ledger EXCEPT ![x.id] = n + 1] ELSE ledger
    BY <1>1, <1>9
  <1>16a. /\ crossed' = crossed \cup Crossings(x, n + 1)
         /\ wasOpen' = wasOpen \cup {n + 1} /\ wasUnended' = wasUnended \cup {n + 1}
    BY <1>9, <1>1a, Zenon
  <1> QED
    BY <1>1, <1>2, <1>8, <1>10, <1>12, <1>13, <1>14, <1>15, <1>16, <1>16a

----------------------------------------------------------------------------
(* The steps.                                                              *)

\* A keyed punch on a shift.
Punch(id) ==
    /\ RowsMove /\ Arrives(id) /\ Target(id) # NoShift
    /\ ledger' = [ledger EXCEPT ![id] = Target(id)] /\ UNCHANGED <<now, taps, txns, others, crossed, wasOpen, wasUnended>>
    /\ id \in Breaks => NoteOrder(id)
    /\ id \notin Breaks => UNCHANGED mixed
\* A call with no one-time id, on the rows that are there.
Keyless ==
    /\ RowsMove /\ Other
    /\ \E S \in SUBSET Rows : mixed' = mixed \cup S
    /\ \E S \in SUBSET Rows : wasOpen' = wasOpen \cup S

\* Every step is one of these.
Means ==
    \/ Tick \/ UNCHANGED vars
    \/ \E id \in Ids : \E ref \in Rows \cup ClockIns \cup {NoShift} : Tap(id, ref)
    \/ \E id \in ClockIns : BeginClockIn("keyed", id)
    \/ \E kind \in {"legacy", "roster"} : BeginClockIn(kind, NoShift)
    \/ \E x \in txns : CommitClockIn(x)
    \/ \E id \in ClockOuts \cup Breaks : Punch(id)
    \/ Keyless

LEMMA StepMeans ==
    ASSUME CardInv, [Next]_vars
    PROVE  Means
  <1>1. ASSUME NEW id \in ClockOuts, ClockOut(id)
        PROVE  Punch(id)
    <2>1. RowsMove
      BY <1>1, ClockOutMoves
    <2>2. Arrives(id) /\ Target(id) # NoShift /\ UNCHANGED mixed /\ Record(id, Target(id))
      BY <1>1, Zenon DEF ClockOut
    <2>3. id \notin Breaks
      BY ClockIds DEF Breaks
    <2> QED
      BY <2>1, <2>2, <2>3 DEF Punch, Record
  <1>2. ASSUME NEW id \in BreakStarts, StartBreak(id)
        PROVE  Punch(id)
    <2>1. RowsMove
      BY <1>2, StartBreakMoves
    <2>2. Arrives(id) /\ Target(id) # NoShift /\ NoteOrder(id) /\ Record(id, Target(id))
      BY <1>2, Zenon DEF StartBreak
    <2>3. id \in Breaks
      BY DEF Breaks
    <2> QED
      BY <2>1, <2>2, <2>3 DEF Punch, Record
  <1>3. ASSUME NEW id \in BreakEnds, EndBreak(id)
        PROVE  Punch(id)
    <2>1. RowsMove
      BY <1>3, EndBreakMoves
    <2>2. Arrives(id) /\ Target(id) # NoShift /\ NoteOrder(id) /\ Record(id, Target(id))
      BY <1>3, Zenon DEF EndBreak
    <2>3. id \in Breaks
      BY DEF Breaks
    <2> QED
      BY <2>1, <2>2, <2>3 DEF Punch, Record
  <1>4. ASSUME NEW s \in Rows,
               \/ LegacyClockOut(s) \/ LegacyStartBreak(s) \/ LegacyEndBreak(s) \/ ClockOutFor(s)
               \/ Void(s) \/ Restore(s) \/ Reject(s) \/ CloseAsNoWork(s) \/ Unapprove(s)
        PROVE  Keyless
    <2>1. RowsMove
      BY <1>4, LegacyClockOutMoves, LegacyStartBreakMoves, LegacyEndBreakMoves, ClockOutForMoves,
         VoidMoves, RestoreMoves, RejectMoves, CloseAsNoWorkMoves, UnapproveMoves
    <2>2. /\ Other /\ (mixed' = mixed \/ mixed' = mixed \cup {s})
          /\ wasOpen' = wasOpen \/ wasOpen' = wasOpen \cup {s}
      BY <1>4, Zenon DEF LegacyClockOut, LegacyStartBreak, LegacyEndBreak, ClockOutFor,
         Void, Restore, Reject, CloseAsNoWork, Unapprove
    <2>3. /\ mixed = mixed \cup {} /\ wasOpen = wasOpen \cup {}
          /\ {} \in SUBSET Rows /\ {s} \in SUBSET Rows
      OBVIOUS
    <2> QED
      BY <2>1, <2>2, <2>3 DEF Keyless
  <1>5. ASSUME NEW s \in Rows,
               \/ \E t \in 0..now : FinishAt(s, t)
               \/ \E from \in 0..now, to \in NoTime..now : EditShift(s, from, to)
        PROVE  Keyless
    <2>1. RowsMove
      BY <1>5, FinishAtMoves, EditShiftMoves
    <2>2. Other /\ mixed' = mixed \cup {} /\ wasOpen' = wasOpen \cup {} /\ {} \in SUBSET Rows
      BY <1>5 DEF FinishAt, EditShift
    <2> QED
      BY <2>1, <2>2 DEF Keyless
  <1>6. ASSUME ApproveWeek
        PROVE  Keyless
    <2>1. RowsMove
      BY <1>6, ApproveWeekMoves
    <2>2. Other /\ mixed' = mixed \cup {} /\ wasOpen' = wasOpen \cup {} /\ {} \in SUBSET Rows
      BY <1>6 DEF ApproveWeek
    <2> QED
      BY <2>1, <2>2 DEF Keyless
  <1>7. ClockOuts \subseteq ClockOuts \cup Breaks /\ BreakStarts \subseteq ClockOuts \cup Breaks
        /\ BreakEnds \subseteq ClockOuts \cup Breaks
    BY DEF Breaks
  <1>8. ASSUME NEW S, NEW id \in S, S \subseteq ClockOuts \cup Breaks, Punch(id)
        PROVE  Means
    BY <1>8 DEF Means
  <1>9. CASE \E id \in ClockOuts : ClockOut(id)
    BY <1>1, <1>7, <1>8, <1>9
  <1>10. CASE \E id \in BreakStarts : StartBreak(id)
    BY <1>2, <1>7, <1>8, <1>10
  <1>11. CASE \E id \in BreakEnds : EndBreak(id)
    BY <1>3, <1>7, <1>8, <1>11
  <1>12. CASE ApproveWeek \/ \E s \in Rows :
                    \/ LegacyClockOut(s) \/ LegacyStartBreak(s) \/ LegacyEndBreak(s) \/ ClockOutFor(s)
                    \/ Void(s) \/ Restore(s) \/ Reject(s) \/ CloseAsNoWork(s) \/ Unapprove(s)
                    \/ \E t \in 0..now : FinishAt(s, t)
                    \/ \E from \in 0..now, to \in NoTime..now : EditShift(s, from, to)
    BY <1>4, <1>5, <1>6, <1>12, Zenon DEF Means
  <1> QED
    BY <1>9, <1>10, <1>11, <1>12, Zenon DEF Next, Means

\* What a tap writes.
LEMMA TapWrites ==
    ASSUME CardInv, NEW id \in Ids, NEW ref, Tap(id, ref)
    PROVE  /\ taps[id] = NoTap /\ DOMAIN taps = Ids /\ DOMAIN taps' = Ids
           /\ \A i \in Ids : i # id => taps'[i] = taps[i]
           /\ taps' = [i \in Ids |-> taps'[i]]
           /\ taps'[id] # NoTap /\ taps'[id].at = now /\ taps'[id].nth = Cardinality(Tapped) + 1
           /\ taps'[id].ref = ref /\ taps'[id].secs = (IF id \in ClockOuts THEN PhoneBreak(ref) ELSE 0)
           /\ taps'[id].trusted \in BOOLEAN
           /\ taps'[id] = [at |-> taps'[id].at, nth |-> taps'[id].nth, trusted |-> taps'[id].trusted,
                           ref |-> taps'[id].ref, secs |-> taps'[id].secs]
           /\ UNCHANGED <<now, shifts, ledger, txns, others, mixed, crossed, wasOpen, wasUnended>>
  <1> DEFINE secs == IF id \in ClockOuts THEN PhoneBreak(ref) ELSE 0
             nth == Cardinality(Tapped) + 1
             spare == id \notin Unchecked
  <1>1. PICK trusted \in {TRUE, spare} :
            taps' = [taps EXCEPT ![id] =
                      [at |-> now, nth |-> nth, trusted |-> trusted, ref |-> ref, secs |-> secs]]
    BY Zenon DEF Tap
  <1>2. spare \in BOOLEAN
    OBVIOUS
  <1> HIDE DEF secs, nth, spare
  <1> DEFINE tap == [at |-> now, nth |-> nth, trusted |-> trusted, ref |-> ref, secs |-> secs]
  <1>3. trusted \in BOOLEAN
    BY <1>1, <1>2
  <1>4. now \in Nat /\ taps = [i \in Ids |-> taps[i]]
    BY DEF CardInv, TapsArePast
  <1>5. taps' = [i \in Ids |-> IF i = id THEN tap ELSE taps[i]]
    BY <1>1, <1>4
  <1>6. taps'[id] = tap
    BY <1>5
  <1>7. taps' = [i \in Ids |-> taps'[i]] /\ \A i \in Ids : i # id => taps'[i] = taps[i]
    BY <1>5
  <1>8. tap.at = now /\ tap.nth = nth /\ tap.ref = ref /\ tap.secs = secs /\ tap.trusted \in BOOLEAN
        /\ tap = [at |-> tap.at, nth |-> tap.nth, trusted |-> tap.trusted, ref |-> tap.ref, secs |-> tap.secs]
    BY <1>3
  <1> HIDE DEF tap
  <1>9. tap # NoTap
    BY <1>4, <1>8 DEF NoTap, NoTime
  <1>10. taps[id] = NoTap /\ UNCHANGED <<now, shifts, ledger, txns, others, mixed, crossed, wasOpen, wasUnended>>
    BY Zenon DEF Tap
  <1>11. DOMAIN taps = Ids /\ DOMAIN taps' = Ids
    BY <1>4, <1>7
  <1> QED
    BY <1>6, <1>7, <1>8, <1>9, <1>10, <1>11 DEF secs, nth

\* Taps and clock-ins under way.
LEMMA TapsKept ==
    ASSUME CardInv, [Next]_vars
    PROVE  TapsArePast'
  <1>1. CASE UNCHANGED <<now, taps>> /\ txns' \subseteq txns
    BY <1>1 DEF CardInv, TapsArePast
  <1>2. CASE Tick
    <2>1. now \in Nat /\ now' = now + 1 /\ UNCHANGED <<taps, txns>>
      BY <1>2 DEF Tick, CardInv
    <2> QED
      BY <2>1 DEF CardInv, TapsArePast
  <1>3. ASSUME NEW id \in Ids, NEW ref, Tap(id, ref)
        PROVE  TapsArePast'
    <2>1. /\ \A i \in Ids : i # id => taps'[i] = taps[i]
          /\ taps' = [i \in Ids |-> taps'[i]] /\ taps'[id] # NoTap /\ taps'[id].at = now
          /\ taps'[id].secs = (IF id \in ClockOuts THEN PhoneBreak(ref) ELSE 0) /\ UNCHANGED <<now, txns>>
      BY <1>3, TapWrites
    <2>2. PhoneBreak(ref) \in Nat /\ now \in Nat
      BY PhoneCounts DEF CardInv
    <2>3. taps'[id].secs \in Nat /\ taps'[id].at \in 0..now
      BY <2>1, <2>2
    <2>4. \A i \in Ids : taps'[i].secs \in Nat /\ (taps'[i] # NoTap => taps'[i].at \in 0..now)
      BY <2>1, <2>3 DEF CardInv, TapsArePast
    <2>5. \A x \in txns : x.kind = "keyed" => x.id \in Ids /\ taps'[x.id] # NoTap
      BY <2>1 DEF CardInv, TapsArePast
    <2> QED
      BY <2>1, <2>4, <2>5 DEF TapsArePast
  <1>4. ASSUME NEW kind, NEW id, BeginClockIn(kind, id), kind = "keyed" => id \in Ids
        PROVE  TapsArePast'
    <2>1. txns' = txns \cup {[kind |-> kind, id |-> id, seen |-> OpenShifts, there |-> Rows]}
          /\ UNCHANGED <<now, taps>> /\ (kind = "keyed" => taps[id] # NoTap)
      BY <1>4 DEF BeginClockIn, Arrives
    <2> QED
      BY <1>4, <2>1 DEF CardInv, TapsArePast
  <1>5. \A id \in ClockIns : id \in Ids
    BY DEF Ids
  <1>6. ASSUME NEW id \in ClockIns, BeginClockIn("keyed", id)
        PROVE  TapsArePast'
    BY <1>4, <1>5, <1>6
  <1>7. ASSUME NEW kind \in {"legacy", "roster"}, BeginClockIn(kind, NoShift)
        PROVE  TapsArePast'
    BY <1>4, <1>7
  <1>8. ASSUME NEW x \in txns, CommitClockIn(x)
        PROVE  UNCHANGED <<now, taps>> /\ txns' \subseteq txns
    BY <1>8, Zenon DEF CommitClockIn
  <1>9. ASSUME NEW id, Punch(id)
        PROVE  UNCHANGED <<now, taps>> /\ txns' \subseteq txns
    BY <1>9 DEF Punch
  <1>10. Keyless => UNCHANGED <<now, taps>> /\ txns' \subseteq txns
    BY DEF Keyless, Other
  <1>11. UNCHANGED vars => UNCHANGED <<now, taps>> /\ txns' \subseteq txns
    BY DEF vars
  <1> QED
    BY <1>1, <1>2, <1>3, <1>6, <1>7, <1>8, <1>9, <1>10, <1>11, StepMeans, Zenon DEF Means

\* The rows that are there move as rows may in every step, and the others are
\* the one a clock-in has just opened.
LEMMA EveryRow ==
    ASSUME CardInv, [Next]_vars, NEW s \in Rows
    PROVE  RowStep(s, shifts'[s])
  <1>1. UNCHANGED shifts => RowStep(s, shifts'[s])
    BY RowStays, QuietSteps DEF CardInv
  <1>2. ASSUME NEW x \in txns, CommitClockIn(x)
        PROVE  RowStep(s, shifts'[s])
    <2>1. shifts'[s] = CloseDangling(x.seen)[s]
      BY <1>2, CommitRows
    <2> QED
      BY <2>1, DanglingMoves, QuietSteps
  <1>3. RowsMove => RowStep(s, shifts'[s])
    BY DEF RowsMove
  <1>4. Tick \/ UNCHANGED vars => UNCHANGED shifts
    BY DEF Tick, vars
  <1>5. ASSUME NEW id, NEW ref, Tap(id, ref) PROVE UNCHANGED shifts
    BY <1>5 DEF Tap
  <1>6. ASSUME NEW kind, NEW id, BeginClockIn(kind, id) PROVE UNCHANGED shifts
    BY <1>6 DEF BeginClockIn
  <1>7. ASSUME NEW id, Punch(id) PROVE RowsMove
    BY <1>7 DEF Punch
  <1>8. Keyless => RowsMove
    BY DEF Keyless
  <1> QED
    BY <1>1, <1>2, <1>3, <1>4, <1>5, <1>6, <1>7, <1>8, StepMeans, Zenon DEF Means

\* Every step keeps the rows it found, or a clock-in adds one.
LEMMA RowsAfter ==
    ASSUME CardInv, [Next]_vars
    PROVE  /\ IsCard(shifts)'
           /\ \/ DOMAIN shifts' = Rows
              \/ \E x \in txns : CommitClockIn(x)
  <1>1. UNCHANGED shifts => IsCard(shifts)' /\ DOMAIN shifts' = Rows
    BY DEF CardInv, IsCard, Rows
  <1>2. RowsMove => IsCard(shifts)' /\ DOMAIN shifts' = Rows
    BY DEF RowsMove
  <1>3. ASSUME NEW x \in txns, CommitClockIn(x)
        PROVE  IsCard(shifts)'
    BY <1>3, CommitRows
  <1>4. Tick \/ UNCHANGED vars => UNCHANGED shifts
    BY DEF Tick, vars
  <1>5. ASSUME NEW id, NEW ref, Tap(id, ref) PROVE UNCHANGED shifts
    BY <1>5 DEF Tap
  <1>6. ASSUME NEW kind, NEW id, BeginClockIn(kind, id) PROVE UNCHANGED shifts
    BY <1>6 DEF BeginClockIn
  <1>7. ASSUME NEW id, Punch(id) PROVE RowsMove
    BY <1>7 DEF Punch
  <1>8. Keyless => RowsMove
    BY DEF Keyless
  <1> QED
    BY <1>1, <1>2, <1>3, <1>4, <1>5, <1>6, <1>7, <1>8, StepMeans, Zenon DEF Means

LEMMA RowsGrow ==
    ASSUME CardInv, [Next]_vars
    PROVE  Rows \subseteq Rows' /\ Rows' \subseteq Nat
  <1>1. ASSUME NEW x \in txns, CommitClockIn(x)
        PROVE  Rows \subseteq Rows'
    <2>1. PICK n \in Nat : Rows = 1..n /\ DOMAIN shifts' = 1..(n + 1)
      BY <1>1, CommitRows
    <2> QED
      BY <2>1 DEF Rows
  <1>2. Rows' \subseteq Nat
    BY RowsAfter DEF IsCard, Rows
  <1> QED
    BY <1>1, <1>2, RowsAfter DEF Rows

LEMMA NowAfter ==
    ASSUME CardInv, [Next]_vars
    PROVE  now' = now \/ (now' = now + 1 /\ Tick)
  <1>1. Tick => now' = now + 1
    BY DEF Tick
  <1>2. UNCHANGED vars \/ Keyless => now' = now
    BY DEF vars, Keyless, Other
  <1>3. ASSUME NEW id, NEW ref, Tap(id, ref) PROVE now' = now
    BY <1>3 DEF Tap
  <1>4. ASSUME NEW kind, NEW id, BeginClockIn(kind, id) PROVE now' = now
    BY <1>4 DEF BeginClockIn
  <1>5. ASSUME NEW id, Punch(id) PROVE now' = now
    BY <1>5 DEF Punch
  <1>6. ASSUME NEW x \in txns, CommitClockIn(x) PROVE now' = now
    BY <1>6, CommitRows
  <1> QED
    BY <1>1, <1>2, <1>3, <1>4, <1>5, <1>6, StepMeans, Zenon DEF Means

LEMMA CardKept ==
    ASSUME CardInv, [Next]_vars
    PROVE  CardInv'
  <1>1. TapsArePast'
    BY TapsKept
  <1>2. now \in Nat /\ now' \in Nat /\ now <= now'
    BY NowAfter DEF CardInv
  <1>3. ASSUME NEW s \in Rows'
        PROVE  GoodRow(shifts'[s])
    <2>1. s \in Rows => GoodRow(shifts'[s])
      BY EveryRow DEF RowStep, MayBecome, WroteOff
    <2>2. ASSUME NEW x \in txns, CommitClockIn(x)
          PROVE  GoodRow(shifts'[s])
      <3>1. PICK n \in Nat : Rows = 1..n /\ DOMAIN shifts' = 1..(n + 1) /\ Fresh(shifts'[n + 1])
        BY <2>2, CommitRows
      <3>2. s \in 1..(n + 1)
        BY <3>1 DEF Rows
      <3>3. s \in Rows \/ s = n + 1
        BY <3>1, <3>2
      <3> QED
        BY <2>1, <3>1, <3>3 DEF Fresh
    <2> QED
      BY <2>1, <2>2, RowsAfter DEF Rows
  <1>4. \A s \in Rows' : GoodRow(shifts[s])'
    <2> TAKE s \in Rows'
    <2>1. GoodRow(shifts'[s])
      BY <1>3
    <2> QED
      BY <1>2, <2>1 DEF GoodRow, Row, Settled, Fits, Counted, NoTime
  <1> QED
    BY <1>1, <1>2, <1>4, RowsAfter DEF CardInv

LEMMA CardStarts == Init => CardInv
  <1> SUFFICES ASSUME Init PROVE CardInv
    OBVIOUS
  <1>1. now = 0 /\ shifts = <<>> /\ Rows = {} /\ txns = {} /\ taps = [id \in Ids |-> NoTap]
    BY DEF Init, Rows
  <1>2. 0 \in Nat /\ shifts = [s \in 1..0 |-> shifts[s]]
    BY <1>1
  <1>3. IsCard(shifts)
    BY <1>2 DEF IsCard
  <1>4. NoTap.secs \in Nat
    BY DEF NoTap
  <1>5. TapsArePast
    BY <1>1, <1>4 DEF TapsArePast
  <1> QED
    BY <1>1, <1>3, <1>5 DEF CardInv

LEMMA CardHolds == Spec => []CardInv
  BY CardStarts, CardKept, PTL DEF Spec

\* AN APPROVED TIME STANDS, for any number of shifts and phones, and whatever
\* arrives late or twice: no RPC writes the times of a row that stays approved,
\* but the close as no work that looked before it had a finish.
THEOREM ApprovedHolds == Spec => ApprovedTimeStands
  <1>1. ASSUME CardInv, [Next]_vars
        PROVE  [\A s \in Rows : shifts[s].status = "approved" /\ shifts'[s].status = "approved"
                                /\ shifts[s].brk = NoTime =>
                   \/ /\ shifts'[s].in = shifts[s].in /\ shifts'[s].out = shifts[s].out
                      /\ shifts'[s].secs = shifts[s].secs
                   \/ s \in wasUnended /\ WrittenOff(s)]_vars
    BY <1>1, EveryRow DEF RowStep, MayBecome, WroteOff, WrittenOff
  <1> QED
    BY <1>1, CardHolds, PTL DEF Spec, ApprovedTimeStands

----------------------------------------------------------------------------
(* Hours.                                                                  *)

\* Of two rows no hand has touched, whose clock-ins did not run at once, the
\* first had its end before the second's start; and a clock-in under way has seen
\* every such row that was there and is still open.
Untouched(s) == ~shifts[s].byHand
SeenOpen ==
    \A x \in txns : /\ x.there \subseteq Rows
                    /\ \A s \in x.there : Untouched(s) /\ IsOpen(s) => s \in x.seen
InOrder ==
    \A s, t \in Rows :
        s < t /\ <<s, t>> \notin crossed /\ Untouched(s) /\ Untouched(t) /\ Counts(s) /\ Counts(t)
        => shifts[s].out # NoTime /\ shifts[s].out <= shifts[t].in

HoursInv == CardInv /\ SeenOpen /\ InOrder

\* What a step leaves untouched was so before it; open, it was open, and if it
\* counts and was not open, it counted and ended when it does.
LEMMA UntouchedRow ==
    ASSUME CardInv, [Next]_vars, NEW s \in Rows, Untouched(s)'
    PROVE  /\ Untouched(s) /\ shifts'[s].in = shifts[s].in
           /\ IsOpen(s)' => IsOpen(s)
           /\ Counts(s)' => Counts(s) /\ (~IsOpen(s) => shifts'[s].out = shifts[s].out)
  <1>1. RowStep(s, shifts'[s]) /\ ~shifts'[s].byHand
    BY EveryRow DEF Untouched
  <1>2. MayBecome(shifts[s], shifts'[s])
    BY <1>1 DEF RowStep, WroteOff
  <1> QED
    BY <1>1, <1>2 DEF MayBecome, Untouched, IsOpen, Open, Counts, Counted

LEMMA TxnsAfter ==
    ASSUME CardInv, [Next]_vars
    PROVE  \/ txns' \subseteq txns
           \/ UNCHANGED shifts /\ \E kind, id :
                 txns' = txns \cup {[kind |-> kind, id |-> id, seen |-> OpenShifts, there |-> Rows]}
  <1>1. Tick \/ UNCHANGED vars \/ Keyless => txns' \subseteq txns
    BY DEF Tick, vars, Keyless, Other
  <1>2. ASSUME NEW id, NEW ref, Tap(id, ref) PROVE txns' \subseteq txns
    BY <1>2 DEF Tap
  <1>3. ASSUME NEW id, Punch(id) PROVE txns' \subseteq txns
    BY <1>3 DEF Punch
  <1>4. ASSUME NEW x \in txns, CommitClockIn(x) PROVE txns' \subseteq txns
    BY <1>4, CommitRows
  <1>5. ASSUME NEW kind, NEW id, BeginClockIn(kind, id)
        PROVE  UNCHANGED shifts /\ \E k, i :
                 txns' = txns \cup {[kind |-> k, id |-> i, seen |-> OpenShifts, there |-> Rows]}
    BY <1>5, Zenon DEF BeginClockIn
  <1> QED
    BY <1>1, <1>2, <1>3, <1>4, <1>5, StepMeans, Zenon DEF Means

LEMMA CrossedAfter ==
    ASSUME CardInv, [Next]_vars
    PROVE  UNCHANGED crossed \/ \E x \in txns : CommitClockIn(x)
  <1>1. Tick \/ UNCHANGED vars \/ Keyless => UNCHANGED crossed
    BY DEF Tick, vars, Keyless, Other
  <1>2. ASSUME NEW kind, NEW id, BeginClockIn(kind, id) PROVE UNCHANGED crossed
    BY <1>2 DEF BeginClockIn
  <1>3. ASSUME NEW id, NEW ref, Tap(id, ref) PROVE UNCHANGED crossed
    BY <1>3 DEF Tap
  <1>4. ASSUME NEW id, Punch(id) PROVE UNCHANGED crossed
    BY <1>4 DEF Punch
  <1> QED
    BY <1>1, <1>2, <1>3, <1>4, StepMeans, Zenon DEF Means

LEMMA SeenOpenKept ==
    ASSUME HoursInv, [Next]_vars
    PROVE  SeenOpen'
  <1>1. CardInv /\ SeenOpen
    BY DEF HoursInv
  <1>2. ASSUME NEW x \in txns
        PROVE  /\ x.there \subseteq Rows'
               /\ \A s \in x.there : Untouched(s)' /\ IsOpen(s)' => s \in x.seen
    BY <1>1, RowsGrow, UntouchedRow DEF SeenOpen
  <1>3. CASE txns' \subseteq txns
    BY <1>2, <1>3 DEF SeenOpen
  <1>4. ASSUME NEW kind, NEW id, UNCHANGED shifts,
               txns' = txns \cup {[kind |-> kind, id |-> id, seen |-> OpenShifts, there |-> Rows]}
        PROVE  SeenOpen'
    <2> DEFINE begun == [kind |-> kind, id |-> id, seen |-> OpenShifts, there |-> Rows]
    <2>1. begun.there = Rows /\ begun.seen = OpenShifts /\ txns' = txns \cup {begun}
      BY <1>4
    <2> HIDE DEF begun
    <2>2. begun.there \subseteq Rows' /\ \A s \in begun.there : IsOpen(s)' => s \in begun.seen
      BY <1>4, <2>1 DEF OpenShifts, IsOpen, Rows
    <2> QED
      BY <1>2, <2>1, <2>2 DEF SeenOpen
  <1> QED
    BY <1>1, <1>3, <1>4, TxnsAfter

\* The new row starts where every row that was there has ended.
LEMMA CommitOrder ==
    ASSUME HoursInv, [Next]_vars, NEW x \in txns, CommitClockIn(x), NEW s \in Rows, NEW t \in Rows' \ Rows,
           <<s, t>> \notin crossed', Untouched(s)', Counts(s)'
    PROVE  shifts'[s].out # NoTime /\ shifts'[s].out <= shifts'[t].in
  <1>1. CardInv /\ SeenOpen
    BY DEF HoursInv
  <1>2. PICK n \in Nat :
           /\ Rows = 1..n /\ DOMAIN shifts' = 1..(n + 1)
           /\ \A i \in Rows : shifts'[i] = CloseDangling(x.seen)[i]
           /\ \A i \in Rows : shifts'[i].status # "voided" => shifts'[i].out <= shifts'[n + 1].in
           /\ crossed' = crossed \cup Crossings(x, n + 1)
    BY <1>1, CommitRows
  <1>3. t = n + 1
    BY <1>2 DEF Rows
  <1>4. s \in x.there
    BY <1>2, <1>3 DEF Crossings
  <1>5. s \in x.seen => ~IsOpen(s)'
    BY <1>1, <1>2, DanglingMoves DEF IsOpen, Open
  <1>6. ~IsOpen(s)'
    BY <1>1, <1>4, <1>5, UntouchedRow DEF SeenOpen
  <1>7. GoodRow(shifts'[s])
    BY <1>1, EveryRow DEF RowStep, MayBecome, WroteOff
  <1>8. shifts'[s].out # NoTime /\ shifts'[s].status # "voided"
    BY <1>6, <1>7 DEF GoodRow, Settled, Counts, IsOpen, Untouched
  <1> QED
    BY <1>2, <1>3, <1>8

LEMMA InOrderKept ==
    ASSUME HoursInv, [Next]_vars
    PROVE  InOrder'
  <1>1. CardInv /\ InOrder
    BY DEF HoursInv
  <1>2. crossed \subseteq crossed'
    BY <1>1, CrossedAfter, CommitRows
  <1> SUFFICES ASSUME NEW s \in Rows', NEW t \in Rows', s < t, <<s, t>> \notin crossed',
                      Untouched(s)', Untouched(t)', Counts(s)', Counts(t)'
               PROVE  shifts'[s].out # NoTime /\ shifts'[s].out <= shifts'[t].in
    BY DEF InOrder
  <1>3. CASE s \in Rows /\ t \in Rows
    <2>1. /\ Untouched(s) /\ Untouched(t) /\ Counts(s) /\ Counts(t) /\ shifts'[t].in = shifts[t].in
          /\ ~IsOpen(s) => shifts'[s].out = shifts[s].out
      BY <1>1, <1>3, UntouchedRow
    <2>2. shifts[s].out # NoTime /\ shifts[s].out <= shifts[t].in
      BY <1>1, <1>2, <1>3, <2>1 DEF InOrder
    <2> QED
      BY <2>1, <2>2 DEF IsOpen
  <1>4. ASSUME NEW x \in txns, CommitClockIn(x)
        PROVE  s \in Rows /\ (t \notin Rows => t \in Rows' \ Rows)
    <2>1. PICK n \in Nat : Rows = 1..n /\ DOMAIN shifts' = 1..(n + 1)
      BY <1>1, <1>4, CommitRows
    <2>2. s \in 1..(n + 1) /\ t \in 1..(n + 1)
      BY <2>1 DEF Rows
    <2> QED
      BY <2>1, <2>2
  <1>5. CASE t \notin Rows
    <2>1. PICK x \in txns : CommitClockIn(x)
      BY <1>1, <1>5, RowsAfter DEF Rows
    <2> QED
      BY <1>4, <1>5, <2>1, CommitOrder
  <1>6. CASE s \notin Rows
    <2>1. PICK x \in txns : CommitClockIn(x)
      BY <1>1, <1>6, RowsAfter DEF Rows
    <2> QED
      BY <1>4, <1>6, <2>1
  <1> QED
    BY <1>3, <1>5, <1>6

LEMMA HoursStart == Init => HoursInv
  <1> SUFFICES ASSUME Init PROVE HoursInv
    OBVIOUS
  <1>1. Rows = {} /\ txns = {}
    BY DEF Init, Rows
  <1> QED
    BY <1>1, CardStarts DEF HoursInv, SeenOpen, InOrder

\* NO HOUR IS PAID TWICE, for any number of shifts, phones, late and repeated
\* punches and clock-ins at once, but for the pairs of shifts whose own two
\* clock-ins ran at once.  (What those do is what OneActivePunch is about.)
THEOREM HoursHold == Spec => []NoHourPaidTwice
  <1>1. HoursInv => NoHourPaidTwice
    BY DEF HoursInv, InOrder, Untouched, NoHourPaidTwice, EndOf
  <1>2. HoursInv /\ [Next]_vars => HoursInv'
    BY CardKept, SeenOpenKept, InOrderKept DEF HoursInv
  <1> QED
    BY <1>1, <1>2, HoursStart, PTL DEF Spec

----------------------------------------------------------------------------
(* Whether the punches of a shift fit: what is still on the phones.        *)

\* The taps are numbered in the order of their times.
TapsInOrder ==
    /\ \A id \in Tapped : taps[id].nth \in 1..Cardinality(Tapped)
    /\ \A k \in 1..Cardinality(Tapped) : \E id \in Ids : taps[id].nth = k
    /\ \A i, j \in Tapped : taps[i].nth <= taps[j].nth => taps[i].at <= taps[j].at

\* A punch names a row or a clock-in tapped before it, and a clock-in under way
\* has not landed yet.
RefsKnown ==
    /\ ledger = [id \in Ids |-> ledger[id]]
    /\ \A id \in Ids : ledger[id] \in Rows \cup {NoShift}
    /\ \A id \in Ids : taps[id].ref \in Rows \cup ClockIns \cup {NoShift}
    /\ \A id \in Tapped \ ClockIns : taps[id].ref # NoShift
    /\ \A id \in Tapped : taps[id].ref \in ClockIns =>
          taps[id].ref \in Tapped /\ taps[taps[id].ref].at <= taps[id].at
    /\ \A x, y \in txns : x.kind = "keyed" =>
          x.id \in ClockIns /\ ledger[x.id] = NoShift /\ (y.kind = "keyed" => x = y)

Waits(id) == id \in Tapped /\ ledger[id] = NoShift
Seat(id) == Landed(taps[id].ref)
\* A row whose punches come from one phone, in the order of their taps.
Plain(s) == s \in Rows /\ s \notin mixed

\* A break punch still to be sent was tapped after the row's last punch.
FloorInv ==
    \A id \in Breaks : Waits(id) /\ Plain(Seat(id)) /\ Live(shifts[Seat(id)])
                       => LastPunch(Seat(id)) <= taps[id].at

\* The total a clock-out carries is no longer than the shift it closes.
TotalsInv ==
    \A id \in ClockOuts : Waits(id) =>
        /\ Plain(Seat(id)) /\ Live(shifts[Seat(id)]) =>
              shifts[Seat(id)].in + taps[id].secs <= taps[id].at
        /\ Seat(id) \in ClockIns => taps[Seat(id)].at + taps[id].secs <= taps[id].at

TallyRows == \A s \in Rows : Plain(s) => Tally(shifts[s])

PunchInv == CardInv /\ TapsInOrder /\ RefsKnown /\ FloorInv /\ TotalsInv /\ TallyRows

LEMMA NumberedTaps ==
    ASSUME CardInv
    PROVE  /\ IsFiniteSet(Tapped) /\ Cardinality(Tapped) \in Nat /\ Tapped \subseteq Ids
           /\ \A id \in Tapped : taps[id] # NoTap /\ taps[id].at \in 0..now /\ taps[id].at \in Nat
           /\ now \in Nat
  <1>1. IsFiniteSet(Tapped) /\ Tapped \subseteq Ids
    BY ClockIds, FS_Subset DEF Tapped, Ids
  <1>2. Cardinality(Tapped) \in Nat
    BY <1>1, FS_CardinalityType
  <1> QED
    BY <1>1, <1>2 DEF Tapped, CardInv, TapsArePast

\* A clock-in that has not landed is no row.
LEMMA InsAreNoRows ==
    ASSUME CardInv
    PROVE  Rows \subseteq Nat /\ \A ref \in ClockIns : ref \notin Rows /\ ref # NoShift
  BY ClockIds DEF CardInv, IsCard, Rows

\* What a view may hold when a later tap, or the clock, says b.
FitsBy(view, i, b) ==
    IF view.brk = NoTime THEN i + view.secs <= b
    ELSE i + view.secs <= view.brk /\ view.brk <= b

LEMMA ApplyFits ==
    ASSUME CardInv, NEW view \in [brk : NoTime..now, secs : Nat], NEW i \in Nat,
           NEW id \in Tapped, FitsBy(view, i, taps[id].at),
           NEW b \in Nat, taps[id].at <= b, FitsBy(view, i, b)
    PROVE  FitsBy(ApplyQueued(view, id), i, b)
  <1>1. taps[id].at \in Nat /\ now \in Nat /\ view.brk \in NoTime..now /\ view.secs \in Nat
    BY NumberedTaps
  <1>2. CASE id \in BreakStarts
    <2> DEFINE t == IF view.brk = NoTime THEN taps[id].at ELSE view.brk
    <2>1. ApplyQueued(view, id) = [view EXCEPT !.brk = t]
      BY <1>2, Zenon DEF ApplyQueued
    <2>2. ApplyQueued(view, id).brk = t /\ ApplyQueued(view, id).secs = view.secs
      BY <2>1
    <2>3. CASE view.brk = NoTime
      BY <1>1, <2>2, <2>3 DEF FitsBy, NoTime
    <2>4. CASE view.brk # NoTime
      BY <1>1, <2>2, <2>4 DEF FitsBy
    <2> QED
      BY <2>3, <2>4
  <1>3. CASE id \notin BreakStarts /\ view.brk = NoTime
    BY <1>3 DEF ApplyQueued
  <1>4. CASE id \notin BreakStarts /\ view.brk # NoTime
    <2>1. ApplyQueued(view, id) = [brk |-> NoTime, secs |-> view.secs + Larger(0, taps[id].at - view.brk)]
      BY <1>4 DEF ApplyQueued
    <2>2. i + view.secs <= view.brk /\ view.brk <= taps[id].at
      BY <1>4 DEF FitsBy
    <2>3. Larger(0, taps[id].at - view.brk) = taps[id].at - view.brk
      BY <1>1, <2>2 DEF Larger, NoTime
    <2> QED
      BY <1>1, <2>1, <2>2, <2>3 DEF FitsBy, NoTime
  <1> QED
    BY <1>2, <1>3, <1>4

\* The breaks a phone shows are no longer than the shift, if what the server
\* knows of them is not and the queued punches come after it.
LEMMA ShownFits ==
    ASSUME CardInv, TapsInOrder, NEW ref, NEW i \in Nat,
           FitsBy(RowsBreaks(ref), i, now),
           \A id \in Queued(ref) : FitsBy(RowsBreaks(ref), i, taps[id].at)
    PROVE  i + PhoneBreak(ref) <= now
  <1> DEFINE View == [brk : NoTime..now, secs : Nat]
             n == Cardinality(Tapped)
             Later(k) == {now} \cup {taps[id].at : id \in {q \in Queued(ref) : taps[q].nth > k}}
             Good(v, k) == v \in View /\ \A b \in Later(k) : FitsBy(v, i, b)
  <1>1. PICK f : /\ n \in Nat /\ Shown(ref) = f[n] /\ f[0] = RowsBreaks(ref)
                 /\ \A k \in 1..n : f[k] = Then(f[k - 1], ref, k)
    BY ShownIs
  <1>2. now \in Nat /\ Queued(ref) \subseteq Tapped /\ Queued(ref) \subseteq Breaks
    BY DEF Queued, TappedOn, Tapped, CardInv, Ids, Breaks
  <1>3. RowsBreaks(ref) \in View
    <2>1. Landed(ref) \in Rows => shifts[Landed(ref)] \in Row
      BY DEF CardInv, GoodRow
    <2> QED
      BY <1>2, <2>1 DEF RowsBreaks, NoBreaks, Row, NoTime
  <1>4. Good(f[0], 0)
    BY <1>1, <1>3
  <1>5. ASSUME NEW k \in 1..n, NEW v, Good(v, k - 1)
        PROVE  Good(Then(v, ref, k), k)
    <2> DEFINE id == NthTap(k)
    <2>1. id \in Ids /\ taps[id].nth = k
      <3>1. \E q \in Ids : taps[q].nth = k
        BY DEF TapsInOrder
      <3> QED
        BY <3>1 DEF NthTap
    <2> HIDE DEF id
    <2>2. \A q \in Queued(ref) : taps[q].nth \in Nat /\ taps[q].at \in Nat /\ taps[q].at <= now
      BY <1>1, <1>2, NumberedTaps DEF TapsInOrder
    <2>3. Later(k) \subseteq Later(k - 1)
      BY <2>2
    <2>4. CASE id \notin Queued(ref)
      BY <1>5, <2>3, <2>4 DEF Then, id
    <2>5. CASE id \in Queued(ref)
      <3>1. id \in Tapped /\ taps[id].at \in Later(k - 1) /\ taps[id].at \in Nat /\ taps[id].at \in 0..now
        BY <1>2, <2>1, <2>2, <2>5, NumberedTaps
      <3>2. Then(v, ref, k) = ApplyQueued(v, id)
        BY <2>5 DEF Then, id
      <3>3. \A b \in Later(k) : taps[id].at <= b /\ b \in Nat
        <4>1. taps[id].at <= now
          BY <1>2, <3>1
        <4>2. ASSUME NEW q \in Queued(ref), taps[q].nth > k
              PROVE  taps[id].at <= taps[q].at
          BY <1>2, <2>1, <2>2, <3>1, <4>2 DEF TapsInOrder
        <4> QED
          BY <1>2, <2>2, <4>1, <4>2
      <3>4. ApplyQueued(v, id) \in View
        BY <1>2, <1>5, <3>1 DEF ApplyQueued, NoTime, Larger
      <3>5. \A b \in Later(k) : FitsBy(ApplyQueued(v, id), i, b)
        <4> TAKE b \in Later(k)
        <4> HIDE DEF Later
        <4>1. FitsBy(v, i, taps[id].at) /\ FitsBy(v, i, b) /\ v \in View /\ b \in Nat /\ taps[id].at <= b
          BY <1>5, <2>3, <3>1, <3>3
        <4> QED
          BY <3>1, <4>1, ApplyFits
      <3> QED
        BY <3>2, <3>4, <3>5
    <2> QED
      BY <2>4, <2>5
  <1> DEFINE T == {k \in Nat : k <= n /\ ~Good(f[k], k)}
  <1> HIDE DEF Good, n
  <1>6. T = {}
    <2> SUFFICES ASSUME T # {} PROVE FALSE
      OBVIOUS
    <2>1. PICK m \in T : \A k \in T : m <= k
      BY LeastExists
    <2>2. m # 0
      BY <1>4, <2>1
    <2>3. Good(f[m - 1], m - 1)
      BY <1>1, <2>1, <2>2
    <2> QED
      BY <1>1, <1>5, <2>1, <2>2, <2>3
  <1>7. Shown(ref) \in View /\ FitsBy(Shown(ref), i, now)
    BY <1>1, <1>6 DEF Good
  <1> QED
    BY <1>2, <1>7 DEF PhoneBreak, FitsBy, Larger, NoTime

\* What the server knows of a shift fits, and what the phone has queued of it
\* comes after.
LEMMA TotalOnRow ==
    ASSUME PunchInv, NEW ref, Plain(Landed(ref)), Live(shifts[Landed(ref)])
    PROVE  shifts[Landed(ref)].in + PhoneBreak(ref) <= now
  <1> DEFINE s == Landed(ref)
             r == shifts[s]
  <1>1. CardInv /\ TapsInOrder /\ s \in Rows
    BY DEF PunchInv, Plain
  <1>2. /\ now \in Nat /\ r.in \in 0..now /\ r.brk \in NoTime..now /\ r.secs \in Nat /\ r.last \in NoTime..now
    BY <1>1, KnownRow
  <1>3. r.in + r.secs <= Reach(r)
    <2>1. Tally(r)
      BY <1>1 DEF PunchInv, TallyRows
    <2> QED
      BY <2>1 DEF Tally, Live, Open, Counted
  <1>4. RowsBreaks(ref).brk = r.brk /\ RowsBreaks(ref).secs = r.secs
    BY <1>1 DEF RowsBreaks
  <1>5. \A b \in Nat : LastPunch(s) <= b => FitsBy(RowsBreaks(ref), r.in, b)
    <2> TAKE b \in Nat
    <2> HAVE LastPunch(s) <= b
    <2>1. CASE r.brk = NoTime
      <3>1. LastPunch(s) = Larger(r.in, r.last) /\ Reach(r) = Larger(r.in, r.last)
        BY <1>2, <2>1 DEF LastPunch, Reach, Larger, NoTime
      <3>2. Larger(r.in, r.last) \in Nat
        BY <1>2 DEF Larger
      <3> QED
        BY <1>2, <1>3, <1>4, <2>1, <3>1, <3>2 DEF FitsBy
    <2>2. CASE r.brk # NoTime
      <3>1. r.brk <= LastPunch(s) /\ Reach(r) = r.brk /\ LastPunch(s) \in Nat
        BY <1>2, <2>2 DEF LastPunch, Reach, Larger, NoTime
      <3> QED
        BY <1>2, <1>3, <1>4, <2>2, <3>1 DEF FitsBy, NoTime
    <2> QED
      BY <2>1, <2>2
  <1>6. LastPunch(s) <= now
    BY <1>2 DEF LastPunch, Larger, NoTime
  <1>7. \A id \in Queued(ref) : LastPunch(s) <= taps[id].at /\ taps[id].at \in Nat
    <2> TAKE id \in Queued(ref)
    <2>1. id \in Breaks /\ Waits(id) /\ Seat(id) = s
      BY DEF Queued, TappedOn, Breaks, Waits, Seat, Tapped, Ids
    <2>2. LastPunch(s) <= taps[id].at
      BY <2>1 DEF PunchInv, FloorInv
    <2> QED
      BY <1>1, <2>1, <2>2, NumberedTaps DEF Waits
  <1> QED
    BY <1>1, <1>2, <1>5, <1>6, <1>7, ShownFits

\* A shift the phone made up starts with no break, at its clock-in's tap.
LEMMA TotalOnClockIn ==
    ASSUME PunchInv, NEW ref \in ClockIns, ref \in Tapped, Landed(ref) \in ClockIns
    PROVE  Landed(ref) = ref /\ taps[ref].at + PhoneBreak(ref) <= now
  <1>1. CardInv /\ TapsInOrder /\ RefsKnown
    BY DEF PunchInv
  <1>2. ref \in Ids /\ ledger[ref] \in Rows \cup {NoShift}
    BY <1>1 DEF RefsKnown, Ids
  <1>3. ledger[ref] = NoShift /\ Landed(ref) = ref /\ ref \notin Rows
    BY <1>1, <1>2, InsAreNoRows, ClockIds DEF Landed
  <1>4. RowsBreaks(ref) = [brk |-> NoTime, secs |-> 0]
    BY <1>3 DEF RowsBreaks, NoBreaks
  <1>5. taps[ref].at \in Nat /\ taps[ref].at <= now /\ now \in Nat
    BY <1>1, NumberedTaps
  <1>6. FitsBy(RowsBreaks(ref), taps[ref].at, now)
    BY <1>4, <1>5 DEF FitsBy
  <1>7. \A id \in Queued(ref) : FitsBy(RowsBreaks(ref), taps[ref].at, taps[id].at)
    <2> TAKE id \in Queued(ref)
    <2>1. id \in Tapped /\ Landed(taps[id].ref) = ref
      BY <1>3 DEF Queued, TappedOn, Tapped, Ids
    <2>2. taps[id].ref \in Rows \cup ClockIns \cup {NoShift}
      BY <1>1, <2>1, NumberedTaps DEF RefsKnown
    <2>3. taps[id].ref \in ClockIns => taps[id].ref \in Ids
      BY DEF Ids
    <2>4. taps[id].ref = ref
      BY <1>1, <1>3, <2>1, <2>2, <2>3, InsAreNoRows DEF Landed, RefsKnown
    <2>5. taps[ref].at <= taps[id].at /\ taps[id].at \in Nat
      BY <1>1, <2>1, <2>4, NumberedTaps DEF RefsKnown
    <2> QED
      BY <1>4, <1>5, <2>5 DEF FitsBy
  <1> QED
    BY <1>1, <1>3, <1>5, <1>6, <1>7, ShownFits

----------------------------------------------------------------------------
(* What the steps do to it.                                                *)

LEMMA TapsAfter ==
    ASSUME CardInv, [Next]_vars
    PROVE  \/ UNCHANGED taps
           \/ \E id \in Ids : \E ref \in Rows \cup ClockIns \cup {NoShift} : Tap(id, ref)
  <1>1. Tick \/ UNCHANGED vars \/ Keyless => UNCHANGED taps
    BY DEF Tick, vars, Keyless, Other
  <1>2. ASSUME NEW kind, NEW id, BeginClockIn(kind, id) PROVE UNCHANGED taps
    BY <1>2 DEF BeginClockIn
  <1>3. ASSUME NEW id, Punch(id) PROVE UNCHANGED taps
    BY <1>3 DEF Punch
  <1>4. ASSUME NEW x \in txns, CommitClockIn(x) PROVE UNCHANGED taps
    BY <1>4, CommitRows
  <1> QED
    BY <1>1, <1>2, <1>3, <1>4, StepMeans, Zenon DEF Means

LEMMA LedgerAfter ==
    ASSUME CardInv, [Next]_vars
    PROVE  \/ UNCHANGED ledger
           \/ \E x \in txns : CommitClockIn(x)
           \/ \E id \in ClockOuts \cup Breaks : Punch(id)
  <1>1. Tick \/ UNCHANGED vars \/ Keyless => UNCHANGED ledger
    BY DEF Tick, vars, Keyless, Other
  <1>2. ASSUME NEW kind, NEW id, BeginClockIn(kind, id) PROVE UNCHANGED ledger
    BY <1>2 DEF BeginClockIn
  <1>3. ASSUME NEW id, NEW ref, Tap(id, ref) PROVE UNCHANGED ledger
    BY <1>3 DEF Tap
  <1> QED
    BY <1>1, <1>2, <1>3, StepMeans, Zenon DEF Means

LEMMA MixedGrows ==
    ASSUME CardInv, [Next]_vars
    PROVE  mixed \subseteq mixed'
  <1>1. Tick \/ UNCHANGED vars => UNCHANGED mixed
    BY DEF Tick, vars
  <1>2. Keyless => mixed \subseteq mixed'
    BY DEF Keyless
  <1>3. ASSUME NEW kind, NEW id, BeginClockIn(kind, id) PROVE UNCHANGED mixed
    BY <1>3 DEF BeginClockIn
  <1>4. ASSUME NEW id, NEW ref, Tap(id, ref) PROVE UNCHANGED mixed
    BY <1>4 DEF Tap
  <1>5. ASSUME NEW id, Punch(id) PROVE mixed \subseteq mixed'
    BY <1>5 DEF Punch, NoteOrder
  <1>6. ASSUME NEW x \in txns, CommitClockIn(x) PROVE UNCHANGED mixed
    BY <1>6, CommitRows
  <1>7. UNCHANGED mixed => mixed \subseteq mixed'
    OBVIOUS
  <1> QED
    BY <1>1, <1>2, <1>3, <1>4, <1>5, <1>6, <1>7, StepMeans, Zenon DEF Means

\* A punch in the ledger stays there, and names a row.
LEMMA TargetIsRow ==
    ASSUME CardInv, RefsKnown, NEW id \in Ids, Target(id) # NoShift
    PROVE  Target(id) \in Rows /\ Seat(id) = Target(id)
  <1>1. taps[id].ref \in Rows \cup ClockIns \cup {NoShift}
    BY DEF RefsKnown
  <1>2. taps[id].ref \in ClockIns => ledger[taps[id].ref] \in Rows \cup {NoShift}
    BY DEF RefsKnown, Ids
  <1> QED
    BY <1>1, <1>2, TargetIs DEF Target, Seat

LEMMA LedgerGrows ==
    ASSUME CardInv, RefsKnown, [Next]_vars
    PROVE  /\ ledger' = [id \in Ids |-> ledger'[id]]
           /\ \A id \in Ids : ledger'[id] \in Rows' \cup {NoShift}
           /\ \A id \in Ids : ledger'[id] = NoShift => ledger[id] = NoShift
  <1>1. Rows \subseteq Rows' /\ Rows' \subseteq Nat /\ NoShift \notin Nat
    BY RowsGrow, ClockIds
  <1>2. ledger = [id \in Ids |-> ledger[id]] /\ \A id \in Ids : ledger[id] \in Rows \cup {NoShift}
    BY DEF RefsKnown
  <1>3. CASE UNCHANGED ledger
    BY <1>1, <1>2, <1>3
  <1>4. ASSUME NEW x \in txns, CommitClockIn(x)
        PROVE  /\ ledger' = [id \in Ids |-> ledger'[id]]
               /\ \A id \in Ids : ledger'[id] \in Rows' \cup {NoShift}
               /\ \A id \in Ids : ledger'[id] = NoShift => ledger[id] = NoShift
    <2>1. PICK n \in Nat : /\ DOMAIN shifts' = 1..(n + 1)
                           /\ ledger' = IF x.kind = "keyed" THEN [ledger EXCEPT ![x.id] = n + 1] ELSE ledger
      BY <1>4, CommitRows
    <2>2. n + 1 \in Rows'
      BY <2>1 DEF Rows
    <2>3. CASE x.kind = "keyed"
      <3>1. ledger' = [id \in Ids |-> IF id = x.id THEN n + 1 ELSE ledger[id]]
        BY <1>2, <2>1, <2>3
      <3> QED
        BY <1>1, <1>2, <2>2, <3>1
    <2> QED
      BY <1>3, <2>1, <2>3
  <1>5. ASSUME NEW p \in ClockOuts \cup Breaks, Punch(p)
        PROVE  /\ ledger' = [id \in Ids |-> ledger'[id]]
               /\ \A id \in Ids : ledger'[id] \in Rows' \cup {NoShift}
               /\ \A id \in Ids : ledger'[id] = NoShift => ledger[id] = NoShift
    <2>1. p \in Ids /\ Target(p) # NoShift /\ ledger' = [ledger EXCEPT ![p] = Target(p)]
      BY <1>5 DEF Punch, Ids, Breaks
    <2>2. Target(p) \in Rows
      BY <2>1, TargetIsRow
    <2>3. ledger' = [id \in Ids |-> IF id = p THEN Target(p) ELSE ledger[id]]
      BY <1>2, <2>1
    <2> QED
      BY <1>1, <1>2, <2>1, <2>2, <2>3
  <1> QED
    BY <1>3, <1>4, <1>5, LedgerAfter

\* Where a shift named by a punch lands: it stays, or its clock-in opens a row.
Lands(x, ref) ==
    /\ x.kind = "keyed" /\ ref = x.id /\ Landed(ref) = ref
    /\ Landed(ref)' \in Rows' \ Rows
    /\ Fresh(shifts'[Landed(ref)'])
    /\ ~shifts'[Landed(ref)'].marked => shifts'[Landed(ref)'].in = taps[x.id].at

LEMMA Landing ==
    ASSUME CardInv, RefsKnown, [Next]_vars, NEW ref
    PROVE  \/ Landed(ref)' = Landed(ref)
           \/ \E x \in txns : CommitClockIn(x) /\ Lands(x, ref)
  <1>1. ASSUME ref \notin ClockIns \/ ledger'[ref] = ledger[ref]
        PROVE  Landed(ref)' = Landed(ref)
    BY <1>1 DEF Landed
  <1>2. UNCHANGED ledger => ledger'[ref] = ledger[ref]
    OBVIOUS
  <1>3. ASSUME NEW p \in ClockOuts \cup Breaks, Punch(p), ref \in ClockIns
        PROVE  ledger'[ref] = ledger[ref]
    <2>1. p # ref /\ ref \in Ids
      BY <1>3, ClockIds DEF Breaks, Ids
    <2>2. ledger' = [ledger EXCEPT ![p] = Target(p)] /\ ledger = [id \in Ids |-> ledger[id]]
      BY <1>3 DEF Punch, RefsKnown
    <2> QED
      BY <2>1, <2>2
  <1>4. ASSUME NEW x \in txns, CommitClockIn(x), ref \in ClockIns, ledger'[ref] # ledger[ref]
        PROVE  Lands(x, ref)
    <2>1. PICK n \in Nat :
             /\ Rows = 1..n /\ DOMAIN shifts' = 1..(n + 1)
             /\ Fresh(shifts'[n + 1])
             /\ x.kind = "keyed" /\ ~shifts'[n + 1].marked => shifts'[n + 1].in = taps[x.id].at
             /\ ledger' = IF x.kind = "keyed" THEN [ledger EXCEPT ![x.id] = n + 1] ELSE ledger
      BY <1>4, CommitRows
    <2>2. ledger = [id \in Ids |-> ledger[id]] /\ ref \in Ids
      BY <1>4 DEF RefsKnown, Ids
    <2>3. x.kind = "keyed" /\ ref = x.id
      BY <1>4, <2>1, <2>2
    <2>4. ledger'[ref] = n + 1 /\ ledger[ref] = NoShift
      BY <2>1, <2>2, <2>3 DEF RefsKnown
    <2>5. Landed(ref) = ref /\ Landed(ref)' = n + 1
      BY <1>4, <2>4, ClockIds DEF Landed
    <2>6. n + 1 \in Rows' \ Rows
      BY <2>1 DEF Rows
    <2> QED
      BY <2>1, <2>3, <2>5, <2>6 DEF Lands
  <1> QED
    BY <1>1, <1>2, <1>3, <1>4, LedgerAfter

LEMMA OrderKept ==
    ASSUME CardInv, TapsInOrder, [Next]_vars
    PROVE  TapsInOrder'
  <1>1. CASE UNCHANGED taps
    <2>1. Tapped' = Tapped
      BY <1>1 DEF Tapped
    <2> QED
      BY <1>1, <2>1 DEF TapsInOrder
  <1>2. ASSUME NEW id \in Ids, NEW ref, Tap(id, ref)
        PROVE  TapsInOrder'
    <2> DEFINE n == Cardinality(Tapped)
    <2>1. /\ taps[id] = NoTap /\ \A i \in Ids : i # id => taps'[i] = taps[i]
          /\ taps'[id] # NoTap /\ taps'[id].at = now /\ taps'[id].nth = n + 1
      BY <1>2, TapWrites
    <2>2. Tapped' = Tapped \cup {id} /\ id \notin Tapped
      BY <2>1 DEF Tapped
    <2>3. IsFiniteSet(Tapped) /\ n \in Nat /\ Tapped \subseteq Ids
          /\ \A i \in Tapped : taps[i].at \in Nat /\ taps[i].at <= now
      BY NumberedTaps
    <2>4. Cardinality(Tapped') = n + 1
      BY <2>2, <2>3, FS_AddElement
    <2>5. \A i \in Tapped : taps'[i] = taps[i]
      BY <2>1, <2>2, <2>3
    <2>6. now \in Nat
      BY DEF CardInv
    <2>7. \A i \in Tapped : taps[i].nth \in 1..n
      BY DEF TapsInOrder
    <2> HIDE DEF n
    <2>8. \A i \in Tapped' : taps'[i].nth \in 1..(n + 1)
      BY <2>1, <2>2, <2>3, <2>5, <2>7
    <2>9. \A k \in 1..(n + 1) : \E i \in Ids : taps'[i].nth = k
      <3> TAKE k \in 1..(n + 1)
      <3>1. CASE k = n + 1
        BY <2>1, <3>1
      <3>2. CASE k \in 1..n
        <4>1. PICK i \in Ids : taps[i].nth = k
          BY <3>2 DEF TapsInOrder, n
        <4>2. i # id
          BY <2>1, <3>2, <4>1 DEF NoTap
        <4> QED
          BY <2>1, <4>1, <4>2
      <3> QED
        BY <2>3, <3>1, <3>2
    <2>10. ASSUME NEW i \in Tapped', NEW j \in Tapped', taps'[i].nth <= taps'[j].nth
           PROVE  taps'[i].at <= taps'[j].at
      <3>1. CASE j = id
        BY <2>1, <2>2, <2>3, <2>5, <2>6, <3>1
      <3>2. CASE i = id /\ j # id
        <4>1. j \in Tapped /\ taps'[j].nth \in 1..n
          BY <2>2, <2>5, <2>7, <3>2
        <4> QED
          BY <2>1, <2>3, <2>10, <3>2, <4>1
      <3>3. CASE i # id /\ j # id
        BY <2>2, <2>5, <2>10, <3>3 DEF TapsInOrder
      <3> QED
        BY <3>1, <3>2, <3>3
    <2> QED
      BY <2>4, <2>8, <2>9, <2>10 DEF TapsInOrder
  <1> QED
    BY <1>1, <1>2, TapsAfter

\* A punch is tapped on a row or on a clock-in of the phone's.
LEMMA TapNames ==
    ASSUME CardInv, RefsKnown, NEW id \in Ids,
           NEW ref \in Rows \cup ClockIns \cup {NoShift}, Tap(id, ref)
    PROVE  /\ id \notin ClockIns => ref # NoShift
           /\ ref \in ClockIns => ref \in Tapped /\ taps[ref].at <= now
  <1>1. id \notin ClockIns => ref # NoShift
    BY ClockIds DEF Tap, ShownOpen
  <1>2. ASSUME ref \in ClockIns
        PROVE  ref \in Tapped
    <2>1. ref # NoShift /\ ref \in Ids
      BY <1>2, ClockIds DEF Ids
    <2>2. ShownOpen(ref)
      BY <2>1, Zenon DEF Tap
    <2> QED
      BY <1>2, <2>1, <2>2 DEF ShownOpen, Tapped
  <1> QED
    BY <1>1, <1>2, NumberedTaps

LEMMA RefsKept ==
    ASSUME CardInv, RefsKnown, [Next]_vars
    PROVE  RefsKnown'
  <1>1. /\ ledger' = [id \in Ids |-> ledger'[id]]
        /\ \A id \in Ids : ledger'[id] \in Rows' \cup {NoShift}
    BY LedgerGrows
  <1>2. Rows \subseteq Rows' /\ Rows \subseteq Nat
    BY RowsGrow, InsAreNoRows
  <1> DEFINE Named ==
        /\ \A id \in Ids : taps[id].ref \in Rows \cup ClockIns \cup {NoShift}
        /\ \A id \in Tapped \ ClockIns : taps[id].ref # NoShift
        /\ \A id \in Tapped : taps[id].ref \in ClockIns =>
              taps[id].ref \in Tapped /\ taps[taps[id].ref].at <= taps[id].at
             Under == \A x, y \in txns : x.kind = "keyed" =>
                         x.id \in ClockIns /\ ledger[x.id] = NoShift /\ (y.kind = "keyed" => x = y)
  <1>3. Named /\ Under
    BY DEF RefsKnown
  <1>4. Named'
    <2>1. CASE UNCHANGED taps
      <3>1. Tapped' = Tapped
        BY <2>1 DEF Tapped
      <3> QED
        BY <1>2, <1>3, <2>1, <3>1
    <2>2. ASSUME NEW id \in Ids, NEW ref \in Rows \cup ClockIns \cup {NoShift}, Tap(id, ref)
          PROVE  Named'
      <3>1. /\ taps[id] = NoTap /\ \A i \in Ids : i # id => taps'[i] = taps[i]
            /\ taps'[id] # NoTap /\ taps'[id].at = now /\ taps'[id].ref = ref
        BY <2>2, TapWrites
      <3>2. /\ id \notin ClockIns => ref # NoShift
            /\ ref \in ClockIns => ref \in Tapped /\ taps[ref].at <= now
        BY <2>2, TapNames
      <3>3. Tapped' = Tapped \cup {id} /\ id \notin Tapped /\ \A i \in Tapped : i \in Ids /\ taps'[i] = taps[i]
        BY <3>1 DEF Tapped
      <3>4. \A i \in Ids : taps'[i].ref \in Rows' \cup ClockIns \cup {NoShift}
        BY <1>2, <1>3, <3>1
      <3>5. \A i \in Tapped' \ ClockIns : taps'[i].ref # NoShift
        BY <1>3, <3>1, <3>2, <3>3
      <3>6. \A i \in Tapped' : taps'[i].ref \in ClockIns =>
               taps'[i].ref \in Tapped' /\ taps'[taps'[i].ref].at <= taps'[i].at
        <4> TAKE i \in Tapped'
        <4> HAVE taps'[i].ref \in ClockIns
        <4>1. CASE i = id
          BY <3>1, <3>2, <3>3, <4>1
        <4>2. CASE i \in Tapped
          BY <1>3, <3>3, <4>2
        <4> QED
          BY <3>3, <4>1, <4>2
      <3> QED
        BY <3>4, <3>5, <3>6
    <2> HIDE DEF Named
    <2> QED
      BY <2>1, <2>2, TapsAfter
  <1>5. Under'
    <2>1. CASE UNCHANGED ledger /\ UNCHANGED txns
      BY <1>3, <2>1
    <2>2. ASSUME NEW x \in txns, CommitClockIn(x)
          PROVE  Under'
      <3>1. PICK n \in Nat :
               /\ ledger' = IF x.kind = "keyed" THEN [ledger EXCEPT ![x.id] = n + 1] ELSE ledger
               /\ txns' = txns \ {x}
        BY <2>2, CommitRows
      <3>2. \A y \in txns' : y \in txns /\ y # x
        BY <3>1
      <3>3. CASE x.kind = "keyed"
        BY <1>3, <3>2, <3>3
      <3>4. CASE x.kind # "keyed"
        BY <1>3, <3>1, <3>2, <3>4
      <3> QED
        BY <3>3, <3>4
    <2>3. ASSUME NEW id \in ClockIns, BeginClockIn("keyed", id)
          PROVE  Under'
      <3> DEFINE begun == [kind |-> "keyed", id |-> id, seen |-> OpenShifts, there |-> Rows]
      <3>1. /\ ledger' = ledger /\ ledger[id] = NoShift /\ txns' = txns \cup {begun}
            /\ \A y \in txns : y.kind # "keyed"
        BY <2>3 DEF BeginClockIn, Arrives
      <3>2. begun.kind = "keyed" /\ begun.id = id
        OBVIOUS
      <3> HIDE DEF begun
      <3> QED
        BY <2>3, <3>1, <3>2
    <2>4. ASSUME NEW kind \in {"legacy", "roster"}, BeginClockIn(kind, NoShift)
          PROVE  Under'
      <3> DEFINE begun == [kind |-> kind, id |-> NoShift, seen |-> OpenShifts, there |-> Rows]
      <3>1. ledger' = ledger /\ txns' = txns \cup {begun}
        BY <2>4 DEF BeginClockIn
      <3>2. begun.kind # "keyed"
        OBVIOUS
      <3> HIDE DEF begun
      <3> QED
        BY <1>3, <3>1, <3>2
    <2>5. ASSUME NEW p \in ClockOuts \cup Breaks, Punch(p)
          PROVE  Under'
      <3>1. txns' = txns /\ ledger' = [ledger EXCEPT ![p] = Target(p)] /\ ledger = [i \in Ids |-> ledger[i]]
        BY <2>5 DEF Punch, RefsKnown
      <3>2. \A ref \in ClockIns : ledger'[ref] = ledger[ref]
        <4> TAKE ref \in ClockIns
        <4>1. ref # p /\ ref \in Ids
          BY ClockIds DEF Breaks, Ids
        <4> QED
          BY <3>1, <4>1
      <3> QED
        BY <1>3, <3>1, <3>2
    <2>6. Tick \/ UNCHANGED vars \/ Keyless => UNCHANGED ledger /\ UNCHANGED txns
      BY DEF Tick, vars, Keyless, Other
    <2>7. ASSUME NEW id, NEW ref, Tap(id, ref) PROVE UNCHANGED ledger /\ UNCHANGED txns
      BY <2>7 DEF Tap
    <2> HIDE DEF Under
    <2> QED
      BY <2>1, <2>2, <2>3, <2>4, <2>5, <2>6, <2>7, StepMeans, Zenon DEF Means
  <1> HIDE DEF Named, Under
  <1> QED
    BY <1>1, <1>4, <1>5 DEF RefsKnown, Named, Under

\* A row that still counts on its punches after the step did so before it.
LEMMA LiveRow ==
    ASSUME CardInv, [Next]_vars, NEW s \in Rows, Plain(s)', Live(shifts'[s])
    PROVE  /\ Plain(s) /\ Live(shifts[s]) /\ shifts'[s].in = shifts[s].in
           /\ LastPunch(s)' = LastPunch(s) \/ Punched(s, shifts'[s])
  <1>1. RowStep(s, shifts'[s]) /\ s \notin mixed' /\ mixed \subseteq mixed'
    BY EveryRow, MixedGrows DEF Plain
  <1>2. CASE StillAs(shifts[s], shifts'[s])
    BY <1>1, <1>2 DEF StillAs, Plain, LastPunch
  <1>3. CASE Punched(s, shifts'[s])
    BY <1>1, <1>3 DEF Punched, Plain
  <1> QED
    BY <1>1, <1>2, <1>3 DEF RowStep

\* A punch that waits after the step waited before it, or has just been tapped.
LEMMA WaitedOrTapped ==
    ASSUME CardInv, RefsKnown, [Next]_vars, NEW id \in Ids, Waits(id)'
    PROVE  \/ Waits(id) /\ taps'[id] = taps[id] /\ taps[id].ref \in Rows \cup ClockIns \cup {NoShift}
              /\ Seat(id)' = Landed(taps[id].ref)'
           \/ \E ref \in Rows \cup ClockIns \cup {NoShift} : Tap(id, ref)
  <1>1. ledger[id] = NoShift /\ taps'[id] # NoTap
    BY LedgerGrows DEF Waits, Tapped
  <1>2. ASSUME taps'[id] = taps[id]
        PROVE  Waits(id) /\ Seat(id)' = Landed(taps[id].ref)'
    BY <1>1, <1>2 DEF Waits, Tapped, Seat
  <1>3. ASSUME NEW i \in Ids, NEW ref, Tap(i, ref), i # id
        PROVE  taps'[id] = taps[id]
    BY <1>3, TapWrites
  <1>4. taps[id].ref \in Rows \cup ClockIns \cup {NoShift}
    BY DEF RefsKnown
  <1> QED
    BY <1>2, <1>3, <1>4, TapsAfter

LEMMA FloorKept ==
    ASSUME PunchInv, [Next]_vars
    PROVE  FloorInv'
  <1>1. CardInv /\ TapsInOrder /\ RefsKnown /\ FloorInv
    BY DEF PunchInv
  <1> SUFFICES ASSUME NEW id \in Breaks, Waits(id)', Plain(Seat(id))', Live(shifts[Seat(id)])'
               PROVE  LastPunch(Seat(id))' <= taps'[id].at
    BY DEF FloorInv
  <1>t. PICK t : t = Seat(id)'
    OBVIOUS
  <1>2. id \in Ids /\ t \in Rows' /\ Live(shifts'[t]) /\ t \notin mixed'
    BY <1>t DEF Breaks, Ids, Plain
  <1>3. LastPunch(t)' = Larger(shifts'[t].in, Larger(shifts'[t].brk, shifts'[t].last))
    BY DEF LastPunch
  <1>6. LastPunch(Seat(id))' = Larger(shifts'[t].in, Larger(shifts'[t].brk, shifts'[t].last))
    BY <1>t DEF LastPunch
  <1>4. ASSUME NEW ref \in Rows \cup ClockIns \cup {NoShift}, Tap(id, ref)
        PROVE  LastPunch(t)' <= taps'[id].at
    <2>1. taps'[id].at = now /\ UNCHANGED <<now, shifts>>
      BY <1>1, <1>2, <1>4, TapWrites
    <2>2. t \in Rows
      BY <1>2, <2>1 DEF Rows
    <2>3. LastPunch(t) <= now
      <3>1. now \in Nat /\ shifts[t].in \in 0..now /\ shifts[t].brk \in NoTime..now /\ shifts[t].last \in NoTime..now
        BY <1>1, <2>2, KnownRow
      <3> QED
        BY <3>1 DEF LastPunch, Larger, NoTime
    <2>4. LastPunch(t)' = LastPunch(t)
      BY <1>3, <2>1 DEF LastPunch
    <2> QED
      BY <2>1, <2>3, <2>4
  <1>5. ASSUME Waits(id), taps'[id] = taps[id], t = Landed(taps[id].ref)'
        PROVE  LastPunch(t)' <= taps'[id].at
    <2> DEFINE ref == taps[id].ref
    <2>1. CASE t = Landed(ref) /\ t \in Rows
      <3>1. Plain(t) /\ Live(shifts[t]) /\ (LastPunch(t)' = LastPunch(t) \/ Punched(t, shifts'[t]))
        BY <1>1, <1>2, <2>1, LiveRow DEF Plain
      <3>2. LastPunch(t) <= taps[id].at
        BY <1>1, <1>5, <2>1, <3>1 DEF FloorInv, Seat
      <3>3. ASSUME Punched(t, shifts'[t])
            PROVE  LastPunch(t)' <= taps[id].at
        <4>1. PICK p \in Breaks :
                 /\ Arrives(p) /\ Landed(taps[p].ref) = t /\ ~Overtakes(p) /\ ledger' = [ledger EXCEPT ![p] = t]
                 /\ shifts'[t].in <= taps[p].at
                 /\ shifts'[t].last = taps[p].at /\ shifts'[t].brk \in {NoTime, taps[p].at}
          BY <1>2, <3>3 DEF Punched
        <4>2. id \in Queued(taps[p].ref) /\ id \in Tapped /\ p \in Tapped
          BY <1>2, <1>5, <2>1, <4>1 DEF Queued, TappedOn, Waits, Tapped, Breaks, Arrives, Ids
        <4>3. ~(taps[id].nth < taps[p].nth) /\ taps[id].nth \in Nat /\ taps[p].nth \in Nat
          BY <1>1, <4>1, <4>2, NumberedTaps DEF Overtakes, TapsInOrder
        <4>4. taps[p].at <= taps[id].at /\ taps[p].at \in Nat
          BY <1>1, <4>2, <4>3, NumberedTaps DEF TapsInOrder
        <4>5. LastPunch(t)' = taps[p].at
          <5>1. GoodRow(shifts'[t])
            BY <1>1, <2>1, EveryRow DEF RowStep, MayBecome, WroteOff
          <5>2. shifts'[t].in \in 0..now
            BY <5>1 DEF GoodRow, Row
          <5> QED
            BY <1>1, <1>3, <4>1, <4>4, <5>2, NumberedTaps DEF Larger, NoTime
        <4> QED
          BY <4>4, <4>5
      <3> QED
        BY <1>5, <3>1, <3>2, <3>3
    <2>2. ASSUME NEW x \in txns, Lands(x, ref)
          PROVE  LastPunch(t)' <= taps'[id].at
      <3>1. Fresh(shifts'[t]) /\ (~shifts'[t].marked => shifts'[t].in = taps[x.id].at) /\ ref = x.id /\ x.kind = "keyed"
        BY <1>5, <2>2 DEF Lands
      <3>2. shifts'[t].in = taps[ref].at
        BY <1>2, <3>1 DEF Live
      <3>3. ref \in ClockIns
        BY <1>1, <3>1 DEF RefsKnown
      <3>4. taps[ref].at <= taps[id].at /\ taps[ref].at \in Nat
        BY <1>1, <1>5, <3>3, NumberedTaps DEF RefsKnown, Waits
      <3>5. LastPunch(t)' = shifts'[t].in
        BY <1>3, <3>1, <3>2, <3>4 DEF Fresh, Larger, NoTime
      <3> QED
        BY <1>5, <3>2, <3>4, <3>5
    <2>3. t = Landed(ref) => t \in Rows
      <3>1. ASSUME t = Landed(ref), t \notin Rows
            PROVE  FALSE
        <4>1. ref \in Rows \cup ClockIns \cup {NoShift} /\ t \in Nat
          BY <1>1, <1>2, RowsGrow DEF RefsKnown
        <4>2. ref \in ClockIns => ledger[ref] \in Rows \cup {NoShift}
          BY <1>1 DEF RefsKnown, Ids
        <4> QED
          BY <3>1, <4>1, <4>2, ClockIds DEF Landed
      <3> QED
        BY <3>1
    <2> QED
      BY <1>1, <1>5, <2>1, <2>2, <2>3, Landing
  <1> QED
    BY <1>1, <1>t, <1>2, <1>3, <1>4, <1>5, <1>6, WaitedOrTapped

LEMMA TotalsKept ==
    ASSUME PunchInv, [Next]_vars
    PROVE  TotalsInv'
  <1>1. CardInv /\ TapsInOrder /\ RefsKnown /\ TotalsInv /\ CardInv'
    BY CardKept DEF PunchInv
  <1> SUFFICES ASSUME NEW id \in ClockOuts, Waits(id)'
               PROVE  /\ Plain(Seat(id))' /\ Live(shifts[Seat(id)])' =>
                            shifts'[Seat(id)'].in + taps'[id].secs <= taps'[id].at
                      /\ Seat(id)' \in ClockIns => taps'[Seat(id)'].at + taps'[id].secs <= taps'[id].at
    BY DEF TotalsInv
  <1>t. PICK t : t = Seat(id)'
    OBVIOUS
  <1>2. id \in Ids /\ id \notin ClockIns
    BY ClockIds DEF Ids
  <1>3. ASSUME NEW ref \in Rows \cup ClockIns \cup {NoShift}, Tap(id, ref)
        PROVE  /\ t \in Rows /\ t \notin mixed' /\ Live(shifts'[t]) => shifts'[t].in + taps'[id].secs <= taps'[id].at
               /\ t \in ClockIns => taps'[t].at + taps'[id].secs <= taps'[id].at
    <2>1. /\ taps'[id].at = now /\ taps'[id].ref = ref /\ taps'[id].secs = PhoneBreak(ref)
          /\ \A i \in Ids : i # id => taps'[i] = taps[i]
          /\ UNCHANGED <<now, shifts, ledger, mixed>>
      BY <1>1, <1>2, <1>3, TapWrites
    <2>2. t = Landed(ref)
      BY <1>t, <2>1 DEF Seat, Landed
    <2>3. ASSUME t \in Rows, t \notin mixed', Live(shifts'[t])
          PROVE  shifts'[t].in + taps'[id].secs <= taps'[id].at
      BY <2>1, <2>2, <2>3, TotalOnRow DEF Plain
    <2>4. ASSUME t \in ClockIns
          PROVE  taps'[t].at + taps'[id].secs <= taps'[id].at
      <3>1. ref \in ClockIns
        BY <1>1, <2>2, <2>4, InsAreNoRows DEF Landed
      <3>2. ref \in Tapped
        BY <1>1, <1>2, <1>3, <3>1, TapNames
      <3>3. t = ref /\ taps[ref].at + PhoneBreak(ref) <= now
        BY <2>2, <2>4, <3>1, <3>2, TotalOnClockIn
      <3>4. taps'[t] = taps[t]
        BY <1>2, <2>1, <2>4 DEF Ids
      <3> QED
        BY <2>1, <3>3, <3>4
    <2> QED
      BY <2>3, <2>4
  <1>4. ASSUME Waits(id), taps'[id] = taps[id], t = Landed(taps[id].ref)'
        PROVE  /\ t \in Rows' /\ t \notin mixed' /\ Live(shifts'[t]) => shifts'[t].in + taps'[id].secs <= taps'[id].at
               /\ t \in ClockIns => taps'[t].at + taps'[id].secs <= taps'[id].at
    <2> DEFINE ref == taps[id].ref
    <2>1. CASE t = Landed(ref)
      <3>1. ASSUME t \in Rows', t \notin mixed', Live(shifts'[t])
            PROVE  shifts'[t].in + taps'[id].secs <= taps'[id].at
        <4>1. t \in Rows
          <5>1. ref \in Rows \cup ClockIns \cup {NoShift} /\ t \in Nat
            BY <1>1, <1>2, <3>1, RowsGrow DEF RefsKnown
          <5>2. ref \in ClockIns => ledger[ref] \in Rows \cup {NoShift}
            BY <1>1 DEF RefsKnown, Ids
          <5> QED
            BY <2>1, <5>1, <5>2, ClockIds DEF Landed
        <4>2. Plain(t) /\ Live(shifts[t]) /\ shifts'[t].in = shifts[t].in
          BY <1>1, <3>1, <4>1, LiveRow DEF Plain
        <4> QED
          BY <1>1, <1>4, <2>1, <4>2 DEF TotalsInv, Seat
      <3>2. ASSUME t \in ClockIns
            PROVE  taps'[t].at + taps'[id].secs <= taps'[id].at
        <4>1. taps[t].at + taps[id].secs <= taps[id].at
          BY <1>1, <1>4, <2>1, <3>2 DEF TotalsInv, Seat
        <4>2. ref = t
          <5>1. ref \in ClockIns
            BY <1>1, <1>2, <2>1, <3>2, InsAreNoRows DEF RefsKnown, Landed
          <5>2. ledger[ref] \in Rows \cup {NoShift}
            BY <1>1, <5>1 DEF RefsKnown, Ids
          <5> QED
            BY <1>1, <2>1, <3>2, <5>1, <5>2, InsAreNoRows DEF Landed
        <4>3. t \in Tapped
          BY <1>1, <1>2, <1>4, <3>2, <4>2 DEF RefsKnown, Waits
        <4>4. taps'[t] = taps[t]
          <5>1. ASSUME NEW i \in Ids, NEW any, Tap(i, any)
                PROVE  taps'[t] = taps[t]
            <6>1. i # t /\ t \in Ids
              BY <1>1, <4>3, <5>1, TapWrites, NumberedTaps DEF Tapped
            <6> QED
              BY <1>1, <5>1, <6>1, TapWrites
          <5> QED
            BY <1>1, <5>1, TapsAfter
        <4> QED
          BY <1>4, <4>1, <4>4
      <3> QED
        BY <3>1, <3>2
    <2>2. ASSUME NEW x \in txns, Lands(x, ref)
          PROVE  /\ t \in Rows' /\ t \notin mixed' /\ Live(shifts'[t]) => shifts'[t].in + taps'[id].secs <= taps'[id].at
                 /\ t \in ClockIns => taps'[t].at + taps'[id].secs <= taps'[id].at
      <3>1. /\ x.kind = "keyed" /\ ref = x.id /\ Landed(ref) = ref /\ t \in Rows'
            /\ ~shifts'[t].marked => shifts'[t].in = taps[x.id].at
        BY <1>4, <2>2 DEF Lands
      <3>2. ref \in ClockIns
        BY <1>1, <3>1 DEF RefsKnown
      <3>3. taps[ref].at + taps[id].secs <= taps[id].at
        BY <1>1, <1>4, <3>1, <3>2 DEF TotalsInv, Seat
      <3>4. t \notin ClockIns
        BY <1>1, <3>1, RowsGrow, ClockIds
      <3> QED
        BY <1>4, <3>1, <3>3, <3>4 DEF Live
    <2> QED
      BY <1>1, <1>4, <2>1, <2>2, Landing
  <1>5. /\ t \in Rows' /\ t \notin mixed' /\ Live(shifts'[t]) => shifts'[t].in + taps'[id].secs <= taps'[id].at
        /\ t \in ClockIns => taps'[t].at + taps'[id].secs <= taps'[id].at
    <2>1. ASSUME NEW ref, Tap(id, ref)
          PROVE  Rows' = Rows
      BY <2>1 DEF Tap, Rows
    <2> QED
      BY <1>1, <1>t, <1>2, <1>3, <1>4, <2>1, WaitedOrTapped
  <1> QED
    BY <1>t, <1>5 DEF Plain, Live

LEMMA TallyKept ==
    ASSUME PunchInv, [Next]_vars
    PROVE  TallyRows'
  <1>1. CardInv /\ TallyRows /\ TotalsInv
    BY DEF PunchInv
  <1>2. ASSUME NEW s \in Rows, s \notin mixed'
        PROVE  Tally(shifts'[s])
    <2>1. RowStep(s, shifts'[s]) /\ Plain(s)
      BY <1>1, <1>2, EveryRow, MixedGrows DEF Plain
    <2>2. Tally(shifts[s])
      BY <1>1, <2>1 DEF TallyRows
    <2>3. CASE Counts4Itself(shifts[s], shifts'[s])
      BY <2>2, <2>3 DEF Counts4Itself
    <2>4. CASE Told(s, shifts'[s])
      <3>1. PICK id \in ClockOuts :
              /\ Arrives(id) /\ Landed(taps[id].ref) = s /\ Open(shifts[s])
              /\ shifts'[s].in = shifts[s].in /\ shifts'[s].brk = NoTime /\ shifts'[s].out # NoTime
              /\ shifts'[s].byHand = shifts[s].byHand /\ shifts'[s].auto = shifts[s].auto
              /\ shifts'[s].secs = taps[id].secs
              /\ ~shifts'[s].marked => ~shifts[s].marked /\ shifts'[s].out = taps[id].at
        BY <2>4 DEF Told
      <3>2. Waits(id) /\ Seat(id) = s
        BY <3>1 DEF Waits, Seat, Arrives, Tapped, Ids
      <3>3. Live(shifts[s]) => shifts[s].in + taps[id].secs <= taps[id].at
        BY <1>1, <2>1, <3>2 DEF TotalsInv
      <3> QED
        BY <3>1, <3>3 DEF Tally, Live
    <2> QED
      BY <2>1, <2>3, <2>4 DEF RowStep
  <1>3. ASSUME NEW x \in txns, CommitClockIn(x), NEW s \in Rows', s \notin Rows
        PROVE  Tally(shifts'[s])
    <2>1. PICK n \in Nat : Rows = 1..n /\ DOMAIN shifts' = 1..(n + 1) /\ Fresh(shifts'[n + 1])
      BY <1>1, <1>3, CommitRows
    <2>2. s = n + 1
      BY <1>3, <2>1 DEF Rows
    <2> QED
      BY <1>1, <2>1, <2>2 DEF Fresh, Tally, Open, Reach, Larger, NoTime, CardInv
  <1>4. \A s \in Rows' : s \notin mixed' => Tally(shifts'[s])
    BY <1>1, <1>2, <1>3, RowsAfter DEF Rows
  <1> QED
    BY <1>4 DEF TallyRows, Plain, Tally, Reach

LEMMA PunchKept ==
    ASSUME PunchInv, [Next]_vars
    PROVE  PunchInv'
  BY CardKept, OrderKept, RefsKept, FloorKept, TotalsKept, TallyKept DEF PunchInv

LEMMA PunchStarts == Init => PunchInv
  <1> SUFFICES ASSUME Init PROVE PunchInv
    OBVIOUS
  <1>1. /\ Rows = {} /\ txns = {} /\ Tapped = {} /\ taps = [id \in Ids |-> NoTap]
        /\ ledger = [id \in Ids |-> NoShift]
    BY DEF Init, Rows, Tapped
  <1>2. TapsInOrder
    BY <1>1, FS_EmptySet DEF TapsInOrder
  <1>3. NoTap.ref = NoShift
    BY DEF NoTap
  <1>4. RefsKnown
    BY <1>1, <1>3 DEF RefsKnown
  <1>5. FloorInv /\ TotalsInv /\ TallyRows
    BY <1>1 DEF FloorInv, TotalsInv, TallyRows, Waits
  <1> QED
    BY <1>2, <1>4, <1>5, CardStarts DEF PunchInv

LEMMA PunchHolds == Spec => []PunchInv
  BY PunchStarts, PunchKept, PTL DEF Spec

\* THE PUNCHES OF A SHIFT FIT, for any number of shifts, phones and breaks, and
\* whatever arrives late or never: what the phone shows of a shift, which its
\* clock-out carries, is no longer than the shift as long as the break punches
\* came in the order of their taps.
THEOREM PunchesHold == Spec => []PunchesFit
  <1>1. PunchInv => PunchesFit
    <2> SUFFICES ASSUME PunchInv, NEW s \in Rows, Counts(s), ~shifts[s].byHand
                 PROVE  /\ shifts[s].brk # NoTime => shifts[s].in <= shifts[s].brk
                        /\ shifts[s].in <= EndOf(s)
                        /\ ~shifts[s].marked /\ ~shifts[s].auto /\ s \notin mixed
                              => shifts[s].secs <= EndOf(s) - shifts[s].in
      BY DEF PunchesFit
    <2> DEFINE r == shifts[s]
    <2>1. CardInv /\ TallyRows
      BY DEF PunchInv
    <2>2. /\ now \in Nat /\ GoodRow(r) /\ r.in \in 0..now /\ r.out \in NoTime..now
          /\ r.brk \in NoTime..now /\ r.secs \in Nat /\ r.last \in NoTime..now
      BY <2>1, KnownRow
    <2>3. /\ r.brk # NoTime => r.in <= r.brk
          /\ r.out # NoTime => r.in <= r.out
      BY <2>2 DEF GoodRow, Fits, Counts, Counted
    <2>4. EndOf(s) \in NoTime..now /\ r.in <= EndOf(s)
      BY <2>2, <2>3 DEF EndOf, NoTime
    <2>5. ASSUME ~r.marked, ~r.auto, s \notin mixed
          PROVE  r.in + r.secs <= EndOf(s)
      <3>1. IF r.out = NoTime THEN r.in + r.secs <= Reach(r) ELSE r.in + r.secs <= r.out
        BY <2>1, <2>5 DEF TallyRows, Plain, Tally, Counts, Counted
      <3>2. Reach(r) <= now /\ Reach(r) \in Int
        BY <2>2 DEF Reach, Larger, NoTime
      <3> QED
        BY <2>2, <3>1, <3>2 DEF EndOf
    <2> QED
      BY <2>2, <2>3, <2>4, <2>5 DEF NoTime
  <1> QED
    BY <1>1, PunchHolds, PTL

----------------------------------------------------------------------------
(* Types.                                                                  *)

TapType == [at : Times, nth : Nat, trusted : BOOLEAN, secs : Nat,
            ref : 1..MaxShift \cup ClockIns \cup {NoShift}]

Bounded ==
    /\ now <= Horizon
    /\ Rows \subseteq 1..MaxShift
    /\ \A id \in Ids : taps[id] \in TapType
    /\ \A x \in txns : x.seen \subseteq Rows /\ x.there \subseteq Rows
    /\ others \in 0..MaxOther
    /\ mixed \subseteq Rows /\ wasOpen \subseteq Rows /\ wasUnended \subseteq Rows
    /\ crossed \subseteq Rows \X Rows

LEMMA BoundsAreNat == Horizon \in Nat /\ MaxShift \in Nat /\ MaxOther \in Nat
  BY ClockBounds

LEMMA OthersKept ==
    ASSUME CardInv, RefsKnown, Bounded, [Next]_vars
    PROVE  others' \in 0..MaxOther /\ mixed' \subseteq Rows' /\ now' <= Horizon
  <1>1. Rows \subseteq Rows' /\ now \in Nat
    BY RowsGrow DEF CardInv
  <1>2. others \in 0..MaxOther /\ mixed \subseteq Rows /\ now <= Horizon
    BY DEF Bounded
  <1>3. ASSUME Other PROVE others' \in 0..MaxOther
    BY <1>2, <1>3, BoundsAreNat DEF Other
  <1>4. UNCHANGED vars => UNCHANGED <<others, mixed>>
    BY DEF vars
  <1>5. Tick => UNCHANGED <<others, mixed>>
    BY DEF Tick
  <1>6. Keyless => others' \in 0..MaxOther /\ mixed' \subseteq Rows
    BY <1>2, <1>3 DEF Keyless
  <1>7. ASSUME NEW kind, NEW id, BeginClockIn(kind, id)
        PROVE  others' \in 0..MaxOther /\ mixed' \subseteq Rows
    <2>1. mixed' = mixed /\ (others' = others \/ (others < MaxOther /\ others' = others + 1))
      BY <1>7 DEF BeginClockIn
    <2> QED
      BY <1>2, <2>1, BoundsAreNat
  <1>8. ASSUME NEW id, NEW ref, Tap(id, ref) PROVE UNCHANGED <<others, mixed>>
    BY <1>8 DEF Tap
  <1>9. ASSUME NEW x \in txns, CommitClockIn(x) PROVE UNCHANGED <<others, mixed>>
    BY <1>9, CommitRows
  <1>10. ASSUME NEW id \in ClockOuts \cup Breaks, Punch(id)
         PROVE  others' \in 0..MaxOther /\ mixed' \subseteq Rows
    <2>1. id \in Ids
      BY DEF Ids, Breaks
    <2>2. Target(id) \in Rows
      BY <1>10, <2>1, TargetIsRow DEF Punch
    <2> QED
      BY <1>2, <1>10, <2>2 DEF Punch, NoteOrder
  <1>11. others' \in 0..MaxOther /\ mixed' \subseteq Rows
    BY <1>2, <1>4, <1>5, <1>6, <1>7, <1>8, <1>9, <1>10, StepMeans DEF Means
  <1>12. now' <= Horizon
    BY <1>1, <1>2, BoundsAreNat, NowAfter DEF Tick
  <1> QED
    BY <1>1, <1>11, <1>12

LEMMA RowsBounded ==
    ASSUME CardInv, Bounded, [Next]_vars
    PROVE  Rows' \subseteq 1..MaxShift
  <1>1. ASSUME NEW x \in txns, CommitClockIn(x)
        PROVE  Rows' \subseteq 1..MaxShift
    <2>1. PICK n \in Nat : shifts = [s \in 1..n |-> shifts[s]]
      BY DEF CardInv, IsCard
    <2>2. PICK m \in Nat : Rows = 1..m /\ DOMAIN shifts' = 1..(m + 1)
      BY <1>1, CommitRows
    <2>3. Rows = 1..n /\ shifts \in [1..n -> {shifts[s] : s \in 1..n}]
      BY <2>1 DEF Rows
    <2>4. Len(shifts) = n
      BY <2>3
    <2>5. n < MaxShift
      BY <1>1, <2>4, Zenon DEF CommitClockIn
    <2>6. m = n
      BY <2>2, <2>3
    <2> QED
      BY <2>2, <2>5, <2>6, BoundsAreNat DEF Rows
  <1> QED
    BY <1>1, RowsAfter DEF Bounded, Rows

LEMMA TapsTyped ==
    ASSUME CardInv, Bounded, [Next]_vars
    PROVE  \A id \in Ids : taps'[id] \in TapType
  <1>1. \A id \in Ids : taps[id] \in TapType
    BY DEF Bounded
  <1>2. ASSUME NEW id \in Ids, NEW ref \in Rows \cup ClockIns \cup {NoShift}, Tap(id, ref)
        PROVE  \A i \in Ids : taps'[i] \in TapType
    <2> DEFINE tap == taps'[id]
               secs == IF id \in ClockOuts THEN PhoneBreak(ref) ELSE 0
    <2>1. /\ \A i \in Ids : i # id => taps'[i] = taps[i]
          /\ tap.at = now /\ tap.nth = Cardinality(Tapped) + 1 /\ tap.ref = ref /\ tap.secs = secs
          /\ tap.trusted \in BOOLEAN
          /\ tap = [at |-> tap.at, nth |-> tap.nth, trusted |-> tap.trusted, ref |-> tap.ref, secs |-> tap.secs]
      BY <1>2, TapWrites
    <2>2. secs \in Nat
      BY PhoneCounts
    <2>3. Cardinality(Tapped) \in Nat /\ now \in Nat /\ now <= Horizon /\ Horizon \in Nat
      BY NumberedTaps, BoundsAreNat DEF Bounded
    <2>4. now \in Times
      BY <2>3 DEF Times, NoTime
    <2>5. ref \in 1..MaxShift \cup ClockIns \cup {NoShift}
      BY DEF Bounded
    <2> HIDE DEF tap, secs
    <2>6. tap \in TapType
      BY <2>1, <2>2, <2>3, <2>4, <2>5 DEF TapType
    <2> QED
      BY <1>1, <2>1, <2>6 DEF tap
  <1> QED
    BY <1>1, <1>2, TapsAfter

LEMMA SeenKept ==
    ASSUME CardInv, Bounded, [Next]_vars
    PROVE  \A x \in txns' : x.seen \subseteq Rows' /\ x.there \subseteq Rows'
  <1>1. Rows \subseteq Rows' /\ \A x \in txns : x.seen \subseteq Rows /\ x.there \subseteq Rows
    BY RowsGrow DEF Bounded
  <1>2. CASE txns' \subseteq txns
    BY <1>1, <1>2
  <1>3. ASSUME NEW kind, NEW id,
               txns' = txns \cup {[kind |-> kind, id |-> id, seen |-> OpenShifts, there |-> Rows]}
        PROVE  \A x \in txns' : x.seen \subseteq Rows' /\ x.there \subseteq Rows'
    <2> DEFINE begun == [kind |-> kind, id |-> id, seen |-> OpenShifts, there |-> Rows]
    <2>1. txns' = txns \cup {begun} /\ begun.seen \subseteq Rows /\ begun.there \subseteq Rows
      BY <1>3 DEF OpenShifts
    <2> HIDE DEF begun
    <2> QED
      BY <1>1, <2>1
  <1> QED
    BY <1>2, <1>3, TxnsAfter

\* The rows the histories name are there.
LEMMA HistoryKept ==
    ASSUME CardInv, Bounded, [Next]_vars
    PROVE  wasOpen' \subseteq Rows' /\ wasUnended' \subseteq Rows' /\ crossed' \subseteq Rows' \X Rows'
  <1>1. Rows \subseteq Rows' /\ wasOpen \subseteq Rows /\ wasUnended \subseteq Rows /\ crossed \subseteq Rows \X Rows
    BY RowsGrow DEF Bounded
  <1> DEFINE Within == wasOpen' \subseteq Rows' /\ wasUnended' \subseteq Rows' /\ crossed' \subseteq Rows' \X Rows'
  <1>2. UNCHANGED <<wasOpen, wasUnended, crossed>> => Within
    BY <1>1
  <1>3. Tick => Within
    BY <1>1 DEF Tick, OpenShifts, Unended, Rows
  <1>4. Keyless => Within
    BY <1>1 DEF Keyless, Other
  <1>5. ASSUME NEW x \in txns, CommitClockIn(x)
        PROVE  Within
    <2>1. PICK n \in Nat :
             /\ Rows = 1..n /\ DOMAIN shifts' = 1..(n + 1)
             /\ crossed' = crossed \cup Crossings(x, n + 1)
             /\ wasOpen' = wasOpen \cup {n + 1} /\ wasUnended' = wasUnended \cup {n + 1}
      BY <1>5, CommitRows
    <2>2. n + 1 \in Rows'
      BY <2>1 DEF Rows
    <2> QED
      BY <1>1, <2>1, <2>2 DEF Crossings
  <1>6. UNCHANGED vars => UNCHANGED <<wasOpen, wasUnended, crossed>>
    BY DEF vars
  <1>7. ASSUME NEW kind, NEW id, BeginClockIn(kind, id) PROVE UNCHANGED <<wasOpen, wasUnended, crossed>>
    BY <1>7 DEF BeginClockIn
  <1>8. ASSUME NEW id, NEW ref, Tap(id, ref) PROVE UNCHANGED <<wasOpen, wasUnended, crossed>>
    BY <1>8 DEF Tap
  <1>9. ASSUME NEW id, Punch(id) PROVE UNCHANGED <<wasOpen, wasUnended, crossed>>
    BY <1>9 DEF Punch
  <1> HIDE DEF Within
  <1>10. Within
    BY <1>2, <1>3, <1>4, <1>5, <1>6, <1>7, <1>8, <1>9, StepMeans, Zenon DEF Means
  <1> QED
    BY <1>10 DEF Within

LEMMA BoundedKept ==
    ASSUME CardInv, RefsKnown, Bounded, [Next]_vars
    PROVE  Bounded'
  <1>1. \A id \in Ids : taps'[id] \in TapType
    BY TapsTyped
  <1> QED
    BY <1>1, OthersKept, RowsBounded, SeenKept, HistoryKept DEF Bounded, TapType

LEMMA BoundedStarts == Init => Bounded
  <1> SUFFICES ASSUME Init PROVE Bounded
    OBVIOUS
  <1>1. /\ now = 0 /\ Rows = {} /\ txns = {} /\ mixed = {} /\ others = 0
        /\ wasOpen = {} /\ wasUnended = {} /\ crossed = {}
        /\ taps = [id \in Ids |-> NoTap]
    BY DEF Init, Rows
  <1>2. NoTap \in TapType
    <2>1. NoTime \in Times
      BY BoundsAreNat DEF Times, NoTime
    <2> QED
      BY <2>1 DEF NoTap, TapType
  <1> QED
    BY <1>1, <1>2, BoundsAreNat DEF Bounded

\* What the card, the ledger, the taps and the calls under way are made of.
THEOREM ClockTypes == Spec => []TypeOK
  <1>1. PunchInv /\ Bounded => TypeOK
    <2> SUFFICES ASSUME PunchInv, Bounded PROVE TypeOK
      OBVIOUS
    <2>1. CardInv /\ RefsKnown /\ now \in Nat /\ now <= Horizon /\ Horizon \in Nat
      BY BoundsAreNat DEF PunchInv, Bounded, CardInv
    <2>2. Row \subseteq Shift
      <3>1. 0..now \subseteq 0..Horizon /\ NoTime..now \subseteq Times
        BY <2>1 DEF Times, NoTime
      <3> QED
        BY <3>1 DEF Row, Shift
    <2>3. shifts \in Seq(Shift) /\ Len(shifts) <= MaxShift
      <3>1. PICK n \in Nat : shifts = [s \in 1..n |-> shifts[s]]
        BY <2>1 DEF CardInv, IsCard
      <3>2. Rows = 1..n /\ \A s \in Rows : shifts[s] \in Shift
        BY <2>1, <2>2, <3>1 DEF Rows, CardInv, GoodRow
      <3>3. shifts \in [1..n -> Shift]
        BY <3>1, <3>2
      <3>4. n <= MaxShift
        BY <3>2, BoundsAreNat DEF Bounded
      <3> QED
        BY <3>3, <3>4
    <2>4. ledger \in [Ids -> Rows \cup {NoShift}]
      BY <2>1 DEF RefsKnown
    <2>5. taps \in [Ids -> TapType]
      BY <2>1 DEF CardInv, TapsArePast, Bounded
    <2> QED
      BY <2>1, <2>3, <2>4, <2>5 DEF TypeOK, TapType, Bounded
  <1>2. PunchInv /\ Bounded /\ [Next]_vars => Bounded'
    BY BoundedKept DEF PunchInv
  <1> QED
    BY <1>1, <1>2, PunchHolds, BoundedStarts, PTL DEF Spec

=============================================================================
