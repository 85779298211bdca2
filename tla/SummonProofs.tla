---------------------------- MODULE SummonProofs ----------------------------
(***************************************************************************)
(* What holds of UnitSessions and Summons for any number of people,        *)
(* openings and calls.                                                     *)
(*                                                                         *)
(* The rows of work and the seats are two invariants: no action's guard    *)
(* reads both.                                                             *)
(***************************************************************************)
EXTENDS Summons, FiniteSetTheorems, WellFoundedInduction, TLAPS

\* Each person has a set of open rows.
RowsAreKept == running = [p \in People |-> running[p]]

\* The rows of work, one at a time.
WorkInv ==
    /\ shift \in [People -> {"out", "in", "break", "voided"}]
    /\ RowsAreKept
    /\ OneThingAtATime

\* What OffTheClock asks of a step.
Off == \A p \in People : StaysOff(p)

\* The rows and the shift a step may leave one person with.
May(p, sh, rows) == sh = "out" /\ rows # {} => shift[p] = "out" /\ (running[p] # {} \/ p \in late)

Stages == {"none", "making", "open", "covered", "closed"}
CallRow == [stage : Stages, at : Openings \cup {Nothing}, by : People \cup {Nothing},
            needed : 0..MaxNeeded, old : BOOLEAN]

CallTypes ==
    /\ call \in [Calls -> CallRow]
    /\ help \in [Calls -> [People -> Places]]
    /\ points \in [Calls -> [People -> Int]]

\* The seats of one call: SeatsMatchStatus and PointsFollowSeats of it, and
\* that a call not made yet has nobody on it.
SeatsOf(c) ==
    /\ call[c].stage \in {"none", "making"} => \A p \in People : help[c][p] = "none"
    /\ call[c].stage = "making" => call[c].needed >= 1
    /\ Live(c) => (call[c].stage = "covered" <=> Cardinality(Seated(c)) = call[c].needed)
    /\ Cardinality(Seated(c)) <= call[c].needed
    /\ call[c].stage = "closed" => \A p \in People : help[c][p] # "joined"
    /\ \A p \in People : points[c][p] = IF p \in Seated(c) THEN 10 ELSE 0

SeatInv == CallTypes /\ \A c \in Calls : SeatsOf(c)

----------------------------------------------------------------------------
(* The rows of work.                                                       *)

\* One row, or the rows that were there, is one at a time.
AtMostOne(rows) == \A r, s \in rows : r = s

\* A step that gives one person new rows and another shift.
LEMMA WorkKept ==
    ASSUME WorkInv, NEW p \in People, NEW rows, AtMostOne(rows),
           NEW sh \in {"out", "in", "break", "voided"}, May(p, sh, rows),
           running' = [running EXCEPT ![p] = rows],
           shift' = [shift EXCEPT ![p] = sh]
    PROVE  WorkInv' /\ Off
  <1>1. \A q \in People : running'[q] = IF q = p THEN rows ELSE running[q]
    BY DEF WorkInv, RowsAreKept
  <1>2. RowsAreKept'
    BY DEF WorkInv, RowsAreKept
  <1>3. /\ shift' \in [People -> {"out", "in", "break", "voided"}]
        /\ \A q \in People : shift'[q] = IF q = p THEN sh ELSE shift[q]
    BY DEF WorkInv
  <1>4. OneThingAtATime'
    BY <1>1 DEF WorkInv, OneThingAtATime, AtMostOne
  <1>5. ASSUME NEW q \in People PROVE StaysOff(q)
    <2>1. CASE q = p
      BY <1>1, <1>3, <2>1 DEF May, StaysOff
    <2>2. CASE q # p
      BY <1>1, <1>3, <2>2 DEF StaysOff
    <2> QED
      BY <2>1, <2>2
  <1> QED
    BY <1>2, <1>3, <1>4, <1>5 DEF WorkInv, Off

\* The same where the shift stays.
LEMMA WorkKeptOn ==
    ASSUME WorkInv, NEW p \in People, NEW rows, AtMostOne(rows), May(p, shift[p], rows),
           Work(p, rows), UNCHANGED shift
    PROVE  WorkInv' /\ Off
  <1>1. shift' = [shift EXCEPT ![p] = shift[p]] /\ shift[p] \in {"out", "in", "break", "voided"}
    BY DEF WorkInv
  <1> QED
    BY <1>1, WorkKept DEF Work

\* A step that moves neither.
LEMMA WorkStands ==
    ASSUME WorkInv, UNCHANGED <<shift, running>>
    PROVE  WorkInv' /\ Off
  BY DEF WorkInv, RowsAreKept, OneThingAtATime, Off, StaysOff

\* The rows a person has are one at a time, and so are fewer.
LEMMA FewerKept ==
    ASSUME WorkInv, NEW p \in People, NEW rows, rows \subseteq running[p]
    PROVE  AtMostOne(rows) /\ May(p, shift[p], rows)
  BY DEF WorkInv, OneThingAtATime, AtMostOne, May

LEMMA HandedIsOne ==
    ASSUME NEW rows, NEW at, NEW role
    PROVE  AtMostOne(Handed(rows, at, role))
  BY DEF Handed, AtMostOne

\* Whoever was found on the clock may be given work.
LEMMA FoundMay ==
    ASSUME WorkInv, NEW p \in People, FoundOnTheClock(p), NEW rows
    PROVE  May(p, shift[p], rows)
  BY DEF FoundOnTheClock, OnTheClock, May

LEMMA ChainKept ==
    ASSUME WorkInv, NEW p \in People, NEW rows, rows \subseteq running[p], NEW next,
           AtMostOne(next)
    PROVE  AtMostOne(Chain(p, rows, next)) /\ May(p, shift[p], Chain(p, rows, next))
  <1>1. CASE next = {} \/ ~FoundOnTheClock(p)
    BY <1>1, FewerKept DEF Chain
  <1>2. CASE next # {} /\ FoundOnTheClock(p)
    <2>1. Chain(p, rows, next) = UNION {Handed(rows, o, "install") : o \in next}
      BY <1>2 DEF Chain
    <2>2. PICK o : next = {o}
      BY <1>2 DEF AtMostOne
    <2>3. Chain(p, rows, next) = Handed(rows, o, "install")
      BY <2>1, <2>2
    <2> QED
      BY <2>3, <1>2, HandedIsOne, FoundMay
  <1> QED
    BY <1>1, <1>2

LEMMA ResumedKept ==
    ASSUME WorkInv, NEW p \in People
    PROVE  AtMostOne(Resumed(p))
  <1>1. AtMostOne(running[p])
    BY FewerKept
  <1> QED
    BY <1>1, HandedIsOne DEF Resumed

LEMMA DanglingKept ==
    ASSUME WorkInv, NEW p \in People, NEW overCap \in BOOLEAN
    PROVE  AtMostOne(Dangling(p, overCap))
  <1>1. AtMostOne(running[p]) /\ AtMostOne({}) /\ AtMostOne(Units(running[p]))
    BY FewerKept DEF AtMostOne, Units
  <1>2. shift[p] \in {"out", "in", "break", "voided"}
    BY DEF WorkInv
  <1>3. CASE ~OnTheClock(p)
    BY <1>1, <1>3 DEF Dangling
  <1>4. CASE OnTheClock(p) /\ ~overCap
    BY <1>1, <1>4 DEF Dangling
  <1>5. CASE shift[p] = "break" /\ overCap
    BY <1>5, ResumedKept DEF Dangling, OnTheClock
  <1>6. CASE shift[p] = "in" /\ overCap
    BY <1>1, <1>6 DEF Dangling, OnTheClock
  <1> QED
    BY <1>2, <1>3, <1>4, <1>5, <1>6 DEF OnTheClock

\* A step that takes rows from some people and gives none.
LEMMA StopsKept ==
    ASSUME WorkInv, NEW c, NEW people, Stops(c, people), UNCHANGED shift
    PROVE  WorkInv' /\ Off
  <1>1. \A q \in People : running'[q] \subseteq running[q]
    BY DEF Stops
  <1>2. RowsAreKept'
    BY DEF Stops, RowsAreKept
  <1>3. OneThingAtATime' /\ Off
    BY <1>1 DEF WorkInv, OneThingAtATime, Off, StaysOff
  <1> QED
    BY <1>2, <1>3 DEF WorkInv

\* The RPCs that start and end work.
LEMMA RpcKeepsWork ==
    ASSUME WorkInv, NEW p \in People, NEW o \in Openings,
           NEW next \in {{n} : n \in Openings \ {o}} \cup {{}}, NEW role,
           \/ StartUnit(p, o, role) \/ StartField(p) \/ Reattribute(p, o)
           \/ FinishUnit(p, o, next) \/ BlockUnit(p, o, next) \/ PressRedo(o)
    PROVE  WorkInv' /\ Off
  <1>1. CASE StartUnit(p, o, role)
    <2>1. AtMostOne(Handed(running[p], o, role)) /\ May(p, shift[p], Handed(running[p], o, role))
      BY <1>1, HandedIsOne, FoundMay DEF StartUnit
    <2> QED
      BY <1>1, <2>1, WorkKeptOn DEF StartUnit
  <1>2. CASE StartField(p)
    <2>1. AtMostOne(Handed(running[p], Field, "install")) /\ May(p, shift[p], Handed(running[p], Field, "install"))
      BY <1>2, HandedIsOne DEF StartField, May
    <2> QED
      BY <1>2, <2>1, WorkKeptOn DEF StartField
  <1>3. CASE Reattribute(p, o)
    <2> DEFINE moved == {[r EXCEPT !.at = IF @ = Field THEN Field ELSE o] : r \in running[p]}
    <2>1. AtMostOne(running[p]) /\ running[p] # {}
      BY <1>3, FewerKept DEF Reattribute, Units
    <2>2. AtMostOne(moved) /\ May(p, shift[p], moved)
      BY <2>1 DEF AtMostOne, May
    <2>3. Work(p, moved) /\ UNCHANGED shift
      BY <1>3 DEF Reattribute
    <2> HIDE DEF moved
    <2> QED
      BY <2>2, <2>3, WorkKeptOn
  <1>4. CASE FinishUnit(p, o, next) \/ BlockUnit(p, o, next)
    <2> DEFINE rows == Chain(p, running[p] \ On(o), next)
    <2>1. AtMostOne(next)
      BY DEF AtMostOne
    <2>2. AtMostOne(rows) /\ May(p, shift[p], rows)
      BY <2>1, ChainKept
    <2>3. Work(p, rows) /\ UNCHANGED shift
      BY <1>4 DEF FinishUnit, BlockUnit
    <2> HIDE DEF rows
    <2> QED
      BY <2>2, <2>3, WorkKeptOn
  <1>5. CASE PressRedo(o)
    BY <1>5, WorkStands DEF PressRedo
  <1> QED
    BY <1>1, <1>2, <1>3, <1>4, <1>5

\* What follows the shift.
LEMMA ShiftKeepsWork ==
    ASSUME WorkInv, NEW p \in People, NEW overCap \in BOOLEAN, NEW stale \in BOOLEAN,
           \/ StartBreak(p) \/ EndBreak(p) \/ ClockOut(p) \/ Void(p)
           \/ ClockIn(p, overCap, stale)
    PROVE  WorkInv' /\ Off
  <1>1. CASE StartBreak(p)
    BY <1>1, WorkKept DEF StartBreak, Work, AtMostOne, May
  <1>2. CASE EndBreak(p)
    <2>1. CASE ResumeRefused(p)
      BY <1>2, <2>1, WorkStands DEF EndBreak
    <2>2. CASE ~ResumeRefused(p)
      <3>1. shift' = [shift EXCEPT ![p] = "in"] /\ running' = [running EXCEPT ![p] = Resumed(p)]
        BY <1>2, <2>2 DEF EndBreak, Work
      <3> QED
        BY <3>1, ResumedKept, WorkKept DEF May
    <2> QED
      BY <2>1, <2>2
  <1>3. CASE ClockOut(p)
    BY <1>3, WorkKept DEF ClockOut, Work, AtMostOne, May
  <1>4. CASE Void(p)
    <2>1. AtMostOne(Units(running[p]))
      BY FewerKept DEF Units
    <2> QED
      BY <1>4, <2>1, WorkKept DEF Void, Work, May
  <1>5. CASE ClockIn(p, overCap, stale)
    <2> DEFINE rows == IF stale THEN Dangling(p, overCap) \ Units(running[p])
                       ELSE Dangling(p, overCap)
    <2>1. AtMostOne(rows)
      BY DanglingKept DEF AtMostOne
    <2>2. shift' = [shift EXCEPT ![p] = "in"] /\ running' = [running EXCEPT ![p] = rows]
      BY <1>5 DEF ClockIn, Work
    <2> HIDE DEF rows
    <2> QED
      BY <2>1, <2>2, WorkKept DEF May
  <1> QED
    BY <1>1, <1>2, <1>3, <1>4, <1>5

\* The steps of a call.
LEMMA CallKeepsWork ==
    ASSUME WorkInv, NEW c \in Calls, NEW p \in People,
           AnswerSummon(c, p) \/ CancelHelp(c, p) \/ CompleteHelp(c, p) \/ End(c)
    PROVE  WorkInv' /\ Off
  <1>1. CASE AnswerSummon(c, p)
    <2>1. AtMostOne(Helping(c, p)) /\ May(p, shift[p], Helping(c, p))
      BY <1>1, HandedIsOne, FewerKept, FoundMay DEF Helping, AnswerSummon
    <2> QED
      BY <1>1, <2>1, WorkKeptOn DEF AnswerSummon, UnitsAlone
  <1>2. CASE CancelHelp(c, p) \/ CompleteHelp(c, p)
    BY <1>2, StopsKept DEF CancelHelp, CompleteHelp, UnitsAlone
  <1>3. CASE End(c)
    BY <1>3, StopsKept DEF End, UnitsAlone
  <1> QED
    BY <1>1, <1>2, <1>3

LEMMA WorkStarts == Init => WorkInv
  BY DEF Init, InitUnits, WorkInv, RowsAreKept, OneThingAtATime

LEMMA WorkStays == WorkInv /\ [Next]_allVars => WorkInv' /\ Off
  <1> SUFFICES ASSUME WorkInv, [Next]_allVars
               PROVE  WorkInv' /\ Off
    OBVIOUS
  <1>0. CASE UNCHANGED <<shift, running>>
    BY <1>0, WorkStands
  <1>1. CASE UNCHANGED allVars
    BY <1>0, <1>1 DEF allVars
  <1>2. CASE WorkStep
    <2>1. CASE \E o \in Openings : PressRedo(o)
      BY <1>0, <2>1 DEF PressRedo
    <2>2. ASSUME NEW p \in People, NEW overCap \in BOOLEAN, NEW stale \in BOOLEAN,
                 \/ StartBreak(p) \/ EndBreak(p) \/ ClockOut(p) \/ Void(p)
                 \/ ClockIn(p, overCap, stale)
          PROVE  WorkInv' /\ Off
      BY <2>2, ShiftKeepsWork
    <2>3. ASSUME NEW p \in People, StartField(p)
          PROVE  WorkInv' /\ Off
      <3>1. AtMostOne(Handed(running[p], Field, "install")) /\ May(p, shift[p], Handed(running[p], Field, "install"))
        BY <2>3, HandedIsOne DEF StartField, May
      <3> QED
        BY <2>3, <3>1, WorkKeptOn DEF StartField
    <2>4. ASSUME NEW p \in People, NEW o \in Openings,
                 NEW next \in {{n} : n \in Openings \ {o}} \cup {{}}, NEW role,
                 \/ StartUnit(p, o, role) \/ Reattribute(p, o)
                 \/ FinishUnit(p, o, next) \/ BlockUnit(p, o, next)
          PROVE  WorkInv' /\ Off
      BY <2>4, RpcKeepsWork
    <2>5. {} \in {{n} : n \in Openings} \cup {{}} /\ TRUE \in BOOLEAN
      OBVIOUS
    <2> QED
      BY <1>2, <2>1, <2>2, <2>3, <2>4, <2>5 DEF WorkStep, NextUnits
  <1>3. ASSUME NEW c \in Calls, NEW p \in People, NEW at, NEW needed,
               BeginSummon(c, p, at, needed)
        PROVE  WorkInv' /\ Off
    BY <1>0, <1>3 DEF BeginSummon, unitVars
  <1>4. ASSUME NEW c \in Calls, CreateSummon(c) \/ Age(c)
        PROVE  WorkInv' /\ Off
    BY <1>0, <1>4 DEF CreateSummon, Age, unitVars
  <1>5. ASSUME NEW c \in Calls, CloseSummon(c) \/ ExpireSummon(c)
        PROVE  WorkInv' /\ Off
    BY <1>5, StopsKept DEF CloseSummon, ExpireSummon, End, UnitsAlone
  <1>6. ASSUME NEW c \in Calls, NEW p \in People,
               AnswerSummon(c, p) \/ CancelHelp(c, p) \/ CompleteHelp(c, p)
        PROVE  WorkInv' /\ Off
    BY <1>6, CallKeepsWork
  <1> QED
    BY <1>1, <1>2, <1>3, <1>4, <1>5, <1>6 DEF Next

LEMMA WorkHolds == Spec => []WorkInv
  BY WorkStarts, WorkStays, PTL DEF Spec

----------------------------------------------------------------------------
(* The seats.                                                              *)

\* A call's stage moves and nothing else of it.
LEMMA StageMoves ==
    ASSUME call \in [Calls -> CallRow], NEW c \in Calls, NEW s \in Stages,
           call' = [call EXCEPT ![c].stage = s]
    PROVE  /\ call' \in [Calls -> CallRow]
           /\ call'[c].stage = s /\ call'[c].needed = call[c].needed
           /\ \A d \in Calls \ {c} : call'[d] = call[d]
  <1> DEFINE row == [stage |-> s, at |-> call[c].at, by |-> call[c].by,
                     needed |-> call[c].needed, old |-> call[c].old]
  <1>1. call[c] \in CallRow
    OBVIOUS
  <1>2. [call[c] EXCEPT !.stage = s] = row
    BY <1>1 DEF CallRow
  <1>3. call' = [call EXCEPT ![c] = row]
    BY <1>2
  <1> QED
    BY <1>1, <1>3 DEF CallRow

\* The seats of a call can be counted.
LEMMA SeatsCount ==
    ASSUME NEW c \in Calls
    PROVE  IsFiniteSet(Seated(c)) /\ Cardinality(Seated(c)) \in Nat
  <1>1. Seated(c) \subseteq People
    BY DEF Seated
  <1> QED
    BY <1>1, SummonConstants, FS_Subset, FS_CardinalityType

\* A call that a step leaves alone keeps its seats.
LEMMA OtherSeats ==
    ASSUME NEW c \in Calls, SeatsOf(c),
           call'[c] = call[c], help'[c] = help[c], points'[c] = points[c]
    PROVE  SeatsOf(c)'
  <1>1. Seated(c)' = Seated(c) /\ (Live(c)' <=> Live(c))
    BY DEF Seated, Live
  <1> QED
    BY <1>1 DEF SeatsOf

LEMMA SeatsStay ==
    ASSUME SeatInv, UNCHANGED <<call, help, points>>
    PROVE  SeatInv'
  <1>1. CallTypes'
    BY DEF SeatInv, CallTypes
  <1>2. ASSUME NEW c \in Calls PROVE SeatsOf(c)'
    BY <1>2, OtherSeats DEF SeatInv
  <1> QED
    BY <1>1, <1>2 DEF SeatInv

\* One helper's row moves.
LEMMA PlaceMoves ==
    ASSUME CallTypes, NEW c \in Calls, NEW p \in People, NEW x \in Places,
           help' = [help EXCEPT ![c][p] = x]
    PROVE  /\ help' \in [Calls -> [People -> Places]]
           /\ help'[c][p] = x
           /\ \A q \in People \ {p} : help'[c][q] = help[c][q]
           /\ \A d \in Calls \ {c} : help'[d] = help[d]
           /\ Seated(c)' = IF x \in {"joined", "completed"} THEN Seated(c) \cup {p}
                           ELSE Seated(c) \ {p}
  <1>1. /\ help' \in [Calls -> [People -> Places]]
        /\ help'[c][p] = x
        /\ \A q \in People \ {p} : help'[c][q] = help[c][q]
        /\ \A d \in Calls \ {c} : help'[d] = help[d]
    BY DEF CallTypes
  <1>2. Seated(c)' = IF x \in {"joined", "completed"} THEN Seated(c) \cup {p}
                     ELSE Seated(c) \ {p}
    BY <1>1 DEF Seated
  <1> QED
    BY <1>1, <1>2

\* An answer takes an empty seat.
LEMMA AnswerSeats ==
    ASSUME SeatInv, NEW c \in Calls, NEW p \in People, AnswerSummon(c, p)
    PROVE  SeatInv'
  <1> DEFINE stage == IF Cardinality(Seated(c)) + 1 >= call[c].needed THEN "covered"
                      ELSE call[c].stage
  <1>0. CallTypes /\ SeatsOf(c) /\ call[c] \in CallRow /\ Cardinality(Seated(c)) \in Nat
    BY SeatsCount DEF SeatInv, CallTypes
  <1>1. /\ Live(c) /\ Cardinality(Seated(c)) < call[c].needed
        /\ help[c][p] \in {"none", "canceled", "spent"}
        /\ help' = [help EXCEPT ![c][p] = "joined"]
        /\ call' = [call EXCEPT ![c].stage = stage]
        /\ points' = [points EXCEPT ![c][p] = @ + 10]
    BY DEF AnswerSummon
  <1>2. call[c].stage = "open" /\ stage \in {"open", "covered"}
    BY <1>0, <1>1 DEF SeatsOf, Live, CallRow
  <1> HIDE DEF stage
  <1>3. /\ call' \in [Calls -> CallRow]
        /\ call'[c].stage = stage /\ call'[c].needed = call[c].needed
        /\ \A d \in Calls \ {c} : call'[d] = call[d]
    BY <1>0, <1>1, <1>2, StageMoves DEF CallTypes, Stages
  <1>4. /\ help' \in [Calls -> [People -> Places]]
        /\ help'[c][p] = "joined"
        /\ \A d \in Calls \ {c} : help'[d] = help[d]
        /\ Seated(c)' = Seated(c) \cup {p}
    BY <1>0, <1>1, PlaceMoves DEF Places
  <1>5. /\ points' \in [Calls -> [People -> Int]]
        /\ points'[c][p] = points[c][p] + 10
        /\ \A q \in People \ {p} : points'[c][q] = points[c][q]
        /\ \A d \in Calls \ {c} : points'[d] = points[d]
    BY <1>0, <1>1 DEF CallTypes
  <1>6. p \notin Seated(c)
    BY <1>1 DEF Seated
  <1>7. Cardinality(Seated(c)') = Cardinality(Seated(c)) + 1
    BY <1>4, <1>6, SeatsCount, FS_AddElement
  <1>8. SeatsOf(c)'
    <2>1. Live(c)' => (call'[c].stage = "covered" <=> Cardinality(Seated(c)') = call'[c].needed)
      BY <1>0, <1>1, <1>2, <1>3, <1>7 DEF stage, CallRow
    <2>2. Cardinality(Seated(c)') <= call'[c].needed
      BY <1>0, <1>1, <1>3, <1>7 DEF CallRow
    <2>3. \A q \in People : points'[c][q] = IF q \in Seated(c)' THEN 10 ELSE 0
      BY <1>0, <1>4, <1>5, <1>6 DEF SeatsOf
    <2> QED
      BY <1>2, <1>3, <2>1, <2>2, <2>3 DEF SeatsOf
  <1>9. ASSUME NEW d \in Calls \ {c} PROVE SeatsOf(d)'
    BY <1>3, <1>4, <1>5, <1>9, OtherSeats DEF SeatInv
  <1> QED
    BY <1>3, <1>4, <1>5, <1>8, <1>9 DEF SeatInv, CallTypes

\* Backing out frees the seat and reopens the call.
LEMMA CancelSeats ==
    ASSUME SeatInv, NEW c \in Calls, NEW p \in People, CancelHelp(c, p)
    PROVE  SeatInv'
  <1>0. CallTypes /\ SeatsOf(c) /\ call[c] \in CallRow /\ Cardinality(Seated(c)) \in Nat
    BY SeatsCount DEF SeatInv, CallTypes
  <1>1. /\ Live(c) /\ help[c][p] = "joined"
        /\ help' = [help EXCEPT ![c][p] = "canceled"]
        /\ call' = [call EXCEPT ![c].stage = "open"]
        /\ points' = [points EXCEPT ![c][p] = @ - 10]
    BY DEF CancelHelp
  <1>3. /\ call' \in [Calls -> CallRow]
        /\ call'[c].stage = "open" /\ call'[c].needed = call[c].needed
        /\ \A d \in Calls \ {c} : call'[d] = call[d]
    BY <1>0, <1>1, StageMoves DEF CallTypes, Stages
  <1>4. /\ help' \in [Calls -> [People -> Places]]
        /\ \A d \in Calls \ {c} : help'[d] = help[d]
        /\ Seated(c)' = Seated(c) \ {p}
    BY <1>0, <1>1, PlaceMoves DEF Places
  <1>5. /\ points' \in [Calls -> [People -> Int]]
        /\ points'[c][p] = points[c][p] - 10
        /\ \A q \in People \ {p} : points'[c][q] = points[c][q]
        /\ \A d \in Calls \ {c} : points'[d] = points[d]
    BY <1>0, <1>1 DEF CallTypes
  <1>6. p \in Seated(c)
    BY <1>1 DEF Seated
  <1>7. Cardinality(Seated(c)') = Cardinality(Seated(c)) - 1
    BY <1>4, <1>6, SeatsCount, FS_RemoveElement
  <1>8. SeatsOf(c)'
    <2>1. Cardinality(Seated(c)') < call'[c].needed
      BY <1>0, <1>3, <1>7 DEF CallRow, SeatsOf
    <2>2. \A q \in People : points'[c][q] = IF q \in Seated(c)' THEN 10 ELSE 0
      BY <1>0, <1>4, <1>5, <1>6 DEF SeatsOf
    <2>3. Cardinality(Seated(c)') \in Int /\ call'[c].needed \in Int
      BY <1>0, <1>3, <1>7 DEF CallRow
    <2> QED
      BY <1>3, <2>1, <2>2, <2>3 DEF SeatsOf
  <1>9. ASSUME NEW d \in Calls \ {c} PROVE SeatsOf(d)'
    BY <1>3, <1>4, <1>5, <1>9, OtherSeats DEF SeatInv
  <1> QED
    BY <1>3, <1>4, <1>5, <1>8, <1>9 DEF SeatInv, CallTypes

\* Finishing keeps the seat, and on a row given back takes none.
LEMMA CompleteSeats ==
    ASSUME SeatInv, NEW c \in Calls, NEW p \in People, CompleteHelp(c, p)
    PROVE  SeatInv'
  <1>0. CallTypes /\ SeatsOf(c) /\ call[c] \in CallRow
    BY DEF SeatInv, CallTypes
  <1>1. /\ call' = call /\ points' = points
        /\ \/ help[c][p] = "joined" /\ help' = [help EXCEPT ![c][p] = "completed"]
           \/ help[c][p] = "canceled" /\ help' = [help EXCEPT ![c][p] = "spent"]
    BY <1>0 DEF CompleteHelp, CallTypes
  <1>2. /\ help' \in [Calls -> [People -> Places]]
        /\ help'[c][p] # "joined"
        /\ \A q \in People \ {p} : help'[c][q] = help[c][q]
        /\ \A d \in Calls \ {c} : help'[d] = help[d]
        /\ Seated(c)' = Seated(c)
    <2>1. CASE help[c][p] = "joined"
      <3>1. help' = [help EXCEPT ![c][p] = "completed"] /\ p \in Seated(c)
        BY <1>1, <2>1 DEF Seated
      <3>2. /\ help' \in [Calls -> [People -> Places]]
            /\ help'[c][p] = "completed"
            /\ \A q \in People \ {p} : help'[c][q] = help[c][q]
            /\ \A d \in Calls \ {c} : help'[d] = help[d]
            /\ Seated(c)' = Seated(c) \cup {p}
        BY <1>0, <3>1, PlaceMoves DEF Places
      <3> QED
        BY <3>1, <3>2
    <2>2. CASE help[c][p] = "canceled"
      <3>1. help' = [help EXCEPT ![c][p] = "spent"] /\ p \notin Seated(c)
        BY <1>1, <2>2 DEF Seated
      <3>2. /\ help' \in [Calls -> [People -> Places]]
            /\ help'[c][p] = "spent"
            /\ \A q \in People \ {p} : help'[c][q] = help[c][q]
            /\ \A d \in Calls \ {c} : help'[d] = help[d]
            /\ Seated(c)' = Seated(c) \ {p}
        BY <1>0, <3>1, PlaceMoves DEF Places
      <3> QED
        BY <3>1, <3>2
    <2> QED
      BY <1>1, <2>1, <2>2
  <1>3. SeatsOf(c)'
    <2>1. call[c].stage \notin {"none", "making"}
      BY <1>0, <1>1 DEF SeatsOf
    <2>2. call[c].stage = "closed" => \A q \in People : help'[c][q] # "joined"
      BY <1>0, <1>2 DEF SeatsOf
    <2>3. Live(c)' <=> Live(c)
      BY <1>1 DEF Live
    <2> QED
      BY <1>0, <1>1, <1>2, <2>1, <2>2, <2>3 DEF SeatsOf
  <1>4. ASSUME NEW d \in Calls \ {c} PROVE SeatsOf(d)'
    BY <1>1, <1>2, <1>4, OtherSeats DEF SeatInv
  <1> QED
    BY <1>0, <1>1, <1>2, <1>3, <1>4 DEF SeatInv, CallTypes

\* An ending stamps whoever is helping: they keep their seats.
LEMMA EndSeats ==
    ASSUME SeatInv, NEW c \in Calls, call[c].stage \in {"open", "covered", "closed"}, End(c)
    PROVE  SeatInv'
  <1> DEFINE helping == {p \in People : help[c][p] = "joined"}
             rows == [p \in People |-> IF p \in helping THEN "completed" ELSE help[c][p]]
  <1>0. CallTypes /\ SeatsOf(c) /\ call[c] \in CallRow
    BY DEF SeatInv, CallTypes
  <1>1. /\ help' = [help EXCEPT ![c] = rows]
        /\ call' = [call EXCEPT ![c].stage = "closed"]
        /\ points' = points
    BY DEF End
  <1>2. rows \in [People -> Places]
    BY <1>0 DEF CallTypes, Places
  <1>3. /\ call' \in [Calls -> CallRow]
        /\ call'[c].stage = "closed" /\ call'[c].needed = call[c].needed
        /\ \A d \in Calls \ {c} : call'[d] = call[d]
    BY <1>0, <1>1, StageMoves DEF CallTypes, Stages
  <1>4. /\ help' \in [Calls -> [People -> Places]]
        /\ help'[c] = rows
        /\ \A d \in Calls \ {c} : help'[d] = help[d]
    BY <1>0, <1>1, <1>2 DEF CallTypes
  <1>5. Seated(c)' = Seated(c)
    BY <1>4 DEF Seated
  <1>6. SeatsOf(c)'
    <2>1. \A q \in People : help'[c][q] # "joined"
      BY <1>4
    <2> QED
      BY <1>0, <1>1, <1>3, <1>5, <2>1 DEF SeatsOf, Live
  <1>9. ASSUME NEW d \in Calls \ {c} PROVE SeatsOf(d)'
    BY <1>1, <1>3, <1>4, <1>9, OtherSeats DEF SeatInv
  <1> QED
    BY <1>0, <1>1, <1>3, <1>4, <1>6, <1>9 DEF SeatInv, CallTypes

\* Time passes for a call and nothing else of it moves.
LEMMA Ages ==
    ASSUME call \in [Calls -> CallRow], NEW c \in Calls, NEW b \in BOOLEAN,
           call' = [call EXCEPT ![c].old = b]
    PROVE  /\ call' \in [Calls -> CallRow]
           /\ call'[c].stage = call[c].stage /\ call'[c].needed = call[c].needed
           /\ \A d \in Calls \ {c} : call'[d] = call[d]
  <1> DEFINE row == [stage |-> call[c].stage, at |-> call[c].at, by |-> call[c].by,
                     needed |-> call[c].needed, old |-> b]
  <1>1. call[c] \in CallRow
    OBVIOUS
  <1>2. [call[c] EXCEPT !.old = b] = row
    BY <1>1 DEF CallRow
  <1>3. call' = [call EXCEPT ![c] = row]
    BY <1>2
  <1> QED
    BY <1>1, <1>3 DEF CallRow

\* A call begins, is made, and ages.
LEMMA MadeSeats ==
    ASSUME SeatInv, NEW c \in Calls,
           \/ \E p \in People, at \in Openings \cup {Nothing}, needed \in 1..MaxNeeded :
                BeginSummon(c, p, at, needed)
           \/ CreateSummon(c) \/ Age(c)
    PROVE  SeatInv'
  <1>0. CallTypes /\ SeatsOf(c) /\ call[c] \in CallRow /\ Cardinality(Seated(c)) \in Nat
    BY SeatsCount DEF SeatInv, CallTypes
  <1>1. help' = help /\ points' = points /\ Seated(c)' = Seated(c)
    BY DEF BeginSummon, CreateSummon, Age, Seated
  <1>2. Seated(c) = {} => Cardinality(Seated(c)) = 0
    BY FS_EmptySet
  <1>3. ASSUME NEW p \in People, NEW at \in Openings \cup {Nothing}, NEW needed \in 1..MaxNeeded,
               BeginSummon(c, p, at, needed)
        PROVE  SeatInv'
    <2>1. /\ call[c].stage = "none"
          /\ call' = [call EXCEPT ![c] = [stage |-> "making", at |-> at, by |-> p,
                                          needed |-> needed, old |-> FALSE]]
      BY <1>3 DEF BeginSummon, Unmade
    <2>2. /\ call' \in [Calls -> CallRow]
          /\ call'[c].stage = "making" /\ call'[c].needed = needed
          /\ \A d \in Calls \ {c} : call'[d] = call[d]
      BY <1>0, <2>1, SummonConstants DEF CallTypes, CallRow, Stages
    <2>3. Seated(c) = {}
      BY <1>0, <2>1 DEF SeatsOf, Seated
    <2>4. SeatsOf(c)'
      BY <1>0, <1>1, <1>2, <2>1, <2>2, <2>3 DEF SeatsOf, Live
    <2>5. ASSUME NEW d \in Calls \ {c} PROVE SeatsOf(d)'
      BY <1>1, <2>2, <2>5, OtherSeats DEF SeatInv
    <2> QED
      BY <1>0, <1>1, <2>2, <2>4, <2>5 DEF SeatInv, CallTypes
  <1>4. CASE CreateSummon(c)
    <2>1. call[c].stage = "making" /\ call' = [call EXCEPT ![c].stage = "open"]
      BY <1>4 DEF CreateSummon
    <2>2. /\ call' \in [Calls -> CallRow]
          /\ call'[c].stage = "open" /\ call'[c].needed = call[c].needed
          /\ \A d \in Calls \ {c} : call'[d] = call[d]
      BY <1>0, <2>1, StageMoves DEF CallTypes, Stages
    <2>3. Seated(c) = {}
      BY <1>0, <2>1 DEF SeatsOf, Seated
    <2>4. SeatsOf(c)'
      BY <1>0, <1>1, <1>2, <2>1, <2>2, <2>3 DEF SeatsOf, CallRow
    <2>5. ASSUME NEW d \in Calls \ {c} PROVE SeatsOf(d)'
      BY <1>1, <2>2, <2>5, OtherSeats DEF SeatInv
    <2> QED
      BY <1>0, <1>1, <2>2, <2>4, <2>5 DEF SeatInv, CallTypes
  <1>5. CASE Age(c)
    <2>3. call' = [call EXCEPT ![c].old = TRUE]
      BY <1>5 DEF Age
    <2>4. /\ call' \in [Calls -> CallRow]
          /\ call'[c].stage = call[c].stage /\ call'[c].needed = call[c].needed
          /\ \A d \in Calls \ {c} : call'[d] = call[d]
      BY <1>0, <2>3, Ages DEF CallTypes
    <2>5. SeatsOf(c)'
      BY <1>0, <1>1, <2>4 DEF SeatsOf, Live
    <2>6. ASSUME NEW d \in Calls \ {c} PROVE SeatsOf(d)'
      BY <1>1, <2>4, <2>6, OtherSeats DEF SeatInv
    <2> QED
      BY <1>0, <1>1, <2>4, <2>5, <2>6 DEF SeatInv, CallTypes
  <1> QED
    BY <1>3, <1>4, <1>5

LEMMA SeatsStart == Init => SeatInv
  <1> SUFFICES ASSUME Init PROVE SeatInv
    OBVIOUS
  <1>1. CallTypes
    BY SummonConstants DEF Init, CallTypes, CallRow, Stages, Unmade, Places
  <1>2. ASSUME NEW c \in Calls PROVE SeatsOf(c)
    <2>1. /\ call[c].stage = "none" /\ call[c].needed = 0
          /\ \A p \in People : help[c][p] = "none" /\ points[c][p] = 0
      BY <1>2 DEF Init, Unmade
    <2>2. Seated(c) = {} /\ Cardinality(Seated(c)) = 0
      BY <2>1, FS_EmptySet DEF Seated
    <2> QED
      BY <2>1, <2>2 DEF SeatsOf, Live
  <1> QED
    BY <1>1, <1>2 DEF SeatInv

LEMMA SeatsHeld == SeatInv /\ [Next]_allVars => SeatInv'
  <1> SUFFICES ASSUME SeatInv, [Next]_allVars
               PROVE  SeatInv'
    OBVIOUS
  <1>1. CASE UNCHANGED allVars
    BY <1>1, SeatsStay DEF allVars
  <1>2. CASE WorkStep
    BY <1>2, SeatsStay DEF WorkStep
  <1>3. ASSUME NEW c \in Calls,
               \/ \E p \in People, at \in Openings \cup {Nothing}, needed \in 1..MaxNeeded :
                    BeginSummon(c, p, at, needed)
               \/ CreateSummon(c) \/ Age(c)
        PROVE  SeatInv'
    BY <1>3, MadeSeats
  <1>5. ASSUME NEW c \in Calls, CloseSummon(c) \/ ExpireSummon(c)
        PROVE  SeatInv'
    BY <1>5, EndSeats DEF CloseSummon, ExpireSummon, Live
  <1>6. ASSUME NEW c \in Calls, NEW p \in People,
               AnswerSummon(c, p) \/ CancelHelp(c, p) \/ CompleteHelp(c, p)
        PROVE  SeatInv'
    BY <1>6, AnswerSeats, CancelSeats, CompleteSeats
  <1> QED
    BY <1>1, <1>2, <1>3, <1>5, <1>6 DEF Next

LEMMA SeatsHold == Spec => []SeatInv
  BY SeatsStart, SeatsHeld, PTL DEF Spec

----------------------------------------------------------------------------
(* What a break took, and types.                                           *)

\* The break that runs is the last: what it took is one break old, and nothing
\* else is.
BreakRemembered ==
    \A p \in People : stopped[p] \in Openings =>
        \A o \in Openings : paused[p][o] = 1 <=> o = stopped[p]

UnitInv == TypeUnits /\ CallTypes /\ WorkInv /\ BreakRemembered

Shifts == {"out", "in", "break", "voided"}

LEMMA LeastExists ==
    ASSUME NEW T, T \subseteq Nat, T # {}
    PROVE  \E m \in T : \A k \in T : m <= k
  <1> DEFINE less == OpToRel(<, Nat)
  <1>1. IsWellFoundedOn(less, Nat)
    BY NatLessThanWellFounded
  <1>2. \A k, m \in Nat : <<k, m>> \in less <=> k < m
    BY DEF OpToRel
  <1> HIDE DEF less
  <1>3. PICK m \in T : \A k \in T : ~(<<k, m>> \in less)
    BY <1>1, WFMin
  <1>4. ASSUME NEW k \in T PROVE m <= k
    <2>1. k \in Nat /\ m \in Nat /\ ~(<<k, m>> \in less)
      BY <1>3
    <2> QED
      BY <1>2, <2>1
  <1> QED
    BY <1>4

\* The unit held is one a break took, not installed, and none was taken later.
LEMMA HeldIs ==
    ASSUME TypeUnits, NEW p \in People
    PROVE  LET held == {o \in Openings \ installed : paused[p][o] > 0}
           IN  IF held = {} THEN HeldUnit(p) = Nothing
               ELSE /\ HeldUnit(p) \in held
                    /\ \A q \in held : paused[p][HeldUnit(p)] <= paused[p][q]
  <1> DEFINE held == {o \in Openings \ installed : paused[p][o] > 0}
             Latest(o) == \A q \in held : paused[p][o] <= paused[p][q]
  <1>1. CASE held = {}
    BY <1>1 DEF HeldUnit
  <1>2. CASE held # {}
    <2> DEFINE T == {paused[p][o] : o \in held}
    <2>1. T \subseteq Nat /\ T # {}
      BY <1>2 DEF TypeUnits
    <2>2. PICK m \in T : \A k \in T : m <= k
      BY <2>1, LeastExists
    <2>3. PICK o \in held : paused[p][o] = m
      BY <2>2
    <2>4. Latest(o)
      BY <2>2, <2>3
    <2>5. HeldUnit(p) = CHOOSE x \in held : Latest(x)
      BY <1>2 DEF HeldUnit
    <2> HIDE DEF held, Latest
    <2>6. HeldUnit(p) \in held /\ Latest(HeldUnit(p))
      BY <2>4, <2>5
    <2> QED
      BY <1>2, <2>6 DEF held, Latest
  <1> QED
    BY <1>1, <1>2

\* It is what the running break took, unless that was installed meanwhile.
LEMMA HeldIsStopped ==
    ASSUME TypeUnits, BreakRemembered, NEW p \in People, stopped[p] \in Openings \ installed
    PROVE  HeldUnit(p) = stopped[p]
  <1> DEFINE held == {o \in Openings \ installed : paused[p][o] > 0}
             s == stopped[p]
  <1>1. s \in held /\ paused[p][s] = 1
    BY DEF BreakRemembered
  <1>2. HeldUnit(p) \in held /\ paused[p][HeldUnit(p)] <= 1
    BY <1>1, HeldIs
  <1>3. paused[p][HeldUnit(p)] \in Nat /\ paused[p][HeldUnit(p)] > 0 /\ HeldUnit(p) \in Openings
    BY <1>2 DEF TypeUnits
  <1>4. paused[p][HeldUnit(p)] = 1
    BY <1>2, <1>3
  <1> QED
    BY <1>3, <1>4 DEF BreakRemembered

LEMMA HandedRows ==
    ASSUME NEW rows, NEW at \in Openings \cup {Field}, NEW role \in {"install", "helper"}
    PROVE  Handed(rows, at, role) \subseteq Row
  BY DEF Handed, Row

LEMMA ResumedRows ==
    ASSUME TypeUnits, NEW p \in People
    PROVE  Resumed(p) \subseteq Row
  <1>1. running[p] \subseteq Row
    BY DEF TypeUnits
  <1>2. HeldUnit(p) = Nothing \/ HeldUnit(p) \in Openings
    BY HeldIs
  <1>3. HeldUnit(p) # Nothing => Handed(running[p], HeldUnit(p), "install") \subseteq Row
    BY <1>2, HandedRows
  <1> QED
    BY <1>1, <1>3 DEF Resumed

\* A step that gives one person new rows; no break begins.
LEMMA RowsMove ==
    ASSUME TypeUnits, BreakRemembered, NEW p \in People, NEW rows \in SUBSET Row,
           running' = [running EXCEPT ![p] = rows],
           shift' = shift \/ \E sh \in Shifts : shift' = [shift EXCEPT ![p] = sh],
           stopped' = stopped \/ stopped' = [stopped EXCEPT ![p] = Nothing],
           UNCHANGED paused,
           installed' \subseteq Openings, redo' \subseteq Openings, refused' \subseteq People,
           late' \subseteq People
    PROVE  TypeUnits' /\ BreakRemembered'
  <1>1. running' \in [People -> SUBSET Row]
    BY DEF TypeUnits
  <1>2. shift' \in [People -> Shifts]
    BY DEF TypeUnits, Shifts
  <1>3. stopped' \in [People -> Openings \cup {Field, Nothing}]
    BY DEF TypeUnits
  <1>4. \A q \in People : stopped'[q] \in Openings => stopped'[q] = stopped[q]
    BY UnitConstants DEF TypeUnits
  <1> QED
    BY <1>1, <1>2, <1>3, <1>4 DEF TypeUnits, BreakRemembered, Shifts

\* A break begins: what runs is what it takes.
LEMMA BreakMoves ==
    ASSUME TypeUnits, WorkInv, BreakRemembered, NEW p \in People, StartBreak(p)
    PROVE  TypeUnits' /\ BreakRemembered'
  <1> DEFINE at == {r.at : r \in running[p]}
             s == IF at = {} THEN Nothing ELSE CHOOSE o \in at : TRUE
             ago == Aged(paused[p], at \ {Field})
  <1>1. /\ shift' = [shift EXCEPT ![p] = "break"] /\ running' = [running EXCEPT ![p] = {}]
        /\ stopped' = [stopped EXCEPT ![p] = s] /\ paused' = [paused EXCEPT ![p] = ago]
        /\ UNCHANGED <<refused, installed, redo, late>>
    BY Zenon DEF StartBreak, Work, Sheet
  <1>2. at \subseteq Openings \cup {Field} /\ \A x, y \in at : x = y
    BY DEF TypeUnits, Row, WorkInv, OneThingAtATime
  <1>3. \/ at = {} /\ s = Nothing
        \/ s \in at /\ at = {s}
    BY <1>2
  <1> HIDE DEF s, at
  <1>4. paused[p] \in [Openings -> Nat] /\ at \ {Field} \subseteq Openings
    BY <1>2 DEF TypeUnits
  <1>5. ago = [o \in Openings |-> IF o \in at \ {Field} THEN 1
                                  ELSE IF paused[p][o] = 0 THEN 0 ELSE paused[p][o] + 1]
    <2>1. DOMAIN paused[p] \cup (at \ {Field}) = Openings
      BY <1>4
    <2> QED
      BY <2>1 DEF Aged
  <1>6. /\ ago \in [Openings -> Nat]
        /\ \A o \in Openings : ago[o] = 1 <=> o \in at
    BY <1>4, <1>5, UnitConstants
  <1> HIDE DEF ago
  <1>7. s \in Openings \cup {Field, Nothing}
    BY <1>2, <1>3
  <1>8. TypeUnits'
    BY <1>1, <1>6, <1>7 DEF TypeUnits
  <1>9. s \in Openings => \A o \in Openings : ago[o] = 1 <=> o = s
    BY <1>3, <1>6, UnitConstants
  <1>10. /\ stopped'[p] = s /\ paused'[p] = ago
         /\ \A q \in People \ {p} : stopped'[q] = stopped[q] /\ paused'[q] = paused[q]
    BY <1>1 DEF TypeUnits
  <1>11. BreakRemembered'
    BY <1>9, <1>10 DEF BreakRemembered
  <1> QED
    BY <1>8, <1>11

\* The RPCs.
LEMMA RpcMoves ==
    ASSUME TypeUnits, BreakRemembered, NEW p \in People, NEW o \in Openings,
           NEW next \in {{n} : n \in Openings \ {o}} \cup {{}}, NEW role \in {"install", "helper"},
           StartUnit(p, o, role) \/ Reattribute(p, o) \/ FinishUnit(p, o, next) \/ BlockUnit(p, o, next)
    PROVE  TypeUnits' /\ BreakRemembered'
  <1>1. /\ running[p] \subseteq Row /\ installed \subseteq Openings /\ redo \subseteq Openings /\ refused \subseteq People
        /\ late \subseteq People
    BY DEF TypeUnits
  <1>2. CASE StartUnit(p, o, role)
    <2>1. Handed(running[p], o, role) \subseteq Row
      BY HandedRows
    <2> QED
      BY <1>1, <1>2, <2>1, RowsMove DEF StartUnit, Work, Breaks, Sheet
  <1>3. CASE Reattribute(p, o)
    <2> DEFINE moved == {[r EXCEPT !.at = IF @ = Field THEN Field ELSE o] : r \in running[p]}
    <2>1. moved \subseteq Row
      BY <1>1 DEF Row
    <2>2. running' = [running EXCEPT ![p] = moved]
      BY <1>3 DEF Reattribute, Work
    <2> HIDE DEF moved
    <2> QED
      BY <1>1, <1>3, <2>1, <2>2, RowsMove DEF Reattribute, Breaks, Sheet
  <1>4. CASE FinishUnit(p, o, next) \/ BlockUnit(p, o, next)
    <2> DEFINE rows == Chain(p, running[p] \ On(o), next)
    <2>1. \A n \in next : Handed(running[p] \ On(o), n, "install") \subseteq Row
      BY HandedRows
    <2>2. rows \subseteq Row
      BY <1>1, <2>1 DEF Chain
    <2>3. running' = [running EXCEPT ![p] = rows]
      BY <1>4 DEF FinishUnit, BlockUnit, Work
    <2> HIDE DEF rows
    <2> QED
      BY <1>1, <1>4, <2>2, <2>3, RowsMove DEF FinishUnit, BlockUnit, Spent, Breaks, Sheet
  <1> QED
    BY <1>2, <1>3, <1>4

\* What follows the shift.
LEMMA ShiftMoves ==
    ASSUME TypeUnits, WorkInv, BreakRemembered, NEW p \in People,
           NEW overCap \in BOOLEAN, NEW stale \in BOOLEAN,
           \/ StartField(p) \/ StartBreak(p) \/ EndBreak(p) \/ ClockOut(p) \/ Void(p)
           \/ ClockIn(p, overCap, stale)
    PROVE  TypeUnits' /\ BreakRemembered'
  <1>1. /\ running[p] \subseteq Row /\ installed \subseteq Openings /\ redo \subseteq Openings /\ refused \subseteq People
        /\ late \subseteq People
    BY DEF TypeUnits
  <1>2. CASE StartField(p)
    <2>1. Handed(running[p], Field, "install") \subseteq Row
      BY HandedRows
    <2> QED
      BY <1>1, <1>2, <2>1, RowsMove DEF StartField, Work, Breaks, Sheet
  <1>3. CASE StartBreak(p)
    BY <1>3, BreakMoves
  <1>4. CASE EndBreak(p)
    <2>1. CASE ResumeRefused(p)
      <3>1. UNCHANGED <<shift, running, stopped, paused, installed, redo, late>> /\ refused' \subseteq People
        BY <1>1, <1>4, <2>1 DEF EndBreak, Sheet
      <3> QED
        BY <3>1 DEF TypeUnits, BreakRemembered
    <2>2. CASE ~ResumeRefused(p)
      <3>1. /\ shift' = [shift EXCEPT ![p] = "in"] /\ running' = [running EXCEPT ![p] = Resumed(p)]
            /\ stopped' = [stopped EXCEPT ![p] = Nothing] /\ UNCHANGED <<refused, paused, installed, redo>> /\ late' \subseteq People
        BY <1>1, <1>4, <2>2 DEF EndBreak, Work, Sheet
      <3> QED
        BY <1>1, <3>1, ResumedRows, RowsMove DEF Shifts
    <2> QED
      BY <2>1, <2>2
  <1>5. CASE ClockOut(p)
    <2>1. /\ shift' = [shift EXCEPT ![p] = "out"] /\ running' = [running EXCEPT ![p] = {}]
          /\ stopped' = [stopped EXCEPT ![p] = Nothing] /\ UNCHANGED <<refused, paused, installed, redo>> /\ late' \subseteq People
      BY <1>1, <1>5 DEF ClockOut, Work, Sheet
    <2> QED
      BY <1>1, <2>1, RowsMove DEF Shifts
  <1>6. CASE Void(p)
    <2>1. /\ shift' = [shift EXCEPT ![p] = "voided"] /\ running' = [running EXCEPT ![p] = Units(running[p])]
          /\ stopped' = [stopped EXCEPT ![p] = Nothing] /\ UNCHANGED <<refused, paused, installed, redo>> /\ late' \subseteq People
      BY <1>1, <1>6 DEF Void, Work, Sheet
    <2>2. Units(running[p]) \subseteq Row
      BY <1>1 DEF Units
    <2> QED
      BY <1>1, <2>1, <2>2, RowsMove DEF Shifts
  <1>7. CASE ClockIn(p, overCap, stale)
    <2> DEFINE rows == IF stale THEN Dangling(p, overCap) \ Units(running[p]) ELSE Dangling(p, overCap)
    <2>1. Dangling(p, overCap) \subseteq Row
      BY <1>1, ResumedRows DEF Dangling, Units
    <2>2. rows \subseteq Row
      BY <2>1
    <2>3. /\ shift' = [shift EXCEPT ![p] = "in"] /\ running' = [running EXCEPT ![p] = rows]
          /\ stopped' = [stopped EXCEPT ![p] = Nothing] /\ UNCHANGED <<refused, paused, installed, redo>> /\ late' \subseteq People
      BY <1>1, <1>7 DEF ClockIn, Work, Sheet
    <2> HIDE DEF rows
    <2> QED
      BY <1>1, <2>2, <2>3, RowsMove DEF Shifts
  <1> QED
    BY <1>2, <1>3, <1>4, <1>5, <1>6, <1>7

\* The steps of a call.
LEMMA CallMoves ==
    ASSUME TypeUnits, CallTypes, BreakRemembered, NEW c \in Calls, NEW p \in People,
           AnswerSummon(c, p) \/ CancelHelp(c, p) \/ CompleteHelp(c, p) \/ End(c)
    PROVE  TypeUnits' /\ BreakRemembered'
  <1>1. UNCHANGED <<shift, paused, stopped, installed, redo, refused>> /\ late' \subseteq late
    BY DEF AnswerSummon, CancelHelp, CompleteHelp, End, UnitsAlone
  <1>2. running' \in [People -> SUBSET Row]
    <2>1. CASE AnswerSummon(c, p)
      <3>1. call[c].at \in Openings \cup {Nothing} /\ running[p] \subseteq Row
        BY DEF CallTypes, CallRow, TypeUnits
      <3>2. Helping(c, p) \subseteq Row
        BY <3>1, HandedRows DEF Helping
      <3> QED
        BY <2>1, <3>2 DEF AnswerSummon, Work, TypeUnits
    <2>2. CASE CancelHelp(c, p) \/ CompleteHelp(c, p) \/ End(c)
      <3>1. PICK people : Stops(c, people)
        BY <2>2 DEF CancelHelp, CompleteHelp, End
      <3> QED
        BY <3>1 DEF Stops, TypeUnits
    <2> QED
      BY <2>1, <2>2
  <1> QED
    BY <1>1, <1>2 DEF TypeUnits, BreakRemembered

LEMMA UnitsKept ==
    ASSUME UnitInv, [Next]_allVars
    PROVE  TypeUnits' /\ BreakRemembered'
  <1> USE DEF UnitInv
  <1>1. CASE UNCHANGED unitVars
    BY <1>1 DEF unitVars, TypeUnits, BreakRemembered
  <1>2. CASE UNCHANGED allVars
    BY <1>1, <1>2 DEF allVars, unitVars
  <1>3. CASE WorkStep
    <2>1. ASSUME NEW o \in Openings, PressRedo(o)
          PROVE  TypeUnits' /\ BreakRemembered'
      BY <2>1 DEF PressRedo, Breaks, TypeUnits, BreakRemembered
    <2>2. ASSUME NEW p \in People, NEW overCap \in BOOLEAN, NEW stale \in BOOLEAN,
                 \/ StartField(p) \/ StartBreak(p) \/ EndBreak(p) \/ ClockOut(p) \/ Void(p)
                 \/ ClockIn(p, overCap, stale)
          PROVE  TypeUnits' /\ BreakRemembered'
      BY <2>2, ShiftMoves
    <2>3. ASSUME NEW p \in People, NEW o \in Openings,
                 NEW next \in {{n} : n \in Openings \ {o}} \cup {{}}, NEW role \in {"install", "helper"},
                 StartUnit(p, o, role) \/ Reattribute(p, o) \/ FinishUnit(p, o, next) \/ BlockUnit(p, o, next)
          PROVE  TypeUnits' /\ BreakRemembered'
      BY <2>3, RpcMoves
    <2>4. \A o : {} \in {{n} : n \in Openings \ {o}} \cup {{}}
      OBVIOUS
    <2> QED
      BY <1>3, <2>1, <2>2, <2>3, <2>4 DEF WorkStep, NextUnits
  <1>4. ASSUME NEW c \in Calls, NEW p \in People, NEW at, NEW needed,
               BeginSummon(c, p, at, needed)
        PROVE  UNCHANGED unitVars
    BY <1>4 DEF BeginSummon
  <1>5. ASSUME NEW c \in Calls, CreateSummon(c) \/ Age(c)
        PROVE  UNCHANGED unitVars
    BY <1>5 DEF CreateSummon, Age
  <1>6. ASSUME NEW c \in Calls, End(c)
        PROVE  TypeUnits' /\ BreakRemembered'
    <2>1. UNCHANGED <<shift, paused, stopped, installed, redo, refused, late>>
      BY <1>6 DEF End, UnitsAlone
    <2>2. running' \in [People -> SUBSET Row]
      <3>1. PICK people : Stops(c, people)
        BY <1>6 DEF End
      <3> QED
        BY <3>1 DEF Stops, TypeUnits
    <2> QED
      BY <2>1, <2>2 DEF TypeUnits, BreakRemembered
  <1>7. ASSUME NEW c \in Calls, NEW p \in People,
               AnswerSummon(c, p) \/ CancelHelp(c, p) \/ CompleteHelp(c, p)
        PROVE  TypeUnits' /\ BreakRemembered'
    BY <1>7, CallMoves
  <1> QED
    BY <1>1, <1>2, <1>3, <1>4, <1>5, <1>6, <1>7 DEF Next, CloseSummon, ExpireSummon

LEMMA UnitsHold == Spec => [](UnitInv /\ acts \in 0..MaxActs)
  <1> DEFINE Acts == acts \in 0..MaxActs
  <1>1. Init => TypeUnits /\ BreakRemembered /\ Acts
    <2> SUFFICES ASSUME Init PROVE TypeUnits /\ BreakRemembered /\ Acts
      OBVIOUS
    <2>1. TypeUnits
      BY DEF Init, InitUnits, TypeUnits
    <2>2. BreakRemembered
      BY UnitConstants DEF Init, InitUnits, BreakRemembered
    <2>3. Acts
      BY SummonConstants DEF Init
    <2> QED
      BY <2>1, <2>2, <2>3
  <1>2. UnitInv /\ [Next]_allVars => TypeUnits' /\ BreakRemembered'
    BY UnitsKept
  <1>3. Acts /\ [Next]_allVars => Acts'
    <2>1. Next => acts' = acts \/ (acts < MaxActs /\ acts' = acts + 1)
      BY DEF Next, WorkStep, BeginSummon, CreateSummon, Age, CloseSummon, ExpireSummon, AnswerSummon,
             CancelHelp, CompleteHelp, End
    <2>2. UNCHANGED allVars => acts' = acts
      BY DEF allVars
    <2>3. acts' = acts \/ (acts < MaxActs /\ acts' = acts + 1) => (Acts => Acts')
      BY SummonConstants
    <2> QED
      BY <2>1, <2>2, <2>3
  <1>4. SeatInv => CallTypes
    BY DEF SeatInv
  <1> HIDE DEF Acts
  <1>5. Spec => [](UnitInv /\ Acts)
    BY <1>1, <1>2, <1>3, <1>4, SeatsHold, WorkHolds, PTL DEF Spec, UnitInv
  <1> QED
    BY <1>5 DEF Acts

----------------------------------------------------------------------------
(* The theorems.                                                           *)

\* ONE THING AT A TIME, for any crew: however starts, chains, breaks, answers
\* and endings of calls interleave, nobody has two pieces of work running.
THEOREM OneThingHolds == Spec => []OneThingAtATime
  <1>1. WorkInv => OneThingAtATime
    BY DEF WorkInv
  <1> QED
    BY <1>1, WorkHolds, PTL

\* OFF THE CLOCK IS OFF THE UNIT, for any crew: every clock-out leaves nothing
\* running, and until the next clock-in only a call that had found the shift
\* open leaves a row behind it.
THEOREM OffTheClockHolds == Spec => OffTheClock
  <1>1. WorkInv /\ [Next]_allVars => [Off]_unitVars
    BY WorkStays
  <1>2. Spec => [][Off]_unitVars
    BY <1>1, WorkHolds, PTL DEF Spec
  <1> QED
    BY <1>2 DEF Off, OffTheClock

\* SEATS AND STATUS AGREE, for any number of helpers and calls.
THEOREM SeatsHoldStatus == Spec => []SeatsMatchStatus
  <1>1. SeatInv => SeatsMatchStatus
    BY DEF SeatInv, SeatsOf, SeatsMatchStatus
  <1> QED
    BY <1>1, SeatsHold, PTL

\* AN ANSWER IS PAID ONCE, for any number of helpers and calls, and however
\* often a seat is taken and given back.
THEOREM PointsHold == Spec => []PointsFollowSeats
  <1>1. SeatInv => PointsFollowSeats
    BY DEF SeatInv, SeatsOf, PointsFollowSeats
  <1> QED
    BY <1>1, SeatsHold, PTL

\* One call's ending: only close_summon and the sweep close a live call, and
\* what they stop is theirs.
LEMMA EndingStopsItsOwn ==
    ASSUME SeatInv, [Next]_allVars, NEW c \in Calls, Live(c), call'[c].stage = "closed",
           NEW p \in People, NEW r \in running[p] \ running'[p]
    PROVE  r.at = call[c].at /\ help[c][p] = "joined"
  <1>0. call \in [Calls -> CallRow] /\ call[c] \in CallRow
    BY DEF SeatInv, CallTypes
  <1>1. CASE call' = call
    BY <1>1 DEF Live
  <1>2. ASSUME NEW d \in Calls,
               \/ \E q \in People, at \in Openings \cup {Nothing}, needed \in 1..MaxNeeded :
                    BeginSummon(d, q, at, needed)
               \/ CreateSummon(d) \/ Age(d)
        PROVE  FALSE
    <2>1. running' = running
      BY <1>2 DEF BeginSummon, CreateSummon, Age, unitVars
    <2> QED
      BY <2>1
  <1>3. ASSUME NEW d \in Calls, NEW q \in People, AnswerSummon(d, q) \/ CancelHelp(d, q)
        PROVE  FALSE
    <2> DEFINE s == IF CancelHelp(d, q) THEN "open"
                    ELSE IF Cardinality(Seated(d)) + 1 >= call[d].needed THEN "covered"
                    ELSE call[d].stage
    <2>1. Live(d) /\ call' = [call EXCEPT ![d].stage = s]
      BY <1>3 DEF AnswerSummon, CancelHelp
    <2>2. s \in {"open", "covered"}
      BY <2>1 DEF Live
    <2> HIDE DEF s
    <2>3. call'[d].stage = s /\ \A e \in Calls \ {d} : call'[e] = call[e]
      BY <1>0, <2>1, <2>2, StageMoves DEF Stages
    <2> QED
      BY <2>2, <2>3 DEF Live
  <1>4. ASSUME NEW d \in Calls, End(d)
        PROVE  r.at = call[c].at /\ help[c][p] = "joined"
    <2>1. /\ call' = [call EXCEPT ![d].stage = "closed"]
          /\ Stops(d, {q \in People : help[d][q] = "joined"})
      BY <1>4 DEF End
    <2>2. \A e \in Calls \ {d} : call'[e] = call[e]
      BY <1>0, <2>1, StageMoves DEF Stages
    <2>3. d = c
      BY <2>2 DEF Live
    <2> QED
      BY <2>1, <2>3 DEF Stops
  <1> QED
    BY <1>1, <1>2, <1>3, <1>4
    DEF Next, WorkStep, allVars, CompleteHelp, CloseSummon, ExpireSummon

\* YESTERDAY'S CALL LEAVES TODAY'S WORK ALONE, for any crew and however a
\* call ends.
THEOREM EndingHolds == Spec => EndedCallStopsItsOwn
  <1>1. SeatInv /\ [Next]_allVars
        => [\A c \in Calls : Live(c) /\ call'[c].stage = "closed" =>
               \A p \in People : \A r \in running[p] \ running'[p] :
                   r.at = call[c].at /\ help[c][p] = "joined"]_allVars
    BY EndingStopsItsOwn
  <1> QED
    BY <1>1, SeatsHold, PTL DEF Spec, EndedCallStopsItsOwn

\* Types, for any crew and number of calls: in particular every row of work is
\* on an opening or in the field, whatever a break or a call put it there.
THEOREM SummonTypes == Spec => []TypeOK
  <1>1. UnitInv /\ acts \in 0..MaxActs => TypeOK
    BY DEF UnitInv, TypeOK, CallTypes, CallRow, Stages
  <1> QED
    BY <1>1, UnitsHold, PTL

\* A BREAK GIVES BACK WHAT IT TOOK, for any crew, and whatever was installed,
\* redone or taken by earlier breaks meanwhile.
THEOREM BreakReturns == Spec => BreakGivesBack
  <1> DEFINE Returns == \A p \in People :
                 EndBreak(p) /\ shift'[p] = "in" /\ stopped[p] \in Openings \ installed
                     => {r.at : r \in running'[p]} = {stopped[p]}
             Good == UnitInv /\ acts \in 0..MaxActs
  <1>1. ASSUME UnitInv, NEW p \in People, EndBreak(p), shift'[p] = "in",
               stopped[p] \in Openings \ installed
        PROVE  {r.at : r \in running'[p]} = {stopped[p]}
    <2>1. TypeUnits /\ HeldUnit(p) = stopped[p]
      BY <1>1, HeldIsStopped DEF UnitInv
    <2>2. stopped[p] # Field /\ stopped[p] # Nothing
      BY <1>1, UnitConstants
    <2>3. shift[p] = "break" /\ ~ResumeRefused(p)
      BY <1>1 DEF EndBreak
    <2>4. running' = [running EXCEPT ![p] = Resumed(p)]
      BY <1>1, <2>3 DEF EndBreak, Work
    <2>5. running'[p] = {[at |-> stopped[p], role |-> "install"]}
      BY <2>1, <2>2, <2>4 DEF Resumed, Handed, TypeUnits
    <2> QED
      BY <2>5
  <1>2. Good => Returns
    BY <1>1
  <1> HIDE DEF Returns, Good
  <1>3. Spec => []Good
    BY UnitsHold DEF Good
  <1>4. Good /\ [Next]_allVars => [Returns]_unitVars
    BY <1>2
  <1>5. Spec => [][Returns]_unitVars
    BY <1>3, <1>4, PTL DEF Spec
  <1> QED
    BY <1>5 DEF BreakGivesBack, Returns
=============================================================================
