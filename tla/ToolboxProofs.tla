--------------------------- MODULE ToolboxProofs ---------------------------
(***************************************************************************)
(* What holds of ToolboxDay for any number of signatures, clock-ins and    *)
(* tabs, any length of day and any distance between the two clocks.        *)
(***************************************************************************)
EXTENDS ToolboxDay, WellFoundedInduction, TLAPS

SigRow == [at : Moments \cup {None}, talk : Days \cup {None}, gone : BOOLEAN,
           stage : {"none", "queued", "refused", "sent"}]
PunchRow == [stage : {"none", "tapped", "queued", "refused", "in"},
             day : Days, after : SUBSET Sigs]

IsFiling(v) == \E s \in Sigs : filed[s] # None /\ filed[s] = v
Today(v) == v # None /\ Day(v) = Day(PhoneNow)

\* A row is of a signature that was made, and no later than now.
FiledIsPast == \A s \in Sigs : filed[s] # None => filed[s] <= hour /\ sig[s].stage # "none"
SentIsFiled == \A s \in Sigs : sig[s].stage = "sent" => filed[s] # None

\* It counts from no later than the phone said, and the phone said no later
\* than it is.
TimesInOrder ==
    \A s \in Sigs : sig[s].stage # "none" =>
        /\ sig[s].at \in Nat /\ sig[s].at <= PhoneNow
        /\ filed[s] # None => filed[s] <= sig[s].at

\* What has left the phone is kept there as confirmed, or a later one is.
SentIsKept == \A s \in Sigs : sig[s].stage = "sent" => filed[s] <= stored

\* Whatever a tab or the phone holds of the server's word is one of its rows,
\* and no tab remembers a later one than the phone.
HeardIsFiled ==
    /\ stored # None => IsFiling(stored)
    /\ saved # None => IsFiling(saved)
    /\ \A t \in Tabs :
        /\ memory[t] <= stored
        /\ memory[t] \notin {None, NotRead} => IsFiling(memory[t])
        /\ cache[t] # None => IsFiling(cache[t])
        /\ reading[t] \notin {None, NotRead} => IsFiling(reading[t])

\* An answer on its way says signed if the tab already says so.
ReadingIsFresh == \A t \in Tabs : reading[t] # NotRead /\ Today(cache[t]) => Today(reading[t])

\* A clock-in not sent yet follows a signature that was made, or was tapped
\* on the server's word for its day.
PunchFollows ==
    \A p \in Punches : punch[p].stage \in {"tapped", "queued"} =>
        /\ punch[p].after = {} => \E s \in Sigs : filed[s] # None /\ Day(filed[s]) = punch[p].day
        /\ \A s \in punch[p].after : sig[s].stage # "none"

SignInv == FiledIsPast /\ SentIsFiled /\ OwnDayOnly /\ TimesInOrder /\ SentIsKept
HeardInv == HeardIsFiled /\ ReadingIsFresh

IInv == TypeOK /\ SignInv /\ HeardInv /\ PunchFollows

----------------------------------------------------------------------------
(* Days.                                                                   *)

LEMMA DaysGoUp ==
    ASSUME NEW a \in Int, NEW b \in Int, a <= b
    PROVE  Day(a) \in Int /\ Day(a) <= Day(b)
  BY ToolboxConstants DEF Day

LEMMA MomentsHaveDays ==
    ASSUME NEW a \in Moments
    PROVE  a \in Nat /\ Day(a) \in Days
  <1>1. a \in Nat /\ a <= End + MaxAhead /\ 0 <= a
    BY ToolboxConstants DEF Moments
  <1>2. Day(0) = 0
    BY ToolboxConstants DEF Day
  <1>3. Day(a) \in Int /\ 0 <= Day(a) /\ Day(a) <= Day(End + MaxAhead)
    BY <1>1, <1>2, DaysGoUp, ToolboxConstants
  <1> QED
    BY <1>1, <1>3, DaysGoUp, ToolboxConstants DEF Days, Day

LEMMA NowIsAMoment ==
    ASSUME TypeOK
    PROVE  /\ hour \in Nat /\ hour \in Moments /\ PhoneNow \in Moments /\ PhoneNow \in Nat
           /\ hour <= PhoneNow
  BY ToolboxConstants DEF TypeOK, Moments, PhoneNow

\* A row of no earlier day than today's is today's.
LEMMA RowsAreOfToday ==
    ASSUME TypeOK, FiledIsPast, NEW v, IsFiling(v), Day(v) >= Day(PhoneNow)
    PROVE  Today(v)
  <1>1. v \in Nat /\ v <= PhoneNow /\ v # None
    <2>1. PICK s \in Sigs : filed[s] # None /\ filed[s] = v
      BY DEF IsFiling
    <2>2. v \in Moments /\ v <= hour
      BY <2>1 DEF TypeOK, FiledIsPast
    <2> QED
      BY <2>1, <2>2, NowIsAMoment, MomentsHaveDays
  <1>2. Day(v) <= Day(PhoneNow) /\ Day(v) \in Int /\ Day(PhoneNow) \in Int
    BY <1>1, DaysGoUp, NowIsAMoment
  <1> QED
    BY <1>1, <1>2 DEF Today

\* A set of naturals has a least one, and the rows of today a last one.
LEMMA LeastExists ==
    ASSUME NEW T, T \subseteq Nat, T # {}
    PROVE  \E m \in T : \A k \in T : m <= k
  <1> DEFINE less == OpToRel(<, Nat)
  <1>1. IsWellFoundedOn(less, Nat)
    BY NatLessThanWellFounded
  <1>2. \A k, m \in Nat : <<k, m>> \in less <=> k < m
    BY DEF OpToRel
  <1> HIDE DEF less
  <1>3. PICK m \in T : \A k \in T : ~(<<k, m>> \in less)
    BY <1>1, WFMin
  <1>4. ASSUME NEW k \in T PROVE m <= k
    <2>1. k \in Nat /\ m \in Nat /\ ~(<<k, m>> \in less)
      BY <1>3
    <2>2. ~(k < m)
      BY <2>1, <1>2
    <2> QED
      BY <2>1, <2>2
  <1> QED
    BY <1>4

LEMMA AnswerIsARow ==
    ASSUME TypeOK, FiledIsPast
    PROVE  /\ Answer = None \/ (IsFiling(Answer) /\ Day(Answer) >= Day(PhoneNow))
           /\ \A v : IsFiling(v) /\ Day(v) >= Day(PhoneNow) => Answer # None
  <1> DEFINE today == {filed[s] : s \in {x \in Sigs : filed[x] # None /\ Day(filed[x]) >= Day(PhoneNow)}}
             T == {hour - a : a \in today}
  <1>1. \A a \in today : a \in Nat /\ a <= hour /\ a # None /\ IsFiling(a) /\ Day(a) >= Day(PhoneNow)
    BY MomentsHaveDays DEF TypeOK, FiledIsPast, IsFiling
  <1>2. CASE today = {}
    <2>1. \A v : ~(IsFiling(v) /\ Day(v) >= Day(PhoneNow))
      BY <1>2 DEF IsFiling
    <2> QED
      BY <1>2, <2>1 DEF Answer
  <1>3. CASE today # {}
    <2>1. T \subseteq Nat /\ T # {}
      BY <1>1, <1>3, NowIsAMoment
    <2>2. PICK m \in T : \A k \in T : m <= k
      BY <2>1, LeastExists
    <2>3. PICK a \in today : m = hour - a
      BY <2>2
    <2>4. \A b \in today : b <= a
      <3> SUFFICES ASSUME NEW b \in today PROVE b <= a
        OBVIOUS
      <3>1. hour - b \in T /\ a \in Nat /\ b \in Nat /\ hour \in Nat
        BY <1>1, NowIsAMoment
      <3> HIDE DEF T
      <3> QED
        BY <2>2, <2>3, <3>1
    <2>5. Answer = CHOOSE x \in today : \A b \in today : b <= x
      BY <1>3 DEF Answer
    <2> HIDE DEF today
    <2>6. Answer \in today
      BY <2>3, <2>4, <2>5
    <2> QED
      BY <1>1, <2>6
  <1> QED
    BY <1>2, <1>3

----------------------------------------------------------------------------
(* The steps.                                                              *)

LEMMA Starts == Init => IInv
  <1> SUFFICES ASSUME Init PROVE IInv
    OBVIOUS
  <1>1. TypeOK
    <2>1. 0 \in Moments /\ 0 \in Days
      BY ToolboxConstants, MomentsHaveDays DEF Moments, Day
    <2> QED
      BY <2>1, ToolboxConstants DEF Init, TypeOK, NoSig, NoPunch
  <1> QED
    BY <1>1 DEF Init, IInv, SignInv, HeardInv, FiledIsPast, SentIsFiled, OwnDayOnly, TimesInOrder, SentIsKept, PhoneNow, HeardIsFiled,
                ReadingIsFresh, PunchFollows, NoSig, NoPunch, None, NotRead

\* The server's rows and the signatures only gain.
Gains ==
    /\ \A s \in Sigs : filed[s] # None => filed'[s] = filed[s]
    /\ \A s \in Sigs : sig[s].stage # "none" => sig'[s].stage # "none"

LEMMA FilingsStay ==
    ASSUME Gains, NEW v, IsFiling(v)
    PROVE  IsFiling(v)'
  BY DEF Gains, IsFiling

\* A step that only gains keeps what the clock-ins follow.
LEMMA FollowersStay ==
    ASSUME PunchFollows, TypeOK, Gains, punch' = punch
    PROVE  PunchFollows'
  <1> SUFFICES ASSUME NEW p \in Punches, punch[p].stage \in {"tapped", "queued"}
               PROVE  /\ punch[p].after = {} => \E s \in Sigs : filed'[s] # None /\ Day(filed'[s]) = punch[p].day
                      /\ \A s \in punch[p].after : sig'[s].stage # "none"
    BY DEF PunchFollows, Day, None
  <1>1. punch[p].after \subseteq Sigs
    BY DEF TypeOK
  <1> QED
    BY <1>1 DEF PunchFollows, Gains

\* A step that only gains, on a phone left alone and a day that stays.
LEMMA HeardStays ==
    ASSUME HeardInv, Gains, UNCHANGED Phone, Day(PhoneNow)' = Day(PhoneNow)
    PROVE  HeardInv'
  <1>1. HeardIsFiled'
    BY FilingsStay DEF HeardInv, HeardIsFiled, Phone, None, NotRead
  <1>2. ReadingIsFresh'
    BY DEF HeardInv, ReadingIsFresh, Today, Phone, Day, None, NotRead
  <1> QED
    BY <1>1, <1>2 DEF HeardInv

LEMMA TickKeeps ==
    ASSUME IInv, Tick
    PROVE  IInv'
  <1>1. TypeOK'
    BY ToolboxConstants DEF IInv, TypeOK, Tick, Phone, Moments, Days
  <1>2. SignInv'
    BY DEF IInv, TypeOK, SignInv, FiledIsPast, SentIsFiled, OwnDayOnly, TimesInOrder, SentIsKept, PhoneNow, Tick, Phone, Day, None, Moments
  <1>3. Gains /\ punch' = punch
    BY DEF Tick, Gains
  <1>4. PunchFollows'
    BY <1>3, FollowersStay DEF IInv
  <1>5. HeardIsFiled'
    BY <1>3, FilingsStay DEF IInv, HeardInv, HeardIsFiled, Tick, Phone, None, NotRead
  <1>6. ReadingIsFresh'
    <2> SUFFICES ASSUME NEW t \in Tabs, reading[t] # NotRead, Today(cache[t])'
                 PROVE  Today(reading[t])'
      BY DEF ReadingIsFresh, Tick, Phone, NotRead
    <2>1. /\ hour' = hour + 1 /\ ahead' = ahead /\ cache' = cache /\ reading' = reading
          /\ cache[t] # None /\ Day(cache[t]) = Day(PhoneNow)'
      BY DEF Tick, Phone, Today, None, Day
    <2>2. IsFiling(cache[t])
      BY <2>1 DEF IInv, HeardInv, HeardIsFiled
    <2>3. PhoneNow \in Int /\ PhoneNow' \in Int /\ PhoneNow <= PhoneNow'
      BY <2>1, NowIsAMoment DEF IInv, TypeOK, PhoneNow
    <2>4. Day(PhoneNow) <= Day(PhoneNow)' /\ Day(PhoneNow) \in Int
      BY <2>3, DaysGoUp DEF Day
    <2>5. Today(cache[t])
      BY <2>1, <2>2, <2>4, RowsAreOfToday DEF IInv, SignInv
    <2>6. Today(reading[t]) /\ Day(PhoneNow)' = Day(PhoneNow)
      BY <2>1, <2>5 DEF IInv, HeardInv, ReadingIsFresh, Today
    <2> QED
      BY <2>1, <2>6 DEF Today, Day, None
  <1> QED
    BY <1>1, <1>2, <1>4, <1>5, <1>6 DEF IInv, HeardInv

LEMMA RepointKeeps ==
    ASSUME IInv, NEW d \in Days, Repoint(d)
    PROVE  IInv'
  <1>0. /\ UNCHANGED <<filed, punch, hour, ahead, noTalk>> /\ UNCHANGED Phone
        /\ repointed' = repointed \cup {d}
        /\ sig' = [s \in Sigs |-> [sig[s] EXCEPT !.gone = @ \/ sig[s].talk = d]]
    BY DEF Repoint
  <1>1. ASSUME NEW s \in Sigs
        PROVE  /\ sig'[s] \in SigRow /\ sig'[s].stage = sig[s].stage /\ sig'[s].at = sig[s].at
               /\ sig'[s].talk = sig[s].talk /\ (~sig'[s].gone => ~sig[s].gone)
    <2>1. sig[s] \in SigRow
      BY DEF IInv, TypeOK, SigRow
    <2> DEFINE row == [at |-> sig[s].at, talk |-> sig[s].talk, gone |-> sig[s].gone \/ sig[s].talk = d,
                       stage |-> sig[s].stage]
    <2>2. sig'[s] = row
      BY <1>0, <2>1 DEF SigRow
    <2>3. (sig[s].gone \/ sig[s].talk = d) \in BOOLEAN
      OBVIOUS
    <2>4. row \in SigRow
      BY <2>1, <2>3 DEF SigRow
    <2>5. /\ row.stage = sig[s].stage /\ row.at = sig[s].at /\ row.talk = sig[s].talk
          /\ row.gone = (sig[s].gone \/ sig[s].talk = d)
      OBVIOUS
    <2>6. ~row.gone => ~sig[s].gone
      BY <2>5, Zenon
    <2> HIDE DEF row
    <2> QED
      BY <2>2, <2>4, <2>5, <2>6
  <1>2. TypeOK'
    <2>1. sig' \in [Sigs -> SigRow]
      BY <1>0, <1>1
    <2> QED
      BY <1>0, <2>1 DEF IInv, TypeOK, SigRow, Phone, Moments, Days
  <1>3. SignInv'
    BY <1>0, <1>1 DEF IInv, SignInv, FiledIsPast, SentIsFiled, OwnDayOnly, TimesInOrder, SentIsKept, PhoneNow,
                      Phone, Day, None
  <1>4. Gains /\ Day(PhoneNow)' = Day(PhoneNow)
    BY <1>0, <1>1 DEF Gains, Day, PhoneNow
  <1> QED
    BY <1>0, <1>2, <1>3, <1>4, FollowersStay, HeardStays DEF IInv

LEMMA SignKeeps ==
    ASSUME IInv, NEW s \in Sigs, NEW d \in Days, NEW talk \in Days, NEW gone \in BOOLEAN,
           Sign(s, d, talk, gone)
    PROVE  IInv'
  <1> DEFINE row == [at |-> PhoneNow, talk |-> talk, gone |-> gone, stage |-> "queued"]
  <1>0. /\ sig[s].stage = "none" /\ filed[s] = None
        /\ row \in SigRow /\ sig' = [sig EXCEPT ![s] = row]
        /\ UNCHANGED <<filed, punch, hour, ahead, noTalk, repointed>> /\ UNCHANGED Phone
    BY NowIsAMoment DEF IInv, SignInv, FiledIsPast, Sign, NoSig, SigRow, Server
  <1>1. TypeOK'
    BY <1>0 DEF IInv, TypeOK, Phone, SigRow, Moments, Days
  <1>2. \A r \in Sigs : r # s => sig'[r] = sig[r]
    BY <1>0 DEF IInv, TypeOK
  <1>3. sig'[s] = row
    BY <1>0 DEF IInv, TypeOK
  <1>4. SignInv'
    BY <1>0, <1>2, <1>3, NowIsAMoment DEF IInv, SignInv, FiledIsPast, SentIsFiled, OwnDayOnly, TimesInOrder,
                                          SentIsKept, PhoneNow, Phone, Day, None
  <1>5. Gains /\ Day(PhoneNow)' = Day(PhoneNow)
    BY <1>0, <1>2, <1>3 DEF Gains, Day, PhoneNow
  <1> QED
    BY <1>0, <1>1, <1>4, <1>5, FollowersStay, HeardStays DEF IInv

\* A signature's stage moves and nothing else of it.
LEMMA StageMoves ==
    ASSUME TypeOK, NEW s \in Sigs, NEW x \in {"none", "queued", "refused", "sent"},
           sig' = [sig EXCEPT ![s].stage = x]
    PROVE  /\ sig' \in [Sigs -> SigRow]
           /\ sig'[s].stage = x /\ sig'[s].talk = sig[s].talk
           /\ sig'[s].at = sig[s].at /\ sig'[s].gone = sig[s].gone
           /\ \A r \in Sigs : r # s => sig'[r] = sig[r]
  <1> DEFINE row == [at |-> sig[s].at, talk |-> sig[s].talk, gone |-> sig[s].gone, stage |-> x]
  <1>1. sig \in [Sigs -> SigRow] /\ sig[s] \in SigRow
    BY DEF TypeOK, SigRow
  <1>2. [sig[s] EXCEPT !.stage = x] = row
    BY <1>1 DEF SigRow
  <1>3. sig' = [sig EXCEPT ![s] = row]
    BY <1>2
  <1> QED
    BY <1>1, <1>3 DEF SigRow

LEMMA SendKeeps ==
    ASSUME IInv, NEW s \in Sigs, Send(s)
    PROVE  IInv'
  <1>0. /\ sig[s].stage = "queued"
        /\ UNCHANGED <<punch, hour, ahead, noTalk, repointed>> /\ UNCHANGED Phone
    BY DEF Send, Server
  <1>1. CASE filed[s] = None /\ WrongDaysTalk(s)
    <2>1. sig' = [sig EXCEPT ![s].stage = "refused"] /\ filed' = filed
      BY <1>1 DEF Send
    <2>2. /\ sig' \in [Sigs -> SigRow]
          /\ sig'[s].stage = "refused" /\ sig'[s].talk = sig[s].talk
          /\ sig'[s].at = sig[s].at /\ sig'[s].gone = sig[s].gone
          /\ \A r \in Sigs : r # s => sig'[r] = sig[r]
      BY <2>1, StageMoves DEF IInv
    <2>3. TypeOK'
      BY <1>0, <2>1, <2>2 DEF IInv, TypeOK, Phone, SigRow, Moments, Days
    <2>4. SignInv'
      BY <1>0, <1>1, <2>1, <2>2 DEF IInv, SignInv, FiledIsPast, SentIsFiled, OwnDayOnly, TimesInOrder, SentIsKept,
                                    PhoneNow, Phone, Day, None
    <2>5. Gains /\ Day(PhoneNow)' = Day(PhoneNow)
      BY <1>0, <2>1, <2>2 DEF Gains, Day, PhoneNow
    <2> QED
      BY <1>0, <2>3, <2>4, <2>5, FollowersStay, HeardStays DEF IInv
  <1>2. CASE ~(filed[s] = None /\ WrongDaysTalk(s))
    <2>1. sig' = sig /\ filed' = [filed EXCEPT ![s] = IF @ = None THEN SignedAt(s) ELSE @]
      BY <1>2 DEF Send
    <2>2. \A r \in Sigs : r # s => filed'[r] = filed[r]
      BY <2>1 DEF IInv, TypeOK
    <2>3. filed'[s] = IF filed[s] = None THEN SignedAt(s) ELSE filed[s]
      BY <2>1 DEF IInv, TypeOK
    <2>4. SignedAt(s) \in Moments \cup {None} /\ SignedAt(s) <= hour
      BY NowIsAMoment DEF IInv, TypeOK, SignedAt, Moments, None
    <2>5. TypeOK'
      BY <1>0, <2>1, <2>4 DEF IInv, TypeOK, Phone, Moments, Days
    <2>9. sig[s].at \in Nat /\ SignedAt(s) <= sig[s].at
      BY <1>0, NowIsAMoment DEF IInv, SignInv, TimesInOrder, SignedAt
    <2>10. TimesInOrder' /\ SentIsKept'
      BY <1>0, <2>1, <2>2, <2>3, <2>9 DEF IInv, SignInv, TimesInOrder, SentIsKept, SentIsFiled, PhoneNow, Phone, None
    <2>6. FiledIsPast' /\ SentIsFiled'
      BY <1>0, <2>1, <2>2, <2>3, <2>4 DEF IInv, SignInv, FiledIsPast, SentIsFiled, None
    <2>7. OwnDayOnly'
      <3> SUFFICES ASSUME NEW r \in Sigs, filed'[r] # None, ~sig[r].gone,
                          Day(filed'[r]) \notin noTalk
                   PROVE  Day(filed'[r]) = sig[r].talk
        BY <1>0, <2>1 DEF OwnDayOnly, Day, None
      <3>1. CASE filed[r] # None
        BY <3>1, <2>2, <2>3 DEF IInv, SignInv, OwnDayOnly
      <3>2. CASE filed[r] = None
        BY <3>2, <1>2, <2>2, <2>3 DEF WrongDaysTalk
      <3> QED
        BY <3>1, <3>2
    <2>8. Gains /\ Day(PhoneNow)' = Day(PhoneNow)
      BY <1>0, <2>1, <2>2, <2>3 DEF Gains, Day, PhoneNow
    <2> QED
      BY <1>0, <2>5, <2>6, <2>7, <2>8, <2>10, FollowersStay, HeardStays DEF IInv, SignInv
  <1> QED
    BY <1>1, <1>2

LEMMA TryAgainKeeps ==
    ASSUME IInv, NEW s \in Sigs, TryAgain(s)
    PROVE  IInv'
  <1>1. /\ sig[s].stage = "refused" /\ sig' = [sig EXCEPT ![s].stage = "queued"]
        /\ UNCHANGED <<filed, punch, hour, ahead, noTalk, repointed>> /\ UNCHANGED Phone
    BY DEF TryAgain, Server
  <1>2. /\ sig' \in [Sigs -> SigRow]
        /\ sig'[s].stage = "queued" /\ sig'[s].talk = sig[s].talk
        /\ sig'[s].at = sig[s].at /\ sig'[s].gone = sig[s].gone
        /\ \A r \in Sigs : r # s => sig'[r] = sig[r]
    BY <1>1, StageMoves DEF IInv
  <1>3. TypeOK'
    BY <1>1, <1>2 DEF IInv, TypeOK, Phone, SigRow, Moments, Days
  <1>4. SignInv'
    BY <1>1, <1>2 DEF IInv, SignInv, FiledIsPast, SentIsFiled, OwnDayOnly, TimesInOrder, SentIsKept, PhoneNow,
                      Phone, Day, None
  <1>5. Gains /\ Day(PhoneNow)' = Day(PhoneNow)
    BY <1>1, <1>2 DEF Gains, Day, PhoneNow
  <1> QED
    BY <1>1, <1>3, <1>4, <1>5, FollowersStay, HeardStays DEF IInv

\* The phone keeps the later of two confirmations, and so does the tab.
LEMMA ConfirmKeepsNewest ==
    ASSUME IInv, NEW s \in Sigs, NEW t \in Tabs, Confirm(s, t)
    PROVE  /\ stored' \in Moments \cup {None} /\ stored' >= stored
           /\ stored' = stored \/ stored' = filed[s]
           /\ filed[s] <= stored'
           /\ memory' = [memory EXCEPT ![t] = stored']
  <1>1. filed[s] \in Moments /\ stored \in Moments \cup {None} /\ filed[s] # None
    BY DEF Confirm, IInv, TypeOK
  <1>2. Remembered(t) <= stored
    BY <1>1 DEF IInv, HeardInv, HeardIsFiled, Remembered, Moments, None
  <1>3. Newest(t) = stored
    BY <1>1, <1>2 DEF IInv, TypeOK, Newest, Remembered, Moments, None, NotRead
  <1> QED
    BY <1>1, <1>3 DEF Confirm, Moments, None

LEMMA ConfirmKeeps ==
    ASSUME IInv, NEW s \in Sigs, NEW t \in Tabs, Confirm(s, t)
    PROVE  IInv'
  <1>1. /\ sig[s].stage = "queued" /\ filed[s] # None /\ filed[s] \in Moments
        /\ sig' = [sig EXCEPT ![s].stage = "sent"]
        /\ UNCHANGED <<filed, punch, hour, ahead, noTalk, repointed>>
    BY DEF Confirm, Server, IInv, TypeOK
  <1>2. /\ sig' \in [Sigs -> SigRow]
        /\ sig'[s].stage = "sent" /\ sig'[s].talk = sig[s].talk
        /\ sig'[s].at = sig[s].at /\ sig'[s].gone = sig[s].gone
        /\ \A r \in Sigs : r # s => sig'[r] = sig[r]
    BY <1>1, StageMoves DEF IInv
  <1>3. /\ stored' \in Moments \cup {None} /\ stored' >= stored
        /\ stored' = stored \/ stored' = filed[s]
        /\ filed[s] <= stored' /\ saved' = saved
        /\ memory' = [memory EXCEPT ![t] = stored']
    BY ConfirmKeepsNewest DEF Confirm
  <1>4. \/ filed[s] >= cache[t] /\ cache' = [cache EXCEPT ![t] = filed[s]]
           /\ reading' = [reading EXCEPT ![t] = NotRead]
        \/ UNCHANGED <<cache, reading>>
    BY DEF Confirm
  <1>5. TypeOK'
    BY <1>1, <1>2, <1>3, <1>4 DEF IInv, TypeOK, SigRow, Moments, Days
  <1>6. SignInv'
    <2>1. \A r \in Sigs : sig[r].stage = "sent" => filed[r] \in Int /\ stored \in Int /\ stored' \in Int
      BY <1>3, ToolboxConstants DEF IInv, TypeOK, Moments, None
    <2>2. SentIsKept'
      BY <1>1, <1>2, <1>3, <2>1 DEF IInv, SignInv, SentIsKept
    <2> QED
      BY <1>1, <1>2, <2>2 DEF IInv, SignInv, FiledIsPast, SentIsFiled, OwnDayOnly, TimesInOrder, PhoneNow, Day, None
  <1>7. Gains /\ Day(PhoneNow)' = Day(PhoneNow)
    BY <1>1, <1>2 DEF Gains, Day, PhoneNow
  <1>8. /\ \A v : IsFiling(v) <=> \E r \in Sigs : filed'[r] # None /\ filed'[r] = v
        /\ IsFiling(filed[s]) /\ (stored' # None => IsFiling(stored')) /\ (saved' # None => IsFiling(saved'))
    BY <1>1, <1>3 DEF IInv, HeardInv, HeardIsFiled, IsFiling
  <1>9. HeardIsFiled'
    <2>1. ASSUME NEW u \in Tabs
          PROVE  /\ memory'[u] <= stored'
                 /\ memory'[u] \notin {None, NotRead} => IsFiling(memory'[u])
                 /\ cache'[u] # None => IsFiling(cache'[u])
                 /\ reading'[u] \notin {None, NotRead} => IsFiling(reading'[u])
      <3>1. /\ memory[u] <= stored
            /\ memory[u] \notin {None, NotRead} => IsFiling(memory[u])
            /\ cache[u] # None => IsFiling(cache[u])
            /\ reading[u] \notin {None, NotRead} => IsFiling(reading[u])
        BY DEF IInv, HeardInv, HeardIsFiled
      <3>2. /\ memory'[u] = IF u = t THEN stored' ELSE memory[u]
            /\ cache'[u] \in {cache[u], filed[s]}
            /\ reading'[u] \in {reading[u], NotRead}
        BY <1>3, <1>4 DEF IInv, TypeOK
      <3>3. memory[u] \in Int /\ stored \in Int /\ stored' \in Int
        BY <1>3, ToolboxConstants DEF IInv, TypeOK, Moments, None, NotRead
      <3> QED
        BY <1>3, <1>8, <3>1, <3>2, <3>3
    <2> QED
      BY <1>8, <2>1 DEF HeardIsFiled, IsFiling, None, NotRead
  <1>10. ReadingIsFresh'
    BY <1>1, <1>4, <1>7 DEF IInv, TypeOK, HeardInv, ReadingIsFresh, Today, Day, None, NotRead
  <1> QED
    BY <1>1, <1>5, <1>6, <1>7, <1>9, <1>10, FollowersStay DEF IInv, HeardInv

\* A step of a screen: the rows, the signatures and the clock-ins stay.
LEMMA ScreenKeeps ==
    ASSUME IInv, NEW t \in Tabs, AskForge(t) \/ Hear(t) \/ Look(t) \/ Save(t) \/ Reload(t)
    PROVE  IInv'
  <1>1. UNCHANGED <<sig, filed, stored, punch, hour, ahead, noTalk, repointed>>
    BY DEF AskForge, Hear, Look, Save, Reload, Server
  <1>2. SignInv' /\ PunchFollows' /\ Gains /\ Day(PhoneNow)' = Day(PhoneNow)
    BY <1>1 DEF IInv, SignInv, FiledIsPast, SentIsFiled, OwnDayOnly, TimesInOrder, SentIsKept, PhoneNow, PunchFollows, Gains, Day, PhoneNow, None
  <1>3. \A v : (IsFiling(v) <=> IsFiling(v)') /\ (Today(v) <=> Today(v)')
    BY <1>1, <1>2 DEF IsFiling, Today, Day, None
  <1>4. TypeOK /\ FiledIsPast /\ HeardIsFiled /\ ReadingIsFresh
    BY DEF IInv, SignInv, HeardInv
  <1>5. CASE AskForge(t)
    <2>1. /\ reading' = [reading EXCEPT ![t] = Answer] /\ UNCHANGED <<memory, cache, saved>>
      BY <1>5 DEF AskForge
    <2>2. /\ Answer = None \/ (IsFiling(Answer) /\ Day(Answer) >= Day(PhoneNow))
          /\ \A v : IsFiling(v) /\ Day(v) >= Day(PhoneNow) => Answer # None
      BY <1>4, AnswerIsARow
    <2>3. Answer = None \/ (Answer \in Moments /\ IsFiling(Answer) /\ Today(Answer))
      BY <1>4, <2>2, RowsAreOfToday DEF TypeOK, IsFiling
    <2>4. Today(cache[t]) => Today(Answer)
      <3> SUFFICES ASSUME Today(cache[t]) PROVE Today(Answer)
        OBVIOUS
      <3>1. IsFiling(cache[t]) /\ Day(cache[t]) = Day(PhoneNow)
        BY <1>4 DEF HeardIsFiled, Today
      <3>2. Day(PhoneNow) \in Int
        BY <1>4, NowIsAMoment, DaysGoUp
      <3> QED
        BY <3>1, <3>2, <2>2, <2>3
    <2>5. TypeOK'
      BY <1>1, <1>4, <2>1, <2>3 DEF TypeOK, Moments, Days
    <2>6. HeardIsFiled'
      BY <1>1, <1>3, <1>4, <2>1, <2>3 DEF TypeOK, HeardIsFiled, None, NotRead
    <2>7. ReadingIsFresh'
      BY <1>1, <1>3, <1>4, <2>1, <2>4 DEF TypeOK, ReadingIsFresh, NotRead
    <2> QED
      BY <1>2, <2>5, <2>6, <2>7 DEF IInv, HeardInv
  <1>6. CASE Hear(t)
    <2>1. /\ reading[t] # NotRead
          /\ cache' = [cache EXCEPT ![t] = reading[t]]
          /\ reading' = [reading EXCEPT ![t] = NotRead] /\ UNCHANGED <<memory, saved>>
      BY <1>6 DEF Hear
    <2>5. TypeOK'
      BY <1>1, <1>4, <2>1 DEF TypeOK, Moments, Days
    <2>6. HeardIsFiled'
      BY <1>1, <1>3, <1>4, <2>1 DEF TypeOK, HeardIsFiled, None, NotRead
    <2>7. ReadingIsFresh'
      BY <1>1, <1>3, <1>4, <2>1 DEF TypeOK, ReadingIsFresh, NotRead
    <2> QED
      BY <1>2, <2>5, <2>6, <2>7 DEF IInv, HeardInv
  <1>7. CASE Look(t) \/ Save(t) \/ Reload(t)
    <2>1. /\ \/ cache' = cache /\ reading' = reading
             \/ cache' = [cache EXCEPT ![t] = saved] /\ reading' = [reading EXCEPT ![t] = NotRead]
          /\ \/ memory' = [memory EXCEPT ![t] = stored] \/ memory' = [memory EXCEPT ![t] = NotRead]
             \/ memory' = memory
          /\ saved' \in {saved, cache[t]}
      BY <1>7 DEF Look, Save, Reload
    <2>2. stored \in Moments \cup {None} /\ NotRead <= stored
      BY <1>4, MomentsHaveDays DEF TypeOK, None, NotRead
    <2>5. TypeOK'
      BY <1>1, <1>4, <2>1, <2>2 DEF TypeOK, Moments, Days
    <2>6. HeardIsFiled'
      BY <1>1, <1>3, <1>4, <2>1, <2>2 DEF TypeOK, HeardIsFiled, Moments, None, NotRead
    <2>7. ReadingIsFresh'
      BY <1>1, <1>3, <1>4, <2>1 DEF TypeOK, ReadingIsFresh, NotRead
    <2> QED
      BY <1>2, <2>5, <2>6, <2>7 DEF IInv, HeardInv
  <1> QED
    BY <1>5, <1>6, <1>7

\* The clock-in: tapped behind an open gate, put, and sent.
LEMMA PunchKeeps ==
    ASSUME IInv, NEW p \in Punches,
           Put(p) \/ SendIn(p) \/ \E t \in Tabs : TapIn(p, t)
    PROVE  IInv'
  <1>1. UNCHANGED <<sig, filed, hour, ahead, noTalk, repointed>> /\ UNCHANGED Phone
    BY DEF TapIn, Put, SendIn, Server
  <1>2. SignInv' /\ HeardInv'
    <2>1. Gains /\ Day(PhoneNow)' = Day(PhoneNow)
      BY <1>1 DEF Gains, Day, PhoneNow
    <2>2. SignInv'
      BY <1>1 DEF IInv, SignInv, FiledIsPast, SentIsFiled, OwnDayOnly, TimesInOrder, SentIsKept, PhoneNow, Day, None, Phone
    <2> QED
      BY <1>1, <2>1, <2>2, HeardStays DEF IInv
  <1>3. TypeOK /\ punch \in [Punches -> PunchRow] /\ punch[p] \in PunchRow
    BY DEF IInv, TypeOK, PunchRow
  <1>4. ASSUME NEW row \in PunchRow, punch' = [punch EXCEPT ![p] = row],
               row.stage \in {"tapped", "queued"} =>
                 /\ row.after = {} => \E s \in Sigs : filed[s] # None /\ Day(filed[s]) = row.day
                 /\ \A s \in row.after : sig[s].stage # "none"
        PROVE  IInv'
    <2>1. TypeOK'
      BY <1>1, <1>3, <1>4 DEF TypeOK, PunchRow, Phone, Moments, Days
    <2>2. PunchFollows'
      BY <1>1, <1>3, <1>4 DEF IInv, PunchFollows, Day, None
    <2> QED
      BY <1>2, <2>1, <2>2 DEF IInv
  <1>5. ASSUME NEW t \in Tabs, TapIn(p, t)
        PROVE  IInv'
    <2>1. PICK newest \in {{s} : s \in TodaysPending} \cup {{}} :
            /\ newest = {} <=> TodaysPending = {}
            /\ punch' = [punch EXCEPT ![p] = [stage |-> "tapped", day |-> Day(PhoneNow), after |-> newest]]
      BY <1>5 DEF TapIn
    <2> DEFINE row == [stage |-> "tapped", day |-> Day(PhoneNow), after |-> newest]
    <2>2. row \in PunchRow
      BY <1>3, NowIsAMoment, MomentsHaveDays DEF PunchRow, TodaysPending
    <2>3. \A s \in newest : sig[s].stage # "none"
      BY DEF TodaysPending, OnPhone
    <2>4. ASSUME newest = {}
          PROVE  \E s \in Sigs : filed[s] # None /\ Day(filed[s]) = Day(PhoneNow)
      <3>1. SaysSigned(t)
        BY <1>5, <2>1, <2>4 DEF TapIn, GateOpen
      <3>2. \E v : IsFiling(v) /\ Day(v) = Day(PhoneNow)
        BY <3>1 DEF SaysSigned, Remembered, IInv, HeardInv, HeardIsFiled
      <3> QED
        BY <3>2 DEF IsFiling
    <2> QED
      BY <1>4, <2>1, <2>2, <2>3, <2>4
  <1>6. CASE Put(p) \/ SendIn(p)
    <2>1. PICK x \in {"queued", "in", "refused"} : punch' = [punch EXCEPT ![p].stage = x]
      BY <1>6 DEF Put, SendIn
    <2> DEFINE row == [stage |-> x, day |-> punch[p].day, after |-> punch[p].after]
    <2>2. row \in PunchRow /\ [punch[p] EXCEPT !.stage = x] = row
      BY <1>3 DEF PunchRow
    <2>3. punch' = [punch EXCEPT ![p] = row]
      BY <2>1, <2>2
    <2>4. punch[p].stage \in {"tapped", "queued"}
      BY <1>6 DEF Put, SendIn
    <2> QED
      BY <1>4, <2>2, <2>3, <2>4 DEF IInv, PunchFollows
  <1> QED
    BY <1>5, <1>6

LEMMA StutterKeeps ==
    ASSUME IInv, UNCHANGED vars
    PROVE  IInv'
  BY DEF IInv, TypeOK, SignInv, FiledIsPast, SentIsFiled, OwnDayOnly, TimesInOrder, SentIsKept, PhoneNow, HeardInv, HeardIsFiled, ReadingIsFresh,
         PunchFollows, IsFiling, Today, Day, PhoneNow, Moments, Days, None, NotRead, vars

LEMMA Keeps == IInv /\ [Next]_vars => IInv'
  <1> SUFFICES ASSUME IInv, [Next]_vars PROVE IInv'
    OBVIOUS
  <1>1. CASE UNCHANGED vars
    BY <1>1, StutterKeeps
  <1>2. CASE Tick
    BY <1>2, TickKeeps
  <1>3. ASSUME NEW d \in Days,
               \/ Repoint(d)
               \/ \E s \in Sigs, talk \in Days, gone \in BOOLEAN : Sign(s, d, talk, gone)
        PROVE  IInv'
    BY <1>3, RepointKeeps, SignKeeps
  <1>4. ASSUME NEW s \in Sigs, Send(s) \/ TryAgain(s) \/ \E t \in Tabs : Confirm(s, t)
        PROVE  IInv'
    BY <1>4, SendKeeps, TryAgainKeeps, ConfirmKeeps
  <1>5. ASSUME NEW t \in Tabs, AskForge(t) \/ Hear(t) \/ Look(t) \/ Save(t) \/ Reload(t)
        PROVE  IInv'
    BY <1>5, ScreenKeeps
  <1>6. ASSUME NEW p \in Punches, Put(p) \/ SendIn(p) \/ \E t \in Tabs : TapIn(p, t)
        PROVE  IInv'
    BY <1>6, PunchKeeps
  <1> QED
    BY <1>1, <1>2, <1>3, <1>4, <1>5, <1>6 DEF Next

LEMMA Holds == Spec => []IInv
  BY Starts, Keeps, PTL DEF Spec

----------------------------------------------------------------------------
(* The theorems.                                                           *)

\* Types, for every value of the constants: in particular no moment, day or
\* answer leaves the range the two clocks can reach.
THEOREM TypesHold == Spec => []TypeOK
  <1>1. IInv => TypeOK
    BY DEF IInv
  <1> QED
    BY <1>1, Holds, PTL

\* A SIGNATURE OPENS ITS OWN DAY ONLY, for any clocks, talks replaced and
\* signatures sent twice or late.
THEOREM OwnDayHolds == Spec => []OwnDayOnly
  <1>1. IInv => OwnDayOnly
    BY DEF IInv, SignInv
  <1> QED
    BY <1>1, Holds, PTL

LEMMA StoredGrows == IInv /\ [Next]_vars => [stored' >= stored]_vars
  <1> SUFFICES ASSUME IInv, [Next]_vars PROVE stored' >= stored
    OBVIOUS
  <1>1. stored \in Int
    BY ToolboxConstants DEF IInv, TypeOK, Moments, None
  <1>2. ASSUME NEW s \in Sigs, NEW t \in Tabs, Confirm(s, t)
        PROVE  stored' >= stored
    BY <1>2, ConfirmKeepsNewest
  <1>3. CASE stored' = stored
    BY <1>1, <1>3
  <1> QED
    BY <1>2, <1>3 DEF Next, vars, Tick, Repoint, Sign, Send, TryAgain, AskForge, Hear, Look, Save, Reload,
       TapIn, Put, SendIn, Phone

\* THE CONFIRMATION ON THE PHONE NEVER GOES BACK, for any number of tabs
\* confirming any number of signatures in any order.
THEOREM NewestHolds == Spec => ConfirmationIsNewest
  BY StoredGrows, Holds, PTL DEF Spec, ConfirmationIsNewest

\* What is today's stays today's when a later row takes its place.
LEMMA LaterIsToday ==
    ASSUME IInv, NEW a, Today(a), IsFiling(a), NEW b, IsFiling(b), b >= a
    PROVE  Today(b)
  <1>1. a \in Int /\ b \in Int
    BY MomentsHaveDays DEF IInv, TypeOK, IsFiling
  <1>2. Day(a) <= Day(b) /\ Day(a) = Day(PhoneNow)
    BY <1>1, DaysGoUp DEF Today
  <1> QED
    BY <1>2, RowsAreOfToday DEF IInv, SignInv

\* A row of today's is kept as confirmed, or its signature is on the phone.
LEMMA RowsAreKept ==
    ASSUME IInv, NEW v, IsFiling(v), Today(v), TodaysPending = {}
    PROVE  Today(stored)
  <1>1. PICK s \in Sigs : filed[s] # None /\ filed[s] = v
    BY DEF IsFiling
  <1>2. /\ sig[s].stage # "none" /\ sig[s].at \in Nat /\ sig[s].at <= PhoneNow /\ v <= sig[s].at
        /\ v \in Nat /\ PhoneNow \in Nat
    BY <1>1, NowIsAMoment, MomentsHaveDays DEF IInv, TypeOK, SignInv, FiledIsPast, TimesInOrder
  <1>3. Day(sig[s].at) = Day(PhoneNow)
    <2>1. /\ Day(v) <= Day(sig[s].at) /\ Day(sig[s].at) <= Day(PhoneNow)
          /\ Day(v) \in Int /\ Day(sig[s].at) \in Int /\ Day(PhoneNow) \in Int
      BY <1>2, DaysGoUp
    <2> QED
      BY <2>1 DEF Today
  <1>4. sig[s].stage = "sent"
    BY <1>2, <1>3 DEF TodaysPending, OnPhone, IInv, TypeOK
  <1>5. v <= stored /\ stored \in Int
    BY <1>1, <1>4, ToolboxConstants DEF IInv, TypeOK, SignInv, SentIsKept, Moments, None
  <1>6. stored # None /\ IsFiling(stored)
    BY <1>2, <1>5 DEF IInv, HeardInv, HeardIsFiled, None
  <1> QED
    BY <1>5, <1>6, LaterIsToday

\* A gate that is open without a signature on the phone is open by a row.
LEMMA OpenByARow ==
    ASSUME IInv, NEW t \in Tabs, GateOpen(t), TodaysPending = {}
    PROVE  Today(stored) /\ (Today(cache[t]) \/ Today(Remembered(t)))
  <1>1. Today(cache[t]) \/ Today(Remembered(t))
    BY DEF GateOpen, SaysSigned, Today
  <1>2. /\ Today(cache[t]) => IsFiling(cache[t])
        /\ Today(Remembered(t)) => IsFiling(Remembered(t))
    BY DEF IInv, HeardInv, HeardIsFiled, Today, Remembered
  <1> QED
    BY <1>1, <1>2, RowsAreKept

\* No signature leaves the phone: the gate stays as it is.
LEMMA StaysOpen ==
    ASSUME IInv, NEW t \in Tabs, GateOpen(t), Day(PhoneNow') = Day(PhoneNow), stored' = stored,
           \A s \in Sigs : OnPhone(s) => sig'[s].stage \in {"queued", "refused"} /\ sig'[s].at = sig[s].at,
           \/ \E u \in Tabs : Hear(u) \/ Look(u) \/ Reload(u)
           \/ UNCHANGED <<memory, cache>>
    PROVE  GateOpen(t)'
  <1>0. /\ stored # NotRead /\ cache \in [Tabs -> Moments \cup {None}]
        /\ memory \in [Tabs -> Moments \cup {None, NotRead}]
    BY ToolboxConstants DEF IInv, TypeOK, Moments, None, NotRead
  <1>1. CASE TodaysPending # {}
    <2>1. PICK s \in Sigs : OnPhone(s) /\ Day(sig[s].at) = Day(PhoneNow)
      BY <1>1 DEF TodaysPending
    <2>2. sig'[s].stage \in {"queued", "refused"} /\ Day(sig'[s].at) = Day(PhoneNow')
      BY <2>1
    <2>3. s \in {r \in Sigs : sig'[r].stage \in {"queued", "refused"} /\ Day(sig'[r].at) = Day(PhoneNow')}
      BY <2>2
    <2> QED
      BY <2>3 DEF GateOpen, TodaysPending, OnPhone, Day
  <1>2. CASE TodaysPending = {}
    <2>1. Today(stored) /\ (Today(cache[t]) \/ Today(Remembered(t)))
      BY <1>2, OpenByARow
    <2>2. \A v : Today(v) <=> (v # None /\ Day(v) = Day(PhoneNow'))
      BY DEF Today
    <2>3. ASSUME \/ Today(cache'[t])
                 \/ Today(IF memory'[t] = NotRead THEN stored' ELSE memory'[t])
          PROVE  GateOpen(t)'
      BY <2>2, <2>3 DEF GateOpen, SaysSigned, Remembered, Day, None, NotRead
    <2>4. ASSUME NEW u \in Tabs, Hear(u) PROVE GateOpen(t)'
      <3>1. cache' = [cache EXCEPT ![u] = reading[u]] /\ reading[u] # NotRead /\ UNCHANGED memory
        BY <2>4 DEF Hear
      <3>2. Today(cache[t]) => Today(cache'[t])
        BY <1>0, <3>1 DEF IInv, HeardInv, ReadingIsFresh
      <3> QED
        BY <2>1, <2>3, <3>1, <3>2 DEF Remembered
    <2>5. ASSUME NEW u \in Tabs, Look(u) \/ Reload(u) PROVE GateOpen(t)'
      <3>1. /\ memory'[u] \in {stored, NotRead}
            /\ u # t => memory'[t] = memory[t] /\ cache'[t] = cache[t]
        BY <1>0, <2>5 DEF Look, Reload
      <3> QED
        BY <1>0, <2>1, <2>3, <3>1 DEF Remembered
    <2>6. CASE UNCHANGED <<memory, cache>>
      BY <2>1, <2>3, <2>6 DEF Remembered
    <2> QED
      BY <2>4, <2>5, <2>6
  <1> QED
    BY <1>1, <1>2

\* A signature leaves the phone: its tab keeps the confirmation.
LEMMA ClosesByConfirm ==
    ASSUME IInv, NEW t \in Tabs, NEW s \in Sigs, NEW u \in Tabs, Confirm(s, u),
           Day(PhoneNow') = Day(PhoneNow), ~GateOpen(t)'
    PROVE  /\ OnPhone(s) /\ ~OnPhone(s)'
           /\ Day(filed[s]) # Day(PhoneNow) \/ memory'[t] \notin {stored', NotRead}
  <1>1. /\ sig[s].stage = "queued" /\ filed[s] # None
        /\ sig' = [sig EXCEPT ![s].stage = "sent"]
    BY DEF Confirm
  <1>2. sig'[s].stage = "sent"
    BY <1>1, StageMoves DEF IInv
  <1>3. OnPhone(s) /\ ~OnPhone(s)'
    BY <1>1, <1>2 DEF OnPhone
  <1>4. ASSUME Day(filed[s]) = Day(PhoneNow), memory'[t] \in {stored', NotRead}
        PROVE  FALSE
    <2>1. /\ stored' \in Moments \cup {None} /\ filed[s] <= stored'
          /\ stored' = stored \/ stored' = filed[s]
      BY ConfirmKeepsNewest
    <2>2. IsFiling(filed[s]) /\ Today(filed[s]) /\ filed[s] \in Nat
      BY <1>1, <1>4, MomentsHaveDays DEF IsFiling, Today, IInv, TypeOK
    <2>3. stored' # None
      BY <2>1, <2>2 DEF None
    <2>4. IsFiling(stored')
      BY <2>1, <2>2, <2>3 DEF IInv, HeardInv, HeardIsFiled
    <2>5. Today(stored')
      BY <2>1, <2>2, <2>4, LaterIsToday
    <2>6. SaysSigned(t)'
      BY <1>4, <2>5 DEF SaysSigned, Remembered, Today, Day, None, NotRead
    <2> QED
      BY <2>6 DEF GateOpen
  <1> QED
    BY <1>3, <1>4

\* One tab, one step on which the phone's day stays.
LEMMA ClosesOnlySo ==
    ASSUME IInv, [Next]_vars, NEW t \in Tabs, GateOpen(t), Day(PhoneNow') = Day(PhoneNow), ~GateOpen(t)'
    PROVE  \E s \in Sigs : /\ OnPhone(s) /\ ~OnPhone(s)'
                           /\ Day(filed[s]) # Day(PhoneNow) \/ memory'[t] \notin {stored', NotRead}
  <1>1. CASE \E s \in Sigs, u \in Tabs : Confirm(s, u)
    BY <1>1, ClosesByConfirm
  <1>2. CASE ~\E s \in Sigs, u \in Tabs : Confirm(s, u)
    <2>1. ASSUME NEW s \in Sigs, OnPhone(s)
          PROVE  sig'[s].stage \in {"queued", "refused"} /\ sig'[s].at = sig[s].at
      <3>1. ASSUME NEW r \in Sigs, NEW x \in {"queued", "refused"}, sig' = [sig EXCEPT ![r].stage = x]
            PROVE  sig'[s].stage \in {"queued", "refused"} /\ sig'[s].at = sig[s].at
        BY <2>1, <3>1, StageMoves DEF IInv, OnPhone
      <3>2. ASSUME NEW r \in Sigs, NEW d \in Days, NEW talk \in Days, NEW gone \in BOOLEAN, Sign(r, d, talk, gone)
            PROVE  sig'[s].stage \in {"queued", "refused"} /\ sig'[s].at = sig[s].at
        BY <2>1, <3>2 DEF Sign, NoSig, OnPhone, IInv, TypeOK
      <3>3. ASSUME NEW d \in Days, Repoint(d)
            PROVE  sig'[s].stage \in {"queued", "refused"} /\ sig'[s].at = sig[s].at
        <4>1. sig'[s] = [sig[s] EXCEPT !.gone = @ \/ sig[s].talk = d] /\ sig[s] \in SigRow
          BY <3>3 DEF Repoint, IInv, TypeOK, SigRow
        <4> QED
          BY <2>1, <4>1 DEF SigRow, OnPhone
      <3>4. CASE sig' = sig
        BY <2>1, <3>4 DEF OnPhone
      <3> QED
        BY <1>2, <3>1, <3>2, <3>3, <3>4 DEF Next, vars, Tick, Send, TryAgain, AskForge, Hear, Look, Save, Reload,
           TapIn, Put, SendIn
    <2>2. /\ stored' = stored
          /\ \/ \E u \in Tabs : Hear(u) \/ Look(u) \/ Reload(u)
             \/ UNCHANGED <<memory, cache>>
      BY <1>2 DEF Next, vars, Tick, Repoint, Sign, Send, TryAgain, AskForge, Hear, Look, Save, Reload,
         TapIn, Put, SendIn, Phone
    <2> QED
      BY <2>1, <2>2, StaysOpen
  <1> QED
    BY <1>1, <1>2

\* AN OPEN GATE STAYS OPEN, for any number of tabs, answers in the air,
\* snapshots of other tabs and confirmations that come late.
THEOREM GateHolds == Spec => GateStaysOpen
  <1>1. IInv /\ [Next]_vars
        => [\A t \in Tabs : GateOpen(t) /\ Day(PhoneNow') = Day(PhoneNow) /\ ~GateOpen(t)' =>
              \E s \in Sigs : /\ OnPhone(s) /\ ~OnPhone(s)'
                              /\ Day(filed[s]) # Day(PhoneNow) \/ memory'[t] \notin {stored', NotRead}]_vars
    BY ClosesOnlySo
  <1> QED
    BY <1>1, Holds, PTL DEF Spec, GateStaysOpen

\* One clock-in, one step.
LEMMA NotSpent ==
    ASSUME IInv, [Next]_vars, NEW p \in Punches, punch[p].stage = "queued", punch'[p].stage = "refused"
    PROVE  \/ Day(hour) # punch[p].day
           \/ \E s \in punch[p].after : filed[s] # None /\ Day(filed[s]) # punch[p].day
  <1>0. punch \in [Punches -> PunchRow] /\ punch[p] \in PunchRow
    BY DEF IInv, TypeOK, PunchRow
  <1>1. PICK q \in Punches : Put(q) \/ SendIn(q) \/ \E t \in Tabs : TapIn(q, t)
    BY DEF Next, vars, Tick, Repoint, Sign, Send, Confirm, TryAgain, AskForge, Hear, Look, Save, Reload
  <1>2. SendIn(p) /\ ~SignedToday
    <2>1. q = p
      BY <1>0, <1>1 DEF Put, SendIn, TapIn
    <2>2. ~Put(p) /\ ~(\E t \in Tabs : TapIn(p, t))
      BY <1>0 DEF Put, TapIn, NoPunch
    <2>3. SendIn(p)
      BY <1>1, <2>1, <2>2
    <2>4. punch' = [punch EXCEPT ![p].stage = IF SignedToday THEN "in" ELSE "refused"]
      BY <2>3 DEF SendIn
    <2>5. CASE SignedToday
      <3>1. punch' = [punch EXCEPT ![p].stage = "in"]
        BY <2>4, <2>5
      <3> QED
        BY <3>1, <1>0
    <2> QED
      BY <2>3, <2>5
  <1> SUFFICES ASSUME Day(hour) = punch[p].day
               PROVE  \E s \in punch[p].after : filed[s] # None /\ Day(filed[s]) # punch[p].day
    OBVIOUS
  <1>3. \A s \in Sigs : filed[s] # None => Day(filed[s]) # punch[p].day
    BY <1>2 DEF SignedToday
  <1>4. punch[p].after # {} /\ punch[p].after \subseteq Sigs
    BY <1>0, <1>3 DEF IInv, PunchFollows, PunchRow
  <1>5. PICK s \in punch[p].after : TRUE
    BY <1>4
  <1>6. sig[s].stage \notin {"none", "queued", "refused"}
    BY <1>2, <1>4, <1>5 DEF SendIn, OnPhone, IInv, PunchFollows
  <1>7. sig[s].stage \in {"none", "queued", "refused", "sent"}
    BY <1>4, <1>5 DEF IInv, TypeOK
  <1>8. filed[s] # None
    BY <1>4, <1>6, <1>7 DEF IInv, SignInv, SentIsFiled
  <1> QED
    BY <1>3, <1>4, <1>8

\* A CLOCK-IN IS NOT SPENT ON A CLOSED GATE, for any number of clock-ins and
\* signatures: the signature a tap did not find on the phone was already filed.
THEOREM FollowerHolds == Spec => FollowerIsNotSpent
  <1>1. IInv /\ [Next]_vars
        => [\A p \in Punches : punch[p].stage = "queued" /\ punch'[p].stage = "refused" =>
              \/ Day(hour) # punch[p].day
              \/ \E s \in punch[p].after : filed[s] # None /\ Day(filed[s]) # punch[p].day]_vars
    BY NotSpent
  <1> QED
    BY <1>1, Holds, PTL DEF Spec, FollowerIsNotSpent
=============================================================================
