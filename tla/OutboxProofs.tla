---------------------------- MODULE OutboxProofs ----------------------------
(***************************************************************************)
(* What holds of Outbox for every set of writes, tabs and people: the      *)
(* types, and that nothing is lost, filed out of order or filed as someone *)
(* else.  The argument is the inductive invariant IInv of Outbox; the      *)
(* lemmas below say what one transaction and one read do to its parts.     *)
(***************************************************************************)
EXTENDS Outbox, TLAPS

(* Rows and what a transaction does to them *)

\* The empty row is an entry that waits on nothing.
LEMMA AbsentType ==
    /\ Absent \in Entry
    /\ Absent.status = "absent"
    /\ Absent.dependsOn = NoId
    /\ Nothing \in [Ids -> Entry]
    /\ \A i \in Ids : Nothing[i] = Absent
  BY OutboxConstants DEF Absent, Entry, Statuses, Nothing

\* Reading a row back changes neither whether it is there nor what it waits on.
LEMMA DeserializeType ==
    ASSUME NEW e \in Entry
    PROVE  /\ deserializeEntry(e) \in Entry
           /\ deserializeEntry(e).dependsOn = e.dependsOn
           /\ deserializeEntry(e).status = "absent" <=> e.status = "absent"
  BY DEF deserializeEntry, Entry, Statuses

\* Rows that compare equal are both there or both gone.
LEMMA SameStateMeans ==
    ASSUME NEW a \in Entry, NEW b \in Entry, sameState(a, b)
    PROVE  a.status = "absent" <=> b.status = "absent"
  BY DeserializeType DEF sameState

\* A failure leaves a row that is there and waits on what it waited on.
LEMMA ApplyFailureType ==
    ASSUME now \in 0 .. Horizon, NEW i \in Ids, NEW e \in Entry, NEW class
    PROVE  /\ applyFailure(i, e, class) \in Entry
           /\ applyFailure(i, e, class).status # "absent"
           /\ applyFailure(i, e, class).dependsOn = e.dependsOn
  <1> DEFINE count == IF e.attempts < MAX_ATTEMPTS THEN e.attempts + 1 ELSE MAX_ATTEMPTS
  <1>1. count \in 0 .. MAX_ATTEMPTS
    BY OutboxConstants DEF Entry
  <1>2. \A ms : Later(ms) \in 0 .. Horizon
    BY OutboxConstants DEF Later
  <1> HIDE DEF count
  <1> QED
    BY <1>1, <1>2 DEF applyFailure, Entry, Statuses, count

\* A retried row is queued again, and waits on what it waited on.
LEMMA RetryType ==
    ASSUME now \in 0 .. Horizon, NEW e \in Entry
    PROVE  /\ retryEntry(e) \in Entry
           /\ retryEntry(e).status # "absent"
           /\ retryEntry(e).dependsOn = e.dependsOn
  <1>1. 0 \in 0 .. MAX_ATTEMPTS
    BY OutboxConstants
  <1> QED
    BY <1>1 DEF retryEntry, Entry, Statuses

\* One compare-and-swap: it writes one row; whoever is not written stays.
LEMMA SwapMeans ==
    ASSUME store \in [Ids -> Entry], NEW i \in Ids, NEW old \in Entry,
           NEW new \in Entry, swap(i, old, new)
    PROVE  /\ store' \in [Ids -> Entry]
           /\ \A j \in Ids : store'[j] = store[j] \/ (j = i /\ store'[j] = new)
           /\ (new.status = "absent" => old.status = "absent")
                => Present(store) \subseteq Present(store)'
  <1>1. /\ store' \in [Ids -> Entry]
        /\ \A j \in Ids : store'[j] = store[j] \/ (j = i /\ store'[j] = new)
        /\ store'[i] # store[i] => sameState(store[i], old) /\ store'[i] = new
    BY DEF swap
  <1>2. ASSUME new.status = "absent" => old.status = "absent",
               NEW j \in Ids, store[j].status # "absent"
        PROVE  store'[j].status # "absent"
    BY <1>1, <1>2, SameStateMeans
  <1> QED
    BY <1>1, <1>2 DEF Present

\* What a pass takes up: rows as they are in the store, each waiting on
\* nothing that is still there.
LEMMA DueMeans ==
    ASSUME store \in [Ids -> Entry], NEW force \in BOOLEAN
    PROVE  /\ dueEntries(store, force) \in [Ids -> Entry]
           /\ Present(dueEntries(store, force)) \subseteq Present(store)
           /\ \A i \in Ids :
                LET dep == dueEntries(store, force)[i].dependsOn
                IN  dep = NoId \/ (dep = store[i].dependsOn /\ dep \notin Present(store))
  <1> DEFINE d == dueEntries(store, force)
  <1>1. ASSUME NEW i \in Ids
        PROVE  /\ d[i] \in Entry
               /\ d[i].status # "absent" => store[i].status # "absent"
               /\ \/ d[i].dependsOn = NoId
                  \/ d[i].dependsOn = store[i].dependsOn /\ d[i].dependsOn \notin Present(store)
    <2>1. CASE isDue(store, i, force)
      <3>1. d[i] = deserializeEntry(store[i])
        BY <2>1 DEF dueEntries
      <3>2. d[i].dependsOn = NoId \/ d[i].dependsOn \notin Present(store)
        BY <2>1, <3>1 DEF isDue
      <3> QED
        BY <3>1, <3>2, DeserializeType
    <2>2. CASE ~isDue(store, i, force)
      <3>1. d[i] = Absent
        BY <2>2 DEF dueEntries
      <3> QED
        BY <3>1, AbsentType
    <2> QED
      BY <2>1, <2>2
  <1>2. d = [i \in Ids |-> d[i]]
    BY DEF dueEntries
  <1> HIDE DEF d
  <1> QED
    <2>1. d \in [Ids -> Entry] /\ Present(d) \subseteq Present(store)
      BY <1>1, <1>2 DEF Present
    <2> QED
      BY <1>1, <2>1 DEF d

\* What a dead letter strands is read from the store.
LEMMA CascadeMeans ==
    ASSUME store \in [Ids -> Entry], NEW i \in Ids
    PROVE  /\ cascadeFailure(store, i) \in [Ids -> Entry]
           /\ Present(cascadeFailure(store, i)) \subseteq Present(store)
           /\ \A j \in Ids : cascadeFailure(store, i)[j].dependsOn
                                \in {NoId, store[j].dependsOn}
  <1> DEFINE c == cascadeFailure(store, i)
  <1>1. ASSUME NEW j \in Ids
        PROVE  c[j] = Absent \/ c[j] = deserializeEntry(store[j])
    BY DEF cascadeFailure
  <1>2. c = [j \in Ids |-> c[j]]
    BY DEF cascadeFailure
  <1> HIDE DEF c
  <1>3. ASSUME NEW j \in Ids
        PROVE  /\ c[j] \in Entry
               /\ c[j].status # "absent" => store[j].status # "absent"
               /\ c[j].dependsOn \in {NoId, store[j].dependsOn}
    BY <1>1, AbsentType, DeserializeType
  <1>4. c \in [Ids -> Entry] /\ Present(c) \subseteq Present(store)
    BY <1>2, <1>3 DEF Present
  <1> QED
    BY <1>3, <1>4 DEF c

-----------------------------------------------------------------------------
(* The invariant holds at the start and every action keeps it *)

\* An empty queue satisfies the invariant.
LEMMA InitInv == Init => IInv
  <1> SUFFICES ASSUME Init PROVE IInv
    OBVIOUS
  <1>1. TypeOK
    BY AbsentType, OutboxConstants DEF Init, TypeOK, Message
  <1>2. Present(Nothing) = {} /\ Done = {}
    BY AbsentType DEF Init, Present, Done, FiledIds
  <1>3. NothingLost /\ OnlyAccepted
    BY <1>2 DEF Init, NothingLost, OnlyAccepted
  <1>4. DependenciesAccepted /\ TakenUpIsClear
    BY AbsentType DEF Init, DependenciesAccepted, TakenUpIsClear
  <1>5. RequestsAreClear /\ ShiftsAreFiled
    BY DEF Init, RequestsAreClear, ShiftsAreFiled
  <1> QED
    BY <1>1, <1>3, <1>4, <1>5 DEF IInv

\* What was ever accepted and has left the store is done.
LEMMA GoneIsDone ==
    ASSUME IInv
    PROVE  /\ Done \subseteq accepted /\ accepted \subseteq Ids
           /\ \A i \in accepted : i \notin Present(store) => i \in Done
  BY DEF IInv, TypeOK, NothingLost, OnlyAccepted, Done

\* A pass begins: what it takes up waits on nothing open.
LEMMA SnapshotInv ==
    ASSUME IInv, NEW t \in Tabs, NEW force \in BOOLEAN, Snapshot(t, force),
           pass' \in [Tabs -> 0 .. MAX_DRAIN_PASSES]
    PROVE  IInv'
  <1> USE DEF Snapshot, personVars, serverVars
  <1> DEFINE d == dueEntries(store, force)
  <1>1. /\ d \in [Ids -> Entry]
        /\ Present(d) \subseteq Present(store)
        /\ \A i \in Ids : \/ d[i].dependsOn = NoId
                          \/ /\ d[i].dependsOn = store[i].dependsOn
                             /\ d[i].dependsOn \notin Present(store)
    BY DueMeans DEF IInv, TypeOK
  <1>2. due' = [due EXCEPT ![t] = d]
    OBVIOUS
  <1> HIDE DEF d
  <1>3. \A i \in Ids : d[i].dependsOn \in Done \cup {NoId}
    BY <1>1, GoneIsDone DEF IInv, DependenciesAccepted
  <1>4. TypeOK'
    <2>1. due' \in [Tabs -> [Ids -> Entry]]
      BY <1>1, <1>2 DEF IInv, TypeOK
    <2>2. /\ tried' \in [Tabs -> SUBSET Ids] /\ reread' \in [Tabs -> BOOLEAN]
          /\ sentAny' \in [Tabs -> BOOLEAN]
      BY DEF IInv, TypeOK
    <2> QED
      BY <2>1, <2>2 DEF IInv, TypeOK
  <1>5. NothingLost'
    BY DEF IInv, NothingLost, Present, FiledIds
  <1>6. OnlyAccepted'
    BY <1>1, <1>2 DEF IInv, TypeOK, OnlyAccepted, Present, Done, FiledIds
  <1>7. DependenciesAccepted'
    BY DEF IInv, DependenciesAccepted
  <1>8. TakenUpIsClear'
    BY <1>2, <1>3 DEF IInv, TypeOK, TakenUpIsClear, Done, FiledIds
  <1>9. RequestsAreClear' /\ ShiftsAreFiled'
    BY DEF IInv, RequestsAreClear, ShiftsAreFiled, Done, FiledIds
  <1> QED
    BY <1>4, <1>5, <1>6, <1>7, <1>8, <1>9 DEF IInv

\* A pass ends, or another follows.
LEMMA PassInv ==
    ASSUME IInv, NEW t \in Tabs, NEW force \in BOOLEAN,
           StartDrain(t, force) \/ NextPass(t) \/ EndDrain(t)
    PROVE  IInv'
  <1>1. CASE StartDrain(t, force)
    <2>1. pass' \in [Tabs -> 0 .. MAX_DRAIN_PASSES]
      BY <1>1, OutboxConstants DEF StartDrain, IInv, TypeOK
    <2> QED
      BY <1>1, <2>1, SnapshotInv DEF StartDrain
  <1>2. CASE NextPass(t)
    <2>1. pass[t] + 1 \in 0 .. MAX_DRAIN_PASSES
      BY <1>2, OutboxConstants DEF NextPass, IInv, TypeOK
    <2>2. pass' \in [Tabs -> 0 .. MAX_DRAIN_PASSES]
      BY <1>2, <2>1 DEF NextPass, IInv, TypeOK
    <2> QED
      BY <1>2, <2>2, SnapshotInv DEF NextPass
  <1>3. CASE EndDrain(t)
    <2> USE <1>3 DEF EndDrain, personVars, serverVars
    <2>1. TypeOK'
      BY OutboxConstants DEF IInv, TypeOK
    <2>2. NothingLost' /\ OnlyAccepted'
      BY DEF IInv, TypeOK, NothingLost, OnlyAccepted, Present, Done, FiledIds
    <2>3. DependenciesAccepted' /\ TakenUpIsClear'
      BY DEF IInv, DependenciesAccepted, TakenUpIsClear, Done, FiledIds
    <2>4. RequestsAreClear' /\ ShiftsAreFiled'
      BY DEF IInv, RequestsAreClear, ShiftsAreFiled, Done, FiledIds
    <2> QED
      BY <2>1, <2>2, <2>3, <2>4 DEF IInv
  <1> QED
    BY <1>1, <1>2, <1>3

\* Punches that became due join the pass; they wait on nothing open either.
LEMMA LookForPunchesInv ==
    ASSUME IInv, NEW t \in Tabs, LookForPunches(t)
    PROVE  IInv'
  <1> USE DEF LookForPunches, personVars, serverVars
  <1> DEFINE d == dueEntries(store, FALSE)
  <1>1. /\ d \in [Ids -> Entry]
        /\ Present(d) \subseteq Present(store)
        /\ \A i \in Ids : \/ d[i].dependsOn = NoId
                          \/ /\ d[i].dependsOn = store[i].dependsOn
                             /\ d[i].dependsOn \notin Present(store)
    BY DueMeans DEF IInv, TypeOK
  <1>2. due' = [due EXCEPT ![t] = [i \in Ids |->
                   IF isClockLaneOp(i) /\ i \notin tried[t] THEN d[i] ELSE due[t][i]]]
    BY DEF IInv, TypeOK
  <1> HIDE DEF d
  <1>3. \A i \in Ids : d[i].dependsOn \in Done \cup {NoId}
    BY <1>1, GoneIsDone DEF IInv, DependenciesAccepted
  <1>4. /\ due' \in [Tabs -> [Ids -> Entry]]
        /\ \A u \in Tabs, i \in Ids :
              due'[u][i] = due[u][i] \/ (u = t /\ due'[u][i] = d[i])
    <2> DEFINE f == [i \in Ids |-> IF isClockLaneOp(i) /\ i \notin tried[t]
                                   THEN d[i] ELSE due[t][i]]
    <2>1. /\ f \in [Ids -> Entry]
          /\ \A i \in Ids : f[i] = due[t][i] \/ f[i] = d[i]
      BY <1>1 DEF IInv, TypeOK
    <2>2. due' = [due EXCEPT ![t] = f]
      BY <1>2
    <2> HIDE DEF f
    <2> QED
      BY <2>1, <2>2 DEF IInv, TypeOK
  <1>5. reread' \in [Tabs -> BOOLEAN]
    BY DEF IInv, TypeOK
  <1> HIDE DEF LookForPunches
  <1>6. UNCHANGED <<store, now, pc, tried, cur, curEntry, sentAny, pass, stranded,
                    signedIn, listed, retry, accepted, thrownAway, wire, filed,
                    shiftMap, events>>
    BY DEF LookForPunches
  <1>7. TypeOK'
    BY <1>4, <1>5, <1>6 DEF IInv, TypeOK
  <1>8. NothingLost'
    BY <1>6 DEF IInv, NothingLost, Present, FiledIds
  <1>9. OnlyAccepted'
    BY <1>1, <1>4, <1>6 DEF IInv, OnlyAccepted, Present, Done, FiledIds
  <1>10. DependenciesAccepted'
    BY <1>6 DEF IInv, DependenciesAccepted
  <1>11. TakenUpIsClear'
    BY <1>3, <1>4, <1>6 DEF IInv, TakenUpIsClear, Done, FiledIds
  <1>12. RequestsAreClear' /\ ShiftsAreFiled'
    BY <1>6 DEF IInv, RequestsAreClear, ShiftsAreFiled, Done, FiledIds
  <1> QED
    BY <1>7, <1>8, <1>9, <1>10, <1>11, <1>12 DEF IInv

\* An entry is marked and taken out of the pass.
LEMMA AttemptInv ==
    ASSUME IInv, NEW t \in Tabs, NEW i \in Ids, Attempt(t, i)
    PROVE  IInv'
  <1> DEFINE e == due[t][i]
  <1>1. /\ e \in Entry /\ e.status # "absent" /\ i \in accepted
        /\ e.dependsOn \in Done \cup {NoId}
    BY DEF IInv, TypeOK, OnlyAccepted, TakenUpIsClear, Attempt, First, Present
  <1>2. /\ markSending(e) \in Entry /\ markSending(e).status # "absent"
        /\ markSending(e).dependsOn = e.dependsOn
    BY <1>1 DEF markSending, Entry, Statuses
  <1>3. swap(i, e, markSending(e))
    BY DEF Attempt
  <1>4. UNCHANGED <<now, sentAny, pass, stranded, signedIn, listed, retry, accepted,
                    thrownAway, wire, filed, shiftMap, events>>
    BY DEF Attempt, personVars, serverVars
  <1>5. /\ due' \in [Tabs -> [Ids -> Entry]]
        /\ \A u \in Tabs, j \in Ids : due'[u][j] = due[u][j] \/ due'[u][j] = Absent
    BY AbsentType DEF Attempt, IInv, TypeOK
  <1>6. /\ pc' \in [Tabs -> {"idle", "loop", "marked", "awaiting", "cascade", "strand"}]
        /\ cur' \in [Tabs -> Ids \cup {NoId}] /\ curEntry' \in [Tabs -> Entry]
        /\ \A u \in Tabs : \/ /\ pc'[u] = pc[u] /\ cur'[u] = cur[u]
                              /\ curEntry'[u] = curEntry[u]
                           \/ cur'[u] = i /\ curEntry'[u] = e
    BY <1>1 DEF Attempt, IInv, TypeOK
  <1>7. tried' \in [Tabs -> SUBSET Ids] /\ reread' \in [Tabs -> BOOLEAN]
    BY DEF Attempt, IInv, TypeOK, isClockLaneOp
  <1> HIDE DEF e
  <1>8. /\ store' \in [Ids -> Entry]
        /\ Present(store) \subseteq Present(store)'
        /\ Present(store)' \subseteq Present(store) \cup {i}
        /\ \A j \in Ids : store'[j].dependsOn \in {store[j].dependsOn, e.dependsOn}
    BY <1>1, <1>2, <1>3, SwapMeans DEF IInv, TypeOK, Present
  <1>9. TypeOK'
    BY <1>4, <1>5, <1>6, <1>7, <1>8 DEF IInv, TypeOK
  <1>10. NothingLost'
    BY <1>4, <1>8 DEF IInv, NothingLost, FiledIds
  <1>11. OnlyAccepted'
    <2>1. \A u \in Tabs : Present(due[u])' \subseteq Present(due[u])
      BY <1>5, AbsentType DEF Present
    <2> QED
      BY <1>1, <1>4, <1>6, <1>8, <2>1 DEF IInv, OnlyAccepted, Present, Done, FiledIds
  <1>12. DependenciesAccepted'
    BY <1>1, <1>4, <1>8, GoneIsDone DEF IInv, DependenciesAccepted
  <1>13. TakenUpIsClear'
    BY <1>1, <1>4, <1>5, <1>6, AbsentType DEF IInv, TakenUpIsClear, Done, FiledIds
  <1>14. RequestsAreClear' /\ ShiftsAreFiled'
    BY <1>4 DEF IInv, RequestsAreClear, ShiftsAreFiled, Done, FiledIds
  <1> QED
    BY <1>9, <1>10, <1>11, <1>12, <1>13, <1>14 DEF IInv

\* A request goes out: it is its owner's, and what it waited on is done.
LEMMA SendInv ==
    ASSUME IInv, NEW t \in Tabs, Send(t)
    PROVE  IInv'
  <1> DEFINE m == [id |-> cur[t], as |-> signedIn, after |-> curEntry[t].dependsOn]
  <1>1. /\ cur[t] \in accepted /\ cur[t] \in Ids
        /\ curEntry[t] \in Entry
        /\ curEntry[t].dependsOn \in Done \cup {NoId}
        /\ signedIn \in People /\ Owner[cur[t]] = signedIn
    BY DEF Send, IInv, TypeOK, OnlyAccepted, TakenUpIsClear, belongsTo
  <1>2. m \in Message
    BY <1>1 DEF Message, Entry
  <1>3. /\ m.as = Owner[m.id] /\ m.after \in Done \cup {NoId} /\ m.id \in accepted
        /\ Op[m.id] # "clock_in" => ShiftRef[m.id] \in FiledIds \cup {NoId}
    BY <1>1 DEF Send, shiftKnown, IInv, ShiftsAreFiled
  <1>4. wire' = wire \cup {m} /\ pc' = [pc EXCEPT ![t] = "awaiting"]
    BY DEF Send
  <1>5. UNCHANGED <<store, now, due, tried, reread, cur, curEntry, sentAny, pass,
                    stranded, signedIn, listed, retry, accepted, thrownAway, filed,
                    shiftMap, events>>
    BY DEF Send, personVars
  <1> HIDE DEF m
  <1>6. TypeOK'
    BY <1>2, <1>4, <1>5 DEF IInv, TypeOK
  <1>7. NothingLost'
    BY <1>5 DEF IInv, NothingLost, Present, FiledIds
  <1>8. OnlyAccepted'
    BY <1>1, <1>3, <1>4, <1>5 DEF IInv, TypeOK, OnlyAccepted, Present, Done, FiledIds
  <1>9. DependenciesAccepted' /\ TakenUpIsClear'
    BY <1>5 DEF IInv, DependenciesAccepted, TakenUpIsClear, Done, FiledIds
  <1>10. RequestsAreClear' /\ ShiftsAreFiled'
    BY <1>3, <1>4, <1>5 DEF IInv, RequestsAreClear, ShiftsAreFiled, Done, FiledIds
  <1> QED
    BY <1>6, <1>7, <1>8, <1>9, <1>10 DEF IInv

\* The drain records how an attempt ended, in one compare-and-swap: the row is
\* written back, or deleted when the server has the write.
LEMMA RecordInv ==
    ASSUME IInv, NEW t \in Tabs, NEW new \in Entry,
           pc[t] \in {"marked", "awaiting"},
           swap(cur[t], curEntry[t], new),
           new.dependsOn \in Done \cup {NoId},
           new.status = "absent" => curEntry[t].status = "absent" \/ cur[t] \in FiledIds,
           BackToLoop(t) \/ (pc' = [pc EXCEPT ![t] = "cascade"] /\ UNCHANGED <<cur, curEntry>>),
           sentAny' \in [Tabs -> BOOLEAN],
           wire' \subseteq wire, shiftMap' \subseteq FiledIds,
           UNCHANGED <<now, due, tried, reread, pass, stranded, personVars, filed, events>>
    PROVE  IInv'
  <1>1. /\ cur[t] \in accepted /\ cur[t] \in Ids /\ accepted \subseteq Ids
        /\ Done \subseteq accepted /\ FiledIds \subseteq Ids
    BY GoneIsDone DEF IInv, OnlyAccepted, Done
  <1>2. /\ store' \in [Ids -> Entry]
        /\ \A j \in Ids : store'[j] = store[j] \/ (j = cur[t] /\ store'[j] = new)
        /\ (new.status = "absent" => curEntry[t].status = "absent")
             => Present(store) \subseteq Present(store)'
    BY <1>1, SwapMeans DEF IInv, TypeOK
  <1>3. UNCHANGED <<now, due, tried, reread, pass, stranded, signedIn, listed, retry,
                    accepted, thrownAway, filed, events>>
    BY DEF personVars
  <1>4. /\ pc' \in [Tabs -> {"idle", "loop", "marked", "awaiting", "cascade", "strand"}]
        /\ cur' \in [Tabs -> Ids \cup {NoId}] /\ curEntry' \in [Tabs -> Entry]
        /\ \A u \in Tabs : \/ /\ pc'[u] = pc[u] /\ cur'[u] = cur[u]
                              /\ curEntry'[u] = curEntry[u]
                           \/ pc'[u] = "loop" /\ curEntry'[u] = Absent
                           \/ cur'[u] = cur[t] /\ curEntry'[u] = curEntry[t]
    <2>1. CASE BackToLoop(t)
      BY <2>1, AbsentType DEF BackToLoop, IInv, TypeOK
    <2>2. CASE pc' = [pc EXCEPT ![t] = "cascade"] /\ UNCHANGED <<cur, curEntry>>
      BY <2>2 DEF IInv, TypeOK
    <2> QED
      BY <2>1, <2>2
  <1>5. TypeOK'
    BY <1>1, <1>2, <1>3, <1>4 DEF IInv, TypeOK
  <1>6. NothingLost'
    <2>1. Present(store) \subseteq Present(store)' \cup FiledIds
      BY <1>1, <1>2 DEF Present
    <2> QED
      BY <1>3, <2>1 DEF IInv, NothingLost, FiledIds
  <1>7. OnlyAccepted'
    <2>1. Present(store)' \subseteq Present(store) \cup {cur[t]}
      BY <1>1, <1>2 DEF Present
    <2> QED
      BY <1>1, <1>3, <1>4, <2>1 DEF IInv, OnlyAccepted, Present, Done, FiledIds
  <1>8. DependenciesAccepted'
    BY <1>1, <1>2, <1>3 DEF IInv, DependenciesAccepted
  <1>9. TakenUpIsClear'
    BY <1>3, <1>4, AbsentType DEF IInv, TakenUpIsClear, Done, FiledIds
  <1>10. RequestsAreClear' /\ ShiftsAreFiled'
    BY <1>3 DEF IInv, RequestsAreClear, ShiftsAreFiled, Done, FiledIds
  <1> QED
    BY <1>5, <1>6, <1>7, <1>8, <1>9, <1>10 DEF IInv

\* Held for its owner, answered, failed or refused: one record each.
LEMMA OutcomeInv ==
    ASSUME IInv, NEW t \in Tabs, NEW class,
           Hold(t) \/ Confirm(t) \/ FailSend(t, class) \/ Refuse(t)
    PROVE  IInv'
  <1>1. /\ curEntry[t] \in Entry
        /\ curEntry[t].dependsOn \in Done \cup {NoId}
        /\ now \in 0 .. Horizon
        /\ sentAny \in [Tabs -> BOOLEAN]
        /\ shiftMap \subseteq FiledIds
    BY DEF IInv, TypeOK, TakenUpIsClear, ShiftsAreFiled
  <1>2. CASE Hold(t)
    BY <1>1, <1>2, RecordInv DEF Hold, serverVars
  <1>3. CASE Confirm(t)
    <2>1. sentAny' \in [Tabs -> BOOLEAN] /\ shiftMap' \subseteq FiledIds
      BY <1>1, <1>3 DEF Confirm
    <2> QED
      BY <1>1, <1>3, <2>1, AbsentType, RecordInv DEF Confirm, serverVars
  <1>4. ASSUME NEW kind, recordFailure(t, kind), wire' \subseteq wire,
               pc[t] \in {"marked", "awaiting"}
        PROVE  IInv'
    <2> DEFINE next == applyFailure(cur[t], curEntry[t], kind)
    <2>1. cur[t] \in Ids
      BY <1>4, GoneIsDone DEF IInv, OnlyAccepted
    <2>2. /\ next \in Entry /\ next.status # "absent"
          /\ next.dependsOn = curEntry[t].dependsOn
      BY <1>1, <2>1, ApplyFailureType
    <2>3. /\ swap(cur[t], curEntry[t], next)
          /\ BackToLoop(t) \/ (pc' = [pc EXCEPT ![t] = "cascade"] /\ UNCHANGED <<cur, curEntry>>)
          /\ UNCHANGED <<now, due, tried, reread, sentAny, pass, stranded, personVars,
                         filed, shiftMap, events>>
      BY <1>4 DEF recordFailure
    <2> HIDE DEF next
    <2> QED
      BY <1>1, <1>4, <2>2, <2>3, RecordInv
  <1>5. CASE FailSend(t, class)
    BY <1>4, <1>5 DEF FailSend
  <1>6. CASE Refuse(t)
    BY <1>4, <1>6 DEF Refuse
  <1> QED
    BY <1>2, <1>3, <1>5, <1>6

\* A dead letter's dependents are read, failed one by one, and the drain goes on.
LEMMA CascadeInv ==
    ASSUME IInv, NEW t \in Tabs, NEW i \in Ids,
           Cascade(t) \/ Strand(t, i) \/ EndCascade(t)
    PROVE  IInv'
  <1>1. /\ cur \in [Tabs -> Ids \cup {NoId}] /\ curEntry \in [Tabs -> Entry]
        /\ stranded \in [Tabs -> [Ids -> Entry]]
        /\ store \in [Ids -> Entry]
    BY DEF IInv, TypeOK
  <1>2. UNCHANGED <<now, due, tried, reread, sentAny, pass, signedIn, listed, retry,
                    accepted, thrownAway, wire, filed, shiftMap, events>>
    BY DEF Cascade, Strand, EndCascade, personVars, serverVars
  <1>3. /\ pc' \in [Tabs -> {"idle", "loop", "marked", "awaiting", "cascade", "strand"}]
        /\ cur' \in [Tabs -> Ids \cup {NoId}] /\ curEntry' \in [Tabs -> Entry]
        /\ \A u \in Tabs : \/ pc'[u] = pc[u] /\ cur'[u] = cur[u] /\ curEntry'[u] = curEntry[u]
                           \/ /\ pc[u] = "cascade" /\ cur'[u] = cur[u]
                              /\ curEntry'[u] = curEntry[u]
                           \/ pc'[u] = "loop" /\ curEntry'[u] = Absent
    <2>1. CASE Cascade(t)
      BY <1>1, <2>1 DEF Cascade, IInv, TypeOK
    <2>2. CASE Strand(t, i)
      BY <1>1, <2>2 DEF Strand, IInv, TypeOK
    <2>3. CASE EndCascade(t)
      BY <1>1, <2>3, AbsentType DEF EndCascade, BackToLoop, IInv, TypeOK
    <2> QED
      BY <2>1, <2>2, <2>3
  <1>4. /\ stranded' \in [Tabs -> [Ids -> Entry]]
        /\ \A u \in Tabs, j \in Ids :
             \/ stranded'[u][j] = stranded[u][j]
             \/ /\ stranded'[u][j].dependsOn \in {NoId, store[j].dependsOn}
                /\ stranded'[u][j].status # "absent" => j \in Present(store)
    <2>1. CASE Cascade(t)
      <3> DEFINE c == cascadeFailure(store, cur[t])
      <3>1. cur[t] \in Ids
        BY <2>1, GoneIsDone DEF IInv, OnlyAccepted, Cascade
      <3>2. /\ c \in [Ids -> Entry] /\ Present(c) \subseteq Present(store)
            /\ \A j \in Ids : c[j].dependsOn \in {NoId, store[j].dependsOn}
        BY <1>1, <3>1, CascadeMeans
      <3>3. stranded' = [stranded EXCEPT ![t] = c]
        BY <2>1 DEF Cascade
      <3> HIDE DEF c
      <3> QED
        BY <1>1, <3>2, <3>3 DEF Present
    <2>2. CASE Strand(t, i)
      BY <1>1, <2>2, AbsentType DEF Strand
    <2>3. CASE EndCascade(t)
      BY <1>1, <2>3 DEF EndCascade
    <2> QED
      BY <2>1, <2>2, <2>3
  <1>5. /\ store' \in [Ids -> Entry]
        /\ Present(store)' \subseteq Present(store) \cup Present(stranded[t])
        /\ Present(store) \subseteq Present(store)'
        /\ \A j \in Ids : store'[j].dependsOn \in {store[j].dependsOn, stranded[t][j].dependsOn}
    <2>1. CASE Strand(t, i)
      <3> DEFINE new == [stranded[t][i] EXCEPT !.status = "failed"]
      <3>1. /\ new \in Entry /\ new.status # "absent"
            /\ new.dependsOn = stranded[t][i].dependsOn
        BY <1>1 DEF Entry, Statuses
      <3>2. swap(i, stranded[t][i], new) /\ i \in Present(stranded[t])
        BY <2>1 DEF Strand
      <3> HIDE DEF new
      <3> QED
        BY <1>1, <3>1, <3>2, SwapMeans DEF Present
    <2>2. CASE Cascade(t) \/ EndCascade(t)
      BY <1>1, <2>2 DEF Cascade, EndCascade, Present
    <2> QED
      BY <2>1, <2>2
  <1>6. TypeOK'
    BY <1>2, <1>3, <1>4, <1>5 DEF IInv, TypeOK
  <1>7. NothingLost'
    BY <1>2, <1>5 DEF IInv, NothingLost, FiledIds
  <1>8. OnlyAccepted'
    <2>1. \A u \in Tabs : Present(stranded[u])' \subseteq Present(stranded[u]) \cup Present(store)
      BY <1>4 DEF Present
    <2>2. \A u \in Tabs : /\ Present(due[u])' = Present(due[u])
                          /\ Present(retry[u])' = Present(retry[u])
      BY <1>2 DEF Present
    <2>3. Done' = Done
      BY <1>2 DEF Done, FiledIds
    <2> QED
      BY <1>2, <1>3, <1>5, <2>1, <2>2, <2>3 DEF IInv, OnlyAccepted
  <1>9. DependenciesAccepted'
    <2>1. ASSUME NEW u \in Tabs, NEW j \in Ids
          PROVE  stranded'[u][j].dependsOn \in accepted \cup {NoId}
      <3>1. stranded'[u][j].dependsOn \in {NoId, store[j].dependsOn, stranded[u][j].dependsOn}
        BY <1>4
      <3> QED
        BY <3>1 DEF IInv, DependenciesAccepted
    <2>2. ASSUME NEW j \in Ids
          PROVE  store'[j].dependsOn \in accepted \cup {NoId}
      BY <1>5 DEF IInv, DependenciesAccepted
    <2> QED
      BY <1>2, <2>1, <2>2 DEF IInv, DependenciesAccepted
  <1>10. TakenUpIsClear'
    BY <1>2, <1>3, AbsentType DEF IInv, TakenUpIsClear, Done, FiledIds
  <1>11. RequestsAreClear' /\ ShiftsAreFiled'
    BY <1>2 DEF IInv, RequestsAreClear, ShiftsAreFiled, Done, FiledIds
  <1> QED
    BY <1>6, <1>7, <1>8, <1>9, <1>10, <1>11 DEF IInv

\* The tab is killed: what it had in hand is gone, the store is not.
LEMMA CrashInv ==
    ASSUME IInv, NEW t \in Tabs, Crash(t)
    PROVE  IInv'
  <1>1. UNCHANGED <<store, now, signedIn, accepted, thrownAway, wire, filed, shiftMap>>
    BY DEF Crash, serverVars
  <1>2. /\ due' \in [Tabs -> [Ids -> Entry]] /\ stranded' \in [Tabs -> [Ids -> Entry]]
        /\ retry' \in [Tabs -> [Ids -> Entry]]
        /\ \A u \in Tabs : /\ due'[u] \in {due[u], Nothing}
                           /\ stranded'[u] \in {stranded[u], Nothing}
                           /\ retry'[u] \in {retry[u], Nothing}
    BY AbsentType DEF Crash, IInv, TypeOK
  <1>3. /\ pc' \in [Tabs -> {"idle", "loop", "marked", "awaiting", "cascade", "strand"}]
        /\ cur' \in [Tabs -> Ids \cup {NoId}] /\ curEntry' \in [Tabs -> Entry]
        /\ \A u \in Tabs : \/ pc'[u] = pc[u] /\ cur'[u] = cur[u] /\ curEntry'[u] = curEntry[u]
                           \/ pc'[u] = "idle" /\ curEntry'[u] = Absent
    BY AbsentType DEF Crash, IInv, TypeOK
  <1>4. /\ tried' \in [Tabs -> SUBSET Ids] /\ reread' \in [Tabs -> BOOLEAN]
        /\ sentAny' \in [Tabs -> BOOLEAN] /\ pass' \in [Tabs -> 0 .. MAX_DRAIN_PASSES]
        /\ listed' \in [Tabs -> SUBSET Ids] /\ events' \in 0 .. MaxEvents
    BY OutboxConstants DEF Crash, Event, IInv, TypeOK
  <1>5. TypeOK'
    BY <1>1, <1>2, <1>3, <1>4 DEF IInv, TypeOK
  <1>6. NothingLost'
    BY <1>1 DEF IInv, NothingLost, Present, FiledIds
  <1>7. OnlyAccepted'
    <2>1. Present(Nothing) = {}
      BY AbsentType DEF Present
    <2>2. \A u \in Tabs : /\ Present(due[u])' \subseteq Present(due[u])
                          /\ Present(stranded[u])' \subseteq Present(stranded[u])
                          /\ Present(retry[u])' \subseteq Present(retry[u])
      BY <1>2, <2>1 DEF Present
    <2>3. Present(store)' = Present(store) /\ Done' = Done
      BY <1>1 DEF Present, Done, FiledIds
    <2> QED
      BY <1>1, <1>3, <2>2, <2>3 DEF IInv, OnlyAccepted
  <1>8. DependenciesAccepted'
    <2>1. ASSUME NEW k \in Ids, NEW u \in Tabs
          PROVE  {stranded'[u][k].dependsOn, retry'[u][k].dependsOn} \subseteq accepted \cup {NoId}
      <3>1. stranded'[u][k] \in {stranded[u][k], Absent} /\ retry'[u][k] \in {retry[u][k], Absent}
        BY <1>2, AbsentType
      <3> QED
        BY <3>1, AbsentType DEF IInv, DependenciesAccepted
    <2> QED
      BY <1>1, <2>1 DEF IInv, DependenciesAccepted
  <1>9. TakenUpIsClear'
    BY <1>1, <1>2, <1>3, AbsentType DEF IInv, TakenUpIsClear, Done, FiledIds
  <1>10. RequestsAreClear' /\ ShiftsAreFiled'
    BY <1>1 DEF IInv, RequestsAreClear, ShiftsAreFiled, Done, FiledIds
  <1> QED
    BY <1>5, <1>6, <1>7, <1>8, <1>9, <1>10 DEF IInv

\* What touches neither a row nor a request: the clock, sign-ins, the screen,
\* and a late reply, which names a shift the server has.
LEMMA AsideInv ==
    ASSUME IInv,
           \/ Tick
           \/ \E person \in People \cup {NoOne} : SignIn(person)
           \/ \E t \in Tabs : listFailed(t)
           \/ \E i \in Ids : LateReply(i)
    PROVE  IInv'
  <1>1. UNCHANGED <<store, pc, due, tried, reread, cur, curEntry, sentAny, pass,
                    stranded, retry, accepted, thrownAway, wire, filed>>
    BY DEF Tick, SignIn, listFailed, LateReply, drainVars, personVars, serverVars
  <1>2. now' \in 0 .. Horizon
    BY OutboxConstants DEF Tick, SignIn, listFailed, LateReply, IInv, TypeOK
  <1>3. signedIn' \in People \cup {NoOne} /\ events' \in 0 .. MaxEvents
    BY OutboxConstants
       DEF Tick, SignIn, listFailed, LateReply, Event, personVars, IInv, TypeOK
  <1>4. listed' \in [Tabs -> SUBSET Ids]
    BY DEF Tick, SignIn, listFailed, LateReply, personVars, IInv, TypeOK
  <1>5. FiledIds \subseteq Ids /\ shiftMap' \subseteq FiledIds
    BY GoneIsDone
       DEF Tick, SignIn, listFailed, LateReply, Done, IInv, ShiftsAreFiled
  <1>6. TypeOK'
    BY <1>1, <1>2, <1>3, <1>4, <1>5 DEF IInv, TypeOK
  <1>7. NothingLost' /\ OnlyAccepted'
    BY <1>1 DEF IInv, NothingLost, OnlyAccepted, Present, Done, FiledIds
  <1>8. DependenciesAccepted' /\ TakenUpIsClear'
    BY <1>1 DEF IInv, DependenciesAccepted, TakenUpIsClear, Done, FiledIds
  <1>9. RequestsAreClear' /\ ShiftsAreFiled'
    BY <1>1, <1>5 DEF IInv, RequestsAreClear, ShiftsAreFiled, Done, FiledIds
  <1> QED
    BY <1>6, <1>7, <1>8, <1>9 DEF IInv

\* A new row waits on a write that was in the queue, or on nothing.
LEMMA EnqueueInv ==
    ASSUME IInv, NEW i \in Ids, Enqueue(i)
    PROVE  IInv'
  <1> DEFINE dep == dependsOnFor(i)
  <1>1. dep \in accepted \cup {NoId}
    <2>1. CASE ShiftRef[i] # NoId
      BY <2>1, OutboxConstants
         DEF Enqueue, offered, dependsOnFor, isPending, Present, IInv, OnlyAccepted, Done
    <2>2. CASE ShiftRef[i] = NoId
      BY <2>2 DEF dependsOnFor, IInv, OnlyAccepted
    <2> QED
      BY <2>1, <2>2
  <1>2. /\ makeEntry(dep) \in Entry /\ makeEntry(dep).status # "absent"
        /\ makeEntry(dep).dependsOn = dep
    <2>1. dep \in Ids \cup {NoId} /\ now \in 0 .. Horizon /\ 0 \in 0 .. MAX_ATTEMPTS
      BY <1>1, OutboxConstants, GoneIsDone DEF IInv, TypeOK
    <2> QED
      BY <2>1 DEF makeEntry, Entry, Statuses
  <1>3. store' = [store EXCEPT ![i] = makeEntry(dep)] /\ accepted' = accepted \cup {i}
    BY DEF Enqueue
  <1>4. UNCHANGED <<now, pc, due, tried, reread, cur, curEntry, sentAny, pass, stranded,
                    signedIn, listed, retry, thrownAway, wire, filed, shiftMap, events>>
    BY DEF Enqueue, drainVars, serverVars
  <1> HIDE DEF dep
  <1>5. /\ store' \in [Ids -> Entry]
        /\ Present(store)' = Present(store) \cup {i}
        /\ \A j \in Ids : store'[j].dependsOn \in {store[j].dependsOn, dep}
    BY <1>2, <1>3 DEF IInv, TypeOK, Present
  <1>6. TypeOK'
    BY <1>3, <1>4, <1>5 DEF IInv, TypeOK
  <1>7. NothingLost'
    BY <1>3, <1>4, <1>5 DEF IInv, NothingLost, FiledIds
  <1>8. OnlyAccepted'
    BY <1>3, <1>4, <1>5 DEF IInv, OnlyAccepted, Present, Done, FiledIds
  <1>9. DependenciesAccepted'
    BY <1>1, <1>3, <1>4, <1>5 DEF IInv, DependenciesAccepted
  <1>10. TakenUpIsClear' /\ RequestsAreClear' /\ ShiftsAreFiled'
    BY <1>4 DEF IInv, TakenUpIsClear, RequestsAreClear, ShiftsAreFiled, Done, FiledIds
  <1> QED
    BY <1>6, <1>7, <1>8, <1>9, <1>10 DEF IInv

\* Try again reads rows that are there ...
LEMMA RetryFailedInv ==
    ASSUME IInv, NEW t \in Tabs, NEW i \in Ids, retryFailed(t, i)
    PROVE  IInv'
  <1> DEFINE r == [j \in Ids |->
                     IF j = i \/ (store[j].status = "failed" /\ store[j].dependsOn = i)
                     THEN retryEntry(store[j]) ELSE Absent]
  <1>1. ASSUME NEW j \in Ids
        PROVE  /\ r[j] \in Entry
               /\ r[j].status # "absent" => store[j].status # "absent"
               /\ r[j].dependsOn \in {NoId, store[j].dependsOn}
    <2>1. store[j] \in Entry /\ now \in 0 .. Horizon /\ store[i].status # "absent"
      BY DEF retryFailed, Present, IInv, TypeOK
    <2>2. r[j] = Absent \/ (r[j] = retryEntry(store[j]) /\ store[j].status # "absent")
      BY <2>1
    <2> HIDE DEF r
    <2> QED
      BY <2>1, <2>2, AbsentType, RetryType
  <1>2. r \in [Ids -> Entry] /\ retry' = [retry EXCEPT ![t] = r]
    BY <1>1 DEF retryFailed
  <1>3. UNCHANGED <<store, now, pc, due, tried, reread, cur, curEntry, sentAny, pass,
                    stranded, signedIn, listed, accepted, thrownAway, wire, filed, shiftMap>>
    BY DEF retryFailed, drainVars, serverVars
  <1>4. events' \in 0 .. MaxEvents
    BY OutboxConstants DEF retryFailed, Event, IInv, TypeOK
  <1> HIDE DEF r
  <1>5. retry' \in [Tabs -> [Ids -> Entry]] /\ \A u \in Tabs : retry'[u] \in {retry[u], r}
    BY <1>2 DEF IInv, TypeOK
  <1>6. TypeOK'
    BY <1>3, <1>4, <1>5 DEF IInv, TypeOK
  <1>7. NothingLost'
    BY <1>3 DEF IInv, NothingLost, Present, FiledIds
  <1>8. OnlyAccepted'
    <2>1. Present(r) \subseteq Present(store)
      BY <1>1 DEF Present
    <2>2. \A u \in Tabs : Present(retry[u])' \subseteq Present(retry[u]) \cup Present(store)
      BY <1>5, <2>1 DEF Present
    <2>3. /\ Present(store)' = Present(store) /\ Done' = Done
          /\ \A u \in Tabs : /\ Present(due[u])' = Present(due[u])
                             /\ Present(stranded[u])' = Present(stranded[u])
      BY <1>3 DEF Present, Done, FiledIds
    <2> QED
      BY <1>3, <2>2, <2>3 DEF IInv, OnlyAccepted
  <1>9. DependenciesAccepted'
    BY <1>1, <1>3, <1>5 DEF IInv, DependenciesAccepted
  <1>10. TakenUpIsClear' /\ RequestsAreClear' /\ ShiftsAreFiled'
    BY <1>3 DEF IInv, TakenUpIsClear, RequestsAreClear, ShiftsAreFiled, Done, FiledIds
  <1> QED
    BY <1>6, <1>7, <1>8, <1>9, <1>10 DEF IInv

\* ... and puts them back.
LEMMA RetryPutInv ==
    ASSUME IInv, NEW t \in Tabs, NEW j \in Ids, RetryPut(t, j)
    PROVE  IInv'
  <1> DEFINE new == retry[t][j]
  <1>1. /\ new \in Entry /\ new.status # "absent" /\ j \in accepted
        /\ new.dependsOn \in accepted \cup {NoId}
    BY DEF RetryPut, Present, IInv, TypeOK, OnlyAccepted, DependenciesAccepted
  <1>2. store' = [store EXCEPT ![j] = new] /\ retry' = [retry EXCEPT ![t][j] = Absent]
    BY DEF RetryPut
  <1>3. UNCHANGED <<now, pc, due, tried, reread, cur, curEntry, sentAny, pass, stranded,
                    signedIn, listed, accepted, thrownAway, wire, filed, shiftMap, events>>
    BY DEF RetryPut, drainVars, serverVars
  <1>4. /\ retry' \in [Tabs -> [Ids -> Entry]]
        /\ \A u \in Tabs, k \in Ids : retry'[u][k] \in {retry[u][k], Absent}
    BY <1>2, AbsentType DEF IInv, TypeOK
  <1> HIDE DEF new
  <1>5. /\ store' \in [Ids -> Entry] /\ Present(store)' = Present(store) \cup {j}
        /\ \A k \in Ids : store'[k].dependsOn \in {store[k].dependsOn, new.dependsOn}
    BY <1>1, <1>2 DEF IInv, TypeOK, Present
  <1>6. TypeOK'
    BY <1>3, <1>4, <1>5 DEF IInv, TypeOK
  <1>7. NothingLost'
    BY <1>3, <1>5 DEF IInv, NothingLost, FiledIds
  <1>8. OnlyAccepted'
    <2>1. \A u \in Tabs : Present(retry[u])' \subseteq Present(retry[u])
      BY <1>4, AbsentType DEF Present
    <2>2. /\ Done' = Done
          /\ \A u \in Tabs : /\ Present(due[u])' = Present(due[u])
                             /\ Present(stranded[u])' = Present(stranded[u])
      BY <1>3 DEF Present, Done, FiledIds
    <2> QED
      BY <1>1, <1>3, <1>5, <2>1, <2>2 DEF IInv, OnlyAccepted
  <1>9. DependenciesAccepted'
    <2>1. ASSUME NEW k \in Ids, NEW u \in Tabs
          PROVE  retry'[u][k].dependsOn \in accepted \cup {NoId}
      BY <1>4, AbsentType DEF IInv, DependenciesAccepted
    <2>2. ASSUME NEW k \in Ids
          PROVE  store'[k].dependsOn \in accepted \cup {NoId}
      BY <1>1, <1>5 DEF IInv, DependenciesAccepted
    <2> QED
      BY <1>3, <2>1, <2>2 DEF IInv, DependenciesAccepted
  <1>10. TakenUpIsClear' /\ RequestsAreClear' /\ ShiftsAreFiled'
    BY <1>3 DEF IInv, TakenUpIsClear, RequestsAreClear, ShiftsAreFiled, Done, FiledIds
  <1> QED
    BY <1>6, <1>7, <1>8, <1>9, <1>10 DEF IInv

\* The phone queues a failed photo again.
LEMMA RecoverInv ==
    ASSUME IInv, NEW i \in Ids, RecoverPhoto(i)
    PROVE  IInv'
  <1> DEFINE new == retryEntry(store[i])
  <1>1. /\ new \in Entry /\ new.status # "absent" /\ new.dependsOn = store[i].dependsOn
        /\ store[i].status # "absent"
    BY RetryType DEF RecoverPhoto, IInv, TypeOK
  <1>2. store' = [store EXCEPT ![i] = new]
    BY DEF RecoverPhoto
  <1>3. UNCHANGED <<now, pc, due, tried, reread, cur, curEntry, sentAny, pass, stranded,
                    signedIn, listed, retry, accepted, thrownAway, wire, filed, shiftMap>>
    BY DEF RecoverPhoto, drainVars, personVars, serverVars
  <1>4. events' \in 0 .. MaxEvents
    BY OutboxConstants DEF RecoverPhoto, Event, IInv, TypeOK
  <1> HIDE DEF new
  <1>5. /\ store' \in [Ids -> Entry] /\ Present(store)' = Present(store)
        /\ \A k \in Ids : store'[k].dependsOn = store[k].dependsOn
    BY <1>1, <1>2 DEF IInv, TypeOK, Present
  <1>6. TypeOK'
    BY <1>3, <1>4, <1>5 DEF IInv, TypeOK
  <1>7. NothingLost' /\ OnlyAccepted' /\ DependenciesAccepted'
    BY <1>3, <1>5
       DEF IInv, NothingLost, OnlyAccepted, DependenciesAccepted, Present, Done, FiledIds
  <1>8. TakenUpIsClear' /\ RequestsAreClear' /\ ShiftsAreFiled'
    BY <1>3 DEF IInv, TakenUpIsClear, RequestsAreClear, ShiftsAreFiled, Done, FiledIds
  <1> QED
    BY <1>6, <1>7, <1>8 DEF IInv

\* A person throws a write away.
LEMMA DiscardInv ==
    ASSUME IInv, NEW t \in Tabs, NEW i \in Ids, discardFailed(t, i)
    PROVE  IInv'
  <1>1. /\ store' = [store EXCEPT ![i] = Absent]
        /\ thrownAway' = thrownAway \cup {i} /\ i \in accepted
    BY DEF discardFailed, IInv, OnlyAccepted
  <1>2. UNCHANGED <<now, pc, due, tried, reread, cur, curEntry, sentAny, pass, stranded,
                    signedIn, listed, retry, accepted, wire, filed, shiftMap>>
    BY DEF discardFailed, drainVars, serverVars
  <1>3. events' \in 0 .. MaxEvents
    BY OutboxConstants DEF discardFailed, Event, IInv, TypeOK
  <1>4. /\ store' \in [Ids -> Entry]
        /\ Present(store) \subseteq Present(store)' \cup {i}
        /\ Present(store)' \subseteq Present(store)
        /\ \A j \in Ids : store'[j].dependsOn \in {store[j].dependsOn, NoId}
    BY <1>1, AbsentType DEF IInv, TypeOK, Present
  <1>5. FiledIds' = FiledIds /\ Done \subseteq Done' /\ Done' = Done \cup {i}
    BY <1>1, <1>2 DEF FiledIds, Done
  <1>6. TypeOK'
    BY <1>1, <1>2, <1>3, <1>4 DEF IInv, TypeOK
  <1>7. NothingLost'
    BY <1>1, <1>2, <1>4, <1>5 DEF IInv, NothingLost
  <1>8. OnlyAccepted'
    BY <1>1, <1>2, <1>4, <1>5 DEF IInv, OnlyAccepted, Present
  <1>9. DependenciesAccepted'
    BY <1>2, <1>4 DEF IInv, DependenciesAccepted
  <1>10. TakenUpIsClear'
    BY <1>2, <1>5 DEF IInv, TakenUpIsClear
  <1>11. RequestsAreClear' /\ ShiftsAreFiled'
    BY <1>2, <1>5 DEF IInv, RequestsAreClear, ShiftsAreFiled
  <1> QED
    BY <1>6, <1>7, <1>8, <1>9, <1>10, <1>11 DEF IInv

\* The server records a request under its key.
LEMMA LandInv ==
    ASSUME IInv, NEW m \in wire, Land(m)
    PROVE  IInv'
  <1>1. /\ wire' \subseteq wire /\ filed \subseteq filed'
        /\ filed' \subseteq filed \cup {m}
        /\ m \in Message /\ m.id \in accepted
    BY DEF Land, IInv, TypeOK, OnlyAccepted
  <1>2. UNCHANGED <<store, now, pc, due, tried, reread, cur, curEntry, sentAny, pass,
                    stranded, signedIn, listed, retry, accepted, thrownAway, shiftMap, events>>
    BY DEF Land, drainVars, personVars
  <1>3. /\ FiledIds \subseteq FiledIds' /\ Done \subseteq Done'
        /\ FiledIds' \subseteq FiledIds \cup {m.id} /\ Done' \subseteq Done \cup {m.id}
    BY <1>1, <1>2 DEF FiledIds, Done
  <1>4. TypeOK'
    BY <1>1, <1>2 DEF IInv, TypeOK
  <1>5. NothingLost'
    BY <1>2, <1>3 DEF IInv, NothingLost, Present
  <1>6. OnlyAccepted'
    BY <1>1, <1>2, <1>3 DEF IInv, OnlyAccepted, Present
  <1>7. DependenciesAccepted'
    BY <1>2 DEF IInv, DependenciesAccepted
  <1>8. TakenUpIsClear'
    BY <1>2, <1>3 DEF IInv, TakenUpIsClear
  <1>9. RequestsAreClear' /\ ShiftsAreFiled'
    BY <1>1, <1>2, <1>3 DEF IInv, RequestsAreClear, ShiftsAreFiled
  <1> QED
    BY <1>4, <1>5, <1>6, <1>7, <1>8, <1>9 DEF IInv

-----------------------------------------------------------------------------
(* The theorems *)

\* Every step of the queue keeps the invariant.
LEMMA StepInv == IInv /\ [Next]_vars => IInv'
  <1> SUFFICES ASSUME IInv, [Next]_vars PROVE IInv'
    OBVIOUS
  <1>1. ASSUME NEW t \in Tabs, NEW force \in BOOLEAN, StartDrain(t, force) PROVE IInv'
    BY <1>1, PassInv
  <1>2. ASSUME NEW t \in Tabs, DrainStep(t) PROVE IInv'
    <2>1. CASE NextPass(t) \/ EndDrain(t)
      BY <1>2, <2>1, PassInv
    <2>2. CASE LookForPunches(t) \/ Send(t)
      BY <1>2, <2>2, LookForPunchesInv, SendInv
    <2>3. CASE \E i \in Ids : Attempt(t, i)
      BY <1>2, <2>3, AttemptInv
    <2>4. CASE Hold(t) \/ Confirm(t) \/ Refuse(t)
      BY <1>2, <2>4, OutcomeInv
    <2>5. CASE \E class \in {"transport", "server"} : FailSend(t, class)
      BY <1>2, <2>5, OutcomeInv
    <2>6. CASE \E i \in Ids : Strand(t, i)
      BY <1>2, <2>6, CascadeInv
    <2>7. CASE Cascade(t) \/ EndCascade(t)
      <3>1. cur[t] \in Ids
        BY <2>7, GoneIsDone DEF Cascade, EndCascade, IInv, OnlyAccepted
      <3> QED
        BY <1>2, <2>7, <3>1, CascadeInv
    <2> QED
      BY <1>2, <2>1, <2>2, <2>3, <2>4, <2>5, <2>6, <2>7 DEF DrainStep
  <1>3. ASSUME NEW t \in Tabs, NEW i \in Ids, RetryPut(t, i) PROVE IInv'
    BY <1>3, RetryPutInv
  <1>4. ASSUME NEW t \in Tabs, Crash(t) PROVE IInv'
    BY <1>4, CrashInv
  <1>5. ASSUME NEW m \in wire, Land(m) PROVE IInv'
    BY <1>5, LandInv
  <1>6. ASSUME NEW i \in Ids, Enqueue(i) PROVE IInv'
    BY <1>6, EnqueueInv
  <1>7. ASSUME NEW t \in Tabs, NEW i \in Ids, retryFailed(t, i) \/ discardFailed(t, i) PROVE IInv'
    BY <1>7, RetryFailedInv, DiscardInv
  <1>8. ASSUME NEW t \in Tabs, listFailed(t) PROVE IInv'
    BY <1>8, AsideInv
  <1>9. CASE Tick \/ \E person \in People \cup {NoOne} : SignIn(person)
    BY <1>9, AsideInv
  <1>10. ASSUME NEW i \in Ids, LateReply(i) PROVE IInv'
    BY <1>10, AsideInv
  <1>12. ASSUME NEW i \in Ids, RecoverPhoto(i) PROVE IInv'
    BY <1>12, RecoverInv
  <1>11. CASE UNCHANGED vars
    BY <1>11
       DEF vars, drainVars, personVars, serverVars, IInv, TypeOK, NothingLost, OnlyAccepted,
           DependenciesAccepted, TakenUpIsClear, RequestsAreClear, ShiftsAreFiled,
           Present, Done, FiledIds
  <1> QED
    BY <1>1, <1>2, <1>3, <1>4, <1>5, <1>6, <1>7, <1>8, <1>9, <1>10, <1>11, <1>12
       DEF Next, PersonStep

\* The invariant holds throughout.
LEMMA Invariance == Spec => []IInv
  <1>1. IInv /\ [Next]_vars => IInv'
    BY StepInv
  <1> QED
    BY InitInv, <1>1, PTL DEF Spec

\* Every reachable state of the store, the drains and the requests is of its
\* declared type; in particular no drain runs past its ceiling on passes.
THEOREM TypeCorrect == Spec => []TypeOK
  <1>1. IInv => TypeOK
    BY DEF IInv
  <1> QED
    BY Invariance, <1>1, PTL

\* A write leaves the phone only once the server has it or a person threw it
\* away, for any number of tabs, people, writes, crashes and retries.
THEOREM NeverLost == Spec => []NothingLost
  <1>1. IInv => NothingLost
    BY DEF IInv
  <1> QED
    BY Invariance, <1>1, PTL

\* Whatever the server recorded, it recorded after what it waited on was filed
\* or thrown away, and breaks and clock-outs after their clock-in.
THEOREM NeverAhead == Spec => []FiledInOrder
  <1>1. IInv => FiledInOrder
    BY DEF IInv, RequestsAreClear, FiledInOrder, Done
  <1> QED
    BY Invariance, <1>1, PTL

\* Whatever the server recorded, it recorded as the person who queued it.
THEOREM NeverAsAnother == Spec => []FiledAsOwner
  <1>1. IInv => FiledAsOwner
    BY DEF IInv, RequestsAreClear, FiledAsOwner
  <1> QED
    BY Invariance, <1>1, PTL
=============================================================================
