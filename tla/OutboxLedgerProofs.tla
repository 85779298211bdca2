------------------------- MODULE OutboxLedgerProofs -------------------------
(***************************************************************************)
(* Outbox implements WriteLedger.  A swap changes a row only where it finds *)
(* what the drain read, so a step of the drain opens, settles or gives up  *)
(* at most one write; the invariant of OutboxProofs gives the ledger's     *)
(* guards.                                                                 *)
(***************************************************************************)
EXTENDS OutboxLedger, OutboxProofs, FiniteSetTheorems, WellFoundedInduction

(* Rows *)

\* A row reads back queued exactly when nobody has given up on it.
LEMMA ReadBackStatus ==
    ASSUME NEW e \in Entry
    PROVE  /\ deserializeEntry(e).status = "queued" <=> e.status \in {"queued", "sending"}
           /\ deserializeEntry(e).status \in {"queued", "failed", "absent"}
           /\ deserializeEntry(e).status = "failed" <=> e.status = "failed"
  BY DEF deserializeEntry, Entry, Statuses

\* Over a copy that was queued, a swap either changes nothing or writes one row
\* that is there and not given up on.
LEMMA SwapOverQueued ==
    ASSUME store \in [Ids -> Entry], NEW i \in Ids, NEW old \in Entry, NEW new,
           old.status = "queued", swap(i, old, new)
    PROVE  \/ store' = store
           \/ /\ store[i].status \in {"queued", "sending"}
              /\ store' = [store EXCEPT ![i] = new]
  BY ReadBackStatus DEF swap, sameState

\* What a pass takes up or a dead letter strands was read as queued.
LEMMA ReadQueued ==
    ASSUME store \in [Ids -> Entry], NEW i \in Ids, NEW j \in Ids, NEW force
    PROVE  /\ dueEntries(store, force)[i].status \in {"queued", "absent"}
           /\ cascadeFailure(store, j)[i].status \in {"queued", "absent"}
  <1>1. dueEntries(store, force)[i].status \in {"queued", "absent"}
    BY AbsentType DEF dueEntries, isDue
  <1>2. ASSUME i \in waitingOn(store, j)
        PROVE  store[i].status \in {"queued", "sending"}
    BY <1>2 DEF waitingOn, Present, Entry, Statuses
  <1>3. i \in waitingOn(store, j) => deserializeEntry(store[i]).status = "queued"
    BY <1>2, ReadBackStatus
  <1>4. cascadeFailure(store, j)[i].status \in {"queued", "absent"}
    BY <1>3, AbsentType DEF cascadeFailure
  <1> QED
    BY <1>1, <1>4

-----------------------------------------------------------------------------
(* The copies a drain holds *)

LEMMA CopiesInit == Init => CopiesAreQueued
  BY DEF Init, CopiesAreQueued, Nothing, Absent

\* Only three reads of the store make copies, and each copies queued rows; only
\* Attempt makes one the copy being attempted.
LEMMA CopiesStep == IInv /\ CopiesAreQueued /\ [Next]_vars => CopiesAreQueued'
  <1> SUFFICES ASSUME IInv, CopiesAreQueued, [Next]_vars PROVE CopiesAreQueued'
    OBVIOUS
  <1> USE DEF CopiesAreQueued
  <1>a. /\ store \in [Ids -> Entry]
        /\ due \in [Tabs -> [Ids -> Entry]] /\ stranded \in [Tabs -> [Ids -> Entry]]
        /\ pc \in [Tabs -> {"idle", "loop", "marked", "awaiting", "cascade", "strand"}]
        /\ curEntry \in [Tabs -> Entry]
    BY DEF IInv, TypeOK
  <1>b. Absent.status = "absent" /\ \A i \in Ids : Nothing[i] = Absent
    BY AbsentType
  <1>1. ASSUME NEW t \in Tabs, NEW force, Snapshot(t, force) PROVE CopiesAreQueued'
    <2>1. /\ due' = [due EXCEPT ![t] = dueEntries(store, force)]
          /\ pc' = [pc EXCEPT ![t] = "loop"]
          /\ UNCHANGED <<curEntry, stranded>>
      BY <1>1 DEF Snapshot
    <2>2. \A i \in Ids : dueEntries(store, force)[i].status \in {"queued", "absent"}
      BY <1>a, ReadQueued
    <2> QED
      BY <1>a, <2>1, <2>2
  <1>2. ASSUME NEW t \in Tabs, LookForPunches(t) PROVE CopiesAreQueued'
    <2> DEFINE joined == [i \in Ids |-> IF isClockLaneOp(i) /\ i \notin tried[t]
                                       THEN dueEntries(store, FALSE)[i] ELSE due[t][i]]
    <2>1. due' = [due EXCEPT ![t] = joined] /\ UNCHANGED <<pc, curEntry, stranded>>
      BY <1>2 DEF LookForPunches
    <2>2. \A i \in Ids : joined[i].status \in {"queued", "absent"}
      BY <1>a, ReadQueued
    <2> HIDE DEF joined
    <2> QED
      BY <1>a, <2>1, <2>2
  <1>3. ASSUME NEW t \in Tabs, NEW i \in Ids, Attempt(t, i) PROVE CopiesAreQueued'
    <2>1. due[t][i].status = "queued"
      BY <1>3, <1>a DEF Attempt, First, Present
    <2>2. /\ due' = [due EXCEPT ![t][i] = Absent] /\ UNCHANGED stranded
          /\ \/ UNCHANGED <<pc, curEntry>>
             \/ /\ pc' = [pc EXCEPT ![t] = "marked"]
                /\ curEntry' = [curEntry EXCEPT ![t] = due[t][i]]
      BY <1>3 DEF Attempt
    <2> QED
      BY <1>a, <1>b, <2>1, <2>2
  <1>4. ASSUME NEW t \in Tabs, Send(t) PROVE CopiesAreQueued'
    BY <1>4, <1>a DEF Send
  <1>5. ASSUME NEW t \in Tabs,
               BackToLoop(t) \/ (pc' = [pc EXCEPT ![t] = "cascade"] /\ UNCHANGED <<cur, curEntry>>),
               UNCHANGED <<due, stranded>>
        PROVE  CopiesAreQueued'
    BY <1>5, <1>a DEF BackToLoop
  <1>6. ASSUME NEW t \in Tabs, NEW class,
               Hold(t) \/ Confirm(t) \/ FailSend(t, class) \/ Refuse(t) \/ EndCascade(t)
        PROVE  CopiesAreQueued'
    <2>1. /\ UNCHANGED <<due, stranded>>
          /\ BackToLoop(t) \/ (pc' = [pc EXCEPT ![t] = "cascade"] /\ UNCHANGED <<cur, curEntry>>)
      BY <1>6 DEF Hold, Confirm, FailSend, Refuse, EndCascade, recordFailure
    <2> QED
      BY <1>5, <2>1
  <1>7. ASSUME NEW t \in Tabs, Cascade(t) PROVE CopiesAreQueued'
    <2>1. cur[t] \in Ids
      BY <1>7, GoneIsDone DEF Cascade, IInv, OnlyAccepted
    <2>2. /\ stranded' = [stranded EXCEPT ![t] = cascadeFailure(store, cur[t])]
          /\ pc' = [pc EXCEPT ![t] = "strand"] /\ UNCHANGED <<due, curEntry>>
      BY <1>7 DEF Cascade
    <2>3. \A i \in Ids : cascadeFailure(store, cur[t])[i].status \in {"queued", "absent"}
      BY <1>a, <2>1, ReadQueued
    <2> QED
      BY <1>a, <2>2, <2>3
  <1>8. ASSUME NEW t \in Tabs, NEW i \in Ids, Strand(t, i) PROVE CopiesAreQueued'
    BY <1>8, <1>a, <1>b DEF Strand
  <1>9. ASSUME NEW t \in Tabs, EndDrain(t) PROVE CopiesAreQueued'
    BY <1>9, <1>a DEF EndDrain
  <1>10. ASSUME NEW t \in Tabs, Crash(t) PROVE CopiesAreQueued'
    <2>1. /\ due' = [due EXCEPT ![t] = Nothing] /\ stranded' = [stranded EXCEPT ![t] = Nothing]
          /\ pc' = [pc EXCEPT ![t] = "idle"] /\ curEntry' = [curEntry EXCEPT ![t] = Absent]
      BY <1>10 DEF Crash
    <2> QED
      BY <1>a, <1>b, <2>1
  <1>11. ASSUME UNCHANGED <<due, stranded, pc, curEntry>> PROVE CopiesAreQueued'
    BY <1>11
  <1>12. ASSUME NEW t \in Tabs, DrainStep(t) PROVE CopiesAreQueued'
    <2>1. NextPass(t) => Snapshot(t, FALSE)
      BY DEF NextPass
    <2> QED
      BY <1>1, <1>2, <1>3, <1>4, <1>6, <1>7, <1>8, <1>9, <1>12, <2>1 DEF DrainStep
  <1>13. ASSUME PersonStep \/ Tick PROVE CopiesAreQueued'
    BY <1>11, <1>13
       DEF PersonStep, Tick, SignIn, Enqueue, listFailed, retryFailed, discardFailed, drainVars
  <1>14. ASSUME NEW t \in Tabs, NEW i \in Ids, RetryPut(t, i) PROVE CopiesAreQueued'
    BY <1>11, <1>14 DEF RetryPut, drainVars
  <1>18. ASSUME NEW i \in Ids, RecoverPhoto(i) PROVE CopiesAreQueued'
    BY <1>11, <1>18 DEF RecoverPhoto, drainVars
  <1>15. ASSUME NEW m \in wire, Land(m) PROVE CopiesAreQueued'
    BY <1>11, <1>15 DEF Land, drainVars
  <1>16. ASSUME NEW i \in Ids, LateReply(i) PROVE CopiesAreQueued'
    BY <1>11, <1>16 DEF LateReply, drainVars
  <1>17. CASE UNCHANGED vars
    BY <1>11, <1>17 DEF vars, drainVars
  <1> QED
    <2>1. \A t \in Tabs, force \in BOOLEAN : StartDrain(t, force) => Snapshot(t, force)
      BY DEF StartDrain
    <2> QED
      BY <1>1, <1>10, <1>12, <1>13, <1>14, <1>15, <1>16, <1>17, <1>18, <2>1 DEF Next

LEMMA TapsInit == Init => TapsAreQueued
  BY DEF Init, TapsAreQueued, Nothing, Absent

\* "Try again" queues what it puts back; nothing else writes that list.
LEMMA TapsStep == IInv /\ TapsAreQueued /\ [Next]_vars => TapsAreQueued'
  <1> SUFFICES ASSUME IInv, TapsAreQueued, [Next]_vars PROVE TapsAreQueued'
    OBVIOUS
  <1> USE DEF TapsAreQueued
  <1>a. retry \in [Tabs -> [Ids -> Entry]]
    BY DEF IInv, TypeOK
  <1>1. ASSUME NEW t \in Tabs, NEW i \in Ids, retryFailed(t, i) PROVE TapsAreQueued'
    <2> DEFINE taken == [j \in Ids |-> IF j = i \/ (store[j].status = "failed" /\ store[j].dependsOn = i)
                                      THEN retryEntry(store[j]) ELSE Absent]
    <2>1. retry' = [retry EXCEPT ![t] = taken]
      BY <1>1 DEF retryFailed
    <2>2. store \in [Ids -> Entry]
      BY DEF IInv, TypeOK
    <2>3. \A j \in Ids : taken[j].status \in {"queued", "absent"}
      BY <2>2, AbsentType DEF retryEntry, Entry
    <2> HIDE DEF taken
    <2> QED
      BY <1>a, <2>1, <2>3
  <1>2. ASSUME NEW t \in Tabs, NEW i \in Ids, RetryPut(t, i) PROVE TapsAreQueued'
    BY <1>a, <1>2, AbsentType DEF RetryPut
  <1>3. ASSUME NEW t \in Tabs, Crash(t) PROVE TapsAreQueued'
    BY <1>a, <1>3, AbsentType DEF Crash
  <1>4. ASSUME UNCHANGED retry PROVE TapsAreQueued'
    BY <1>4
  <1>5. ASSUME NEW t \in Tabs, DrainStep(t) PROVE TapsAreQueued'
    BY <1>4, <1>5
       DEF DrainStep, NextPass, Snapshot, EndDrain, LookForPunches, Attempt, Send, Hold, Confirm,
           FailSend, Refuse, recordFailure, Cascade, Strand, EndCascade, personVars
  <1>6. ASSUME NEW t \in Tabs, NEW force, StartDrain(t, force) PROVE TapsAreQueued'
    BY <1>4, <1>6 DEF StartDrain, Snapshot, personVars
  <1>7. ASSUME NEW t, NEW i, NEW person, NEW m,
               \/ Tick \/ SignIn(person) \/ Enqueue(i) \/ listFailed(t) \/ discardFailed(t, i)
               \/ Land(m) \/ LateReply(i) \/ RecoverPhoto(i) \/ UNCHANGED vars
        PROVE  TapsAreQueued'
    BY <1>4, <1>7
       DEF Tick, SignIn, Enqueue, listFailed, discardFailed, Land, LateReply, RecoverPhoto,
           vars, personVars
  <1> QED
    BY <1>1, <1>2, <1>3, <1>5, <1>6, <1>7 DEF Next, PersonStep

-----------------------------------------------------------------------------
(* Every step is a step of the ledger or none *)

LEMMA LedgerInit == Init => Ledger!Init
  <1> SUFFICES ASSUME Init PROVE Ledger!Init
    OBVIOUS
  <1>1. openRows = {} /\ deadRows = {} /\ askedAgain = {}
    BY AbsentType DEF Init, openRows, deadRows, askedAgain, Present
  <1> QED
    BY <1>1 DEF Init, Ledger!Init

\* A step that leaves the rows open and dead as they were, and the rest alone,
\* is none of the ledger's.
LEMMA NoLedgerStep ==
    ASSUME openRows' = openRows, deadRows' = deadRows, UNCHANGED <<retry, accepted, filed, thrownAway>>
    PROVE  UNCHANGED Ledger!ledger
  BY DEF Ledger!ledger, askedAgain, Present

\* A swap over a queued copy: the row stays open, is given up on, or goes.
LEMMA SwapStep ==
    ASSUME IInv, NEW i \in Ids, NEW old \in Entry, NEW new \in Entry,
           old.status = "queued", swap(i, old, new),
           new.status = "absent" => i \in FiledIds,
           UNCHANGED <<retry, accepted, filed, thrownAway>>
    PROVE  [Ledger!Next]_(Ledger!ledger)
  <1>1. store \in [Ids -> Entry]
    BY DEF IInv, TypeOK
  <1>2. CASE store' = store
    BY <1>2, NoLedgerStep DEF openRows, deadRows, Present
  <1>3. CASE store[i].status \in {"queued", "sending"} /\ store' = [store EXCEPT ![i] = new]
    <2>1. i \in openRows /\ i \notin deadRows
      BY <1>3 DEF openRows, deadRows, Present
    <2>2. askedAgain' = askedAgain
      BY DEF askedAgain, Present
    <2>3. CASE new.status = "absent"
      <3>1. openRows' = openRows \ {i} /\ deadRows' = deadRows
        BY <1>1, <1>3, <2>3 DEF openRows, deadRows, Present
      <3>2. i \in {m.id : m \in filed}
        BY <2>3 DEF FiledIds
      <3> QED
        BY <2>1, <2>2, <3>1, <3>2 DEF Ledger!Next, Ledger!Settle, Ledger!FiledIds
    <2>4. CASE new.status = "failed"
      <3>1. openRows' = openRows /\ deadRows' = deadRows \cup {i}
        BY <1>1, <1>3, <2>4 DEF openRows, deadRows, Present
      <3> QED
        BY <2>1, <2>2, <3>1 DEF Ledger!Next, Ledger!GiveUp
    <2>5. CASE new.status \in {"queued", "sending"}
      <3>1. openRows' = openRows /\ deadRows' = deadRows
        BY <1>1, <1>3, <2>5 DEF openRows, deadRows, Present
      <3> QED
        BY <3>1, NoLedgerStep
    <2> QED
      BY <2>3, <2>4, <2>5 DEF Entry, Statuses
  <1> QED
    BY <1>1, <1>2, <1>3, SwapOverQueued

\* The steps of a drain.
LEMMA DrainLedger ==
    ASSUME IInv, CopiesAreQueued, NEW t \in Tabs, DrainStep(t)
    PROVE  [Ledger!Next]_(Ledger!ledger)
  <1>a. /\ store \in [Ids -> Entry]
        /\ due \in [Tabs -> [Ids -> Entry]] /\ stranded \in [Tabs -> [Ids -> Entry]]
        /\ curEntry[t] \in Entry /\ now \in 0 .. Horizon
        /\ pc[t] \in {"marked", "awaiting"} => cur[t] \in Ids
    BY GoneIsDone DEF IInv, TypeOK, OnlyAccepted
  <1>1. ASSUME UNCHANGED <<store, personVars, filed>> PROVE [Ledger!Next]_(Ledger!ledger)
    BY <1>1, NoLedgerStep DEF personVars, openRows, deadRows, Present
  <1>2. CASE \/ NextPass(t) \/ EndDrain(t) \/ LookForPunches(t) \/ Send(t)
             \/ Cascade(t) \/ EndCascade(t)
    BY <1>1, <1>2
       DEF NextPass, Snapshot, EndDrain, LookForPunches, Send, Cascade, EndCascade, serverVars
  <1>3. ASSUME NEW i \in Ids, Attempt(t, i) PROVE [Ledger!Next]_(Ledger!ledger)
    <2>1. due[t][i].status = "queued" /\ due[t][i] \in Entry
      BY <1>3, <1>a DEF Attempt, First, Present, CopiesAreQueued
    <2>2. markSending(due[t][i]) \in Entry /\ markSending(due[t][i]).status = "sending"
      BY <2>1 DEF markSending, Entry, Statuses
    <2>3. /\ swap(i, due[t][i], markSending(due[t][i]))
          /\ UNCHANGED <<retry, accepted, filed, thrownAway>>
      BY <1>3 DEF Attempt, personVars, serverVars
    <2> QED
      BY <2>1, <2>2, <2>3, SwapStep
  <1>4. CASE Hold(t)
    <2>1. curEntry[t].status = "queued" /\ cur[t] \in Ids
      BY <1>4, <1>a DEF Hold, CopiesAreQueued
    <2>2. swap(cur[t], curEntry[t], curEntry[t]) /\ UNCHANGED <<retry, accepted, filed, thrownAway>>
      BY <1>4 DEF Hold, personVars, serverVars
    <2> QED
      BY <1>a, <2>1, <2>2, SwapStep
  <1>5. CASE Confirm(t)
    <2>1. curEntry[t].status = "queued" /\ cur[t] \in Ids
      BY <1>5, <1>a DEF Confirm, CopiesAreQueued
    <2>2. /\ swap(cur[t], curEntry[t], Absent) /\ cur[t] \in FiledIds
          /\ UNCHANGED <<retry, accepted, filed, thrownAway>>
      BY <1>5 DEF Confirm, personVars, serverVars
    <2> QED
      BY <1>a, <2>1, <2>2, AbsentType, SwapStep
  <1>6. ASSUME NEW class, recordFailure(t, class), pc[t] \in {"marked", "awaiting"}
        PROVE  [Ledger!Next]_(Ledger!ledger)
    <2> DEFINE next == applyFailure(cur[t], curEntry[t], class)
    <2>1. curEntry[t].status = "queued" /\ cur[t] \in Ids
      BY <1>6, <1>a DEF CopiesAreQueued
    <2>2. next \in Entry /\ next.status # "absent"
      BY <1>a, <2>1, ApplyFailureType
    <2>3. swap(cur[t], curEntry[t], next) /\ UNCHANGED <<retry, accepted, filed, thrownAway>>
      BY <1>6 DEF recordFailure, personVars
    <2> HIDE DEF next
    <2> QED
      BY <1>a, <2>1, <2>2, <2>3, SwapStep
  <1>7. CASE Refuse(t) \/ \E class \in {"transport", "server"} : FailSend(t, class)
    BY <1>6, <1>7 DEF Refuse, FailSend
  <1>8. ASSUME NEW i \in Ids, Strand(t, i) PROVE [Ledger!Next]_(Ledger!ledger)
    <2> DEFINE next == [stranded[t][i] EXCEPT !.status = "failed"]
    <2>1. stranded[t][i].status = "queued" /\ stranded[t][i] \in Entry
      BY <1>8, <1>a DEF Strand, Present, CopiesAreQueued
    <2>2. next \in Entry /\ next.status = "failed"
      BY <2>1 DEF Entry, Statuses
    <2>3. swap(i, stranded[t][i], next) /\ UNCHANGED <<retry, accepted, filed, thrownAway>>
      BY <1>8 DEF Strand, personVars, serverVars
    <2> HIDE DEF next
    <2> QED
      BY <2>1, <2>2, <2>3, SwapStep
  <1> QED
    BY <1>2, <1>3, <1>4, <1>5, <1>7, <1>8 DEF DrainStep

\* What a person does is one line of the ledger each.
LEMMA EnqueueLedger ==
    ASSUME IInv, NEW i \in Ids, Enqueue(i)
    PROVE  [Ledger!Next]_(Ledger!ledger)
  <1>a. /\ store \in [Ids -> Entry] /\ retry \in [Tabs -> [Ids -> Entry]]
        /\ accepted \subseteq Ids
    BY DEF IInv, TypeOK
  <1>1. makeEntry(dependsOnFor(i)).status = "queued"
    BY DEF makeEntry
  <1>2. /\ store' = [store EXCEPT ![i] = makeEntry(dependsOnFor(i))]
        /\ i \notin Present(store) /\ (i \notin accepted \/ i \in StableIds)
        /\ accepted' = accepted \cup {i} /\ UNCHANGED <<retry, filed, thrownAway>>
    BY DEF Enqueue, serverVars
  <1>3. openRows' = openRows \cup {i} /\ deadRows' = deadRows /\ i \notin openRows
    BY <1>a, <1>1, <1>2 DEF openRows, deadRows, Present
  <1>4. askedAgain' = askedAgain
    BY <1>2 DEF askedAgain, Present
  <1> QED
    BY <1>2, <1>3, <1>4 DEF Ledger!Next, Ledger!Accept

LEMMA RetryFailedLedger ==
    ASSUME IInv, NEW t \in Tabs, NEW i \in Ids, retryFailed(t, i)
    PROVE  [Ledger!Next]_(Ledger!ledger)
  <1>a. /\ store \in [Ids -> Entry] /\ retry \in [Tabs -> [Ids -> Entry]]
        /\ accepted \subseteq Ids
    BY DEF IInv, TypeOK
  <1> DEFINE S == Present(retry'[t])
             taken == [j \in Ids |-> IF j = i \/ (store[j].status = "failed" /\ store[j].dependsOn = i)
                                     THEN retryEntry(store[j]) ELSE Absent]
  <1>1. /\ retry' = [retry EXCEPT ![t] = taken]
        /\ i \in Present(store) /\ Present(retry[t]) = {}
        /\ UNCHANGED <<store, accepted, filed, thrownAway>>
    BY DEF retryFailed, serverVars
  <1>2. Present(taken) \subseteq Present(store)
    BY <1>1, AbsentType DEF Present
  <1> HIDE DEF taken
  <1>3. S = Present(taken) /\ S \subseteq accepted /\ S \in SUBSET Ids
    BY <1>a, <1>1, <1>2 DEF IInv, OnlyAccepted, Present
  <1>4. \A u \in Tabs : u # t => retry'[u] = retry[u]
    BY <1>a, <1>1
  <1> HIDE DEF S
  <1>5. askedAgain' = askedAgain \cup S
    BY <1>1, <1>4 DEF askedAgain, S, Present
  <1>6. openRows' = openRows /\ deadRows' = deadRows
    BY <1>1 DEF openRows, deadRows, Present
  <1>7. Ledger!Tap(S)
    BY <1>1, <1>3, <1>5, <1>6 DEF Ledger!Tap
  <1> QED
    BY <1>3, <1>7 DEF Ledger!Next

LEMMA RetryPutLedger ==
    ASSUME IInv, TapsAreQueued, NEW t \in Tabs, NEW i \in Ids, RetryPut(t, i)
    PROVE  [Ledger!Next]_(Ledger!ledger)
  <1>a. /\ store \in [Ids -> Entry] /\ retry \in [Tabs -> [Ids -> Entry]]
        /\ accepted \subseteq Ids
    BY DEF IInv, TypeOK
  <1>1. /\ i \in Present(retry[t])
        /\ store' = [store EXCEPT ![i] = retry[t][i]]
        /\ retry' = [retry EXCEPT ![t][i] = Absent]
        /\ UNCHANGED <<accepted, filed, thrownAway>>
    BY DEF RetryPut, serverVars
  <1>2. i \in askedAgain
    BY <1>1 DEF askedAgain
  <1>3. openRows' = openRows \cup {i}
    BY <1>a, <1>1 DEF openRows, Present
  <1>4. askedAgain' \in {askedAgain, askedAgain \ {i}}
    <2>1. \A u \in Tabs, j \in Ids :
             j \in Present(retry[u])' <=> j \in Present(retry[u]) /\ ~(u = t /\ j = i)
      BY <1>a, <1>1, AbsentType DEF Present
    <2>2. CASE \E u \in Tabs \ {t} : i \in Present(retry[u])
      <3>1. askedAgain' = askedAgain
        BY <1>1, <2>1, <2>2 DEF askedAgain
      <3> QED
        BY <3>1
    <2>3. CASE ~\E u \in Tabs \ {t} : i \in Present(retry[u])
      <3>1. askedAgain' = askedAgain \ {i}
        BY <2>1, <2>3 DEF askedAgain
      <3> QED
        BY <3>1
    <2> QED
      BY <2>2, <2>3
  <1>5. deadRows' = deadRows \ {i}
    BY <1>a, <1>1 DEF deadRows, TapsAreQueued
  <1> QED
    BY <1>1, <1>2, <1>3, <1>4, <1>5 DEF Ledger!Next, Ledger!Revive

LEMMA DiscardLedger ==
    ASSUME IInv, NEW t \in Tabs, NEW i \in Ids, discardFailed(t, i)
    PROVE  [Ledger!Next]_(Ledger!ledger)
  <1>a. /\ store \in [Ids -> Entry] /\ retry \in [Tabs -> [Ids -> Entry]]
        /\ accepted \subseteq Ids
    BY DEF IInv, TypeOK
  <1>1. /\ i \in Present(store) /\ store' = [store EXCEPT ![i] = Absent]
        /\ thrownAway' = thrownAway \cup {i} /\ UNCHANGED <<retry, accepted, filed>>
    BY DEF discardFailed, serverVars
  <1>2. /\ openRows' = openRows \ {i} /\ deadRows' = deadRows \ {i} /\ i \in openRows
        /\ askedAgain' = askedAgain
    BY <1>a, <1>1, AbsentType DEF openRows, deadRows, askedAgain, Present
  <1> QED
    BY <1>1, <1>2 DEF Ledger!Next, Ledger!ThrowAway

LEMMA RecoverLedger ==
    ASSUME IInv, NEW i \in Ids, RecoverPhoto(i)
    PROVE  [Ledger!Next]_(Ledger!ledger)
  <1>a. store \in [Ids -> Entry]
    BY DEF IInv, TypeOK
  <1>1. /\ i \in photos /\ store[i].status = "failed"
        /\ store' = [store EXCEPT ![i] = retryEntry(store[i])]
        /\ UNCHANGED <<retry, accepted, filed, thrownAway>>
    BY DEF RecoverPhoto, photos, personVars, serverVars
  <1>2. retryEntry(store[i]).status = "queued"
    BY <1>a DEF retryEntry, Entry
  <1>3. openRows' = openRows /\ deadRows' = deadRows \ {i} /\ i \in deadRows
    BY <1>a, <1>1, <1>2 DEF openRows, deadRows, Present
  <1>4. askedAgain' = askedAgain
    BY <1>1 DEF askedAgain, Present
  <1> QED
    BY <1>1, <1>3, <1>4 DEF Ledger!Next, Ledger!Recover

LEMMA CrashLedger ==
    ASSUME IInv, NEW t \in Tabs, Crash(t)
    PROVE  [Ledger!Next]_(Ledger!ledger)
  <1>a. /\ store \in [Ids -> Entry] /\ retry \in [Tabs -> [Ids -> Entry]]
        /\ accepted \subseteq Ids
    BY DEF IInv, TypeOK
  <1> DEFINE gone == askedAgain \ askedAgain'
  <1>1. /\ retry' = [retry EXCEPT ![t] = Nothing]
        /\ UNCHANGED <<store, accepted, filed, thrownAway>>
    BY DEF Crash, serverVars
  <1>2. Present(Nothing) = {}
    BY AbsentType DEF Present
  <1>3. \A u \in Tabs : retry'[u] = IF u = t THEN Nothing ELSE retry[u]
    BY <1>a, <1>1
  <1>4. askedAgain' \subseteq askedAgain
    BY <1>2, <1>3 DEF askedAgain, Present
  <1>5. gone \in SUBSET Ids /\ askedAgain' = askedAgain \ gone
    BY <1>4 DEF askedAgain
  <1>6. openRows' = openRows /\ deadRows' = deadRows
    BY <1>1 DEF openRows, deadRows, Present
  <1> HIDE DEF gone
  <1>7. Ledger!Forget(gone)
    BY <1>1, <1>5, <1>6 DEF Ledger!Forget
  <1> QED
    BY <1>5, <1>7 DEF Ledger!Next

\* A request that lands is the filing of an accepted write, clear to be filed.
LEMMA LandLedger ==
    ASSUME IInv, NEW m \in wire, Land(m)
    PROVE  [Ledger!Next]_(Ledger!ledger)
  <1>1. UNCHANGED <<store, retry, accepted, thrownAway>>
    BY DEF Land, personVars
  <1>2. openRows' = openRows /\ deadRows' = deadRows /\ askedAgain' = askedAgain
    BY <1>1 DEF openRows, deadRows, askedAgain, Present
  <1>3. CASE m.id \in FiledIds
    BY <1>1, <1>2, <1>3, NoLedgerStep DEF Land
  <1>4. CASE m.id \notin FiledIds
    <2>1. m \in [id: Ids, as: People, after: Ids \cup {NoId}]
      BY DEF IInv, TypeOK, Message
    <2>2. m.id \in accepted
      BY DEF IInv, OnlyAccepted
    <2>3. /\ m.as = Owner[m.id] /\ m.after \in Done \cup {NoId}
          /\ needs[m.id] \in FiledIds \cup {NoId}
      BY <2>1 DEF IInv, RequestsAreClear, needs
    <2>4. Ledger!FiledIds = FiledIds
      BY DEF Ledger!FiledIds, FiledIds
    <2>5. filed' = filed \cup {m}
      BY <1>4 DEF Land
    <2>6. Ledger!File(m)
      BY <1>1, <1>2, <1>4, <2>2, <2>3, <2>4, <2>5 DEF Ledger!File, Done
    <2> QED
      BY <2>1, <2>6 DEF Ledger!Next
  <1> QED
    BY <1>3, <1>4

LEMMA LedgerStep ==
    IInv /\ CopiesAreQueued /\ TapsAreQueued /\ [Next]_vars => [Ledger!Next]_(Ledger!ledger)
  <1> SUFFICES ASSUME IInv, CopiesAreQueued, TapsAreQueued, [Next]_vars PROVE [Ledger!Next]_(Ledger!ledger)
    OBVIOUS
  <1>1. ASSUME UNCHANGED <<store, retry, accepted, filed, thrownAway>>
        PROVE  [Ledger!Next]_(Ledger!ledger)
    BY <1>1, NoLedgerStep DEF openRows, deadRows, Present
  <1>2. ASSUME NEW t \in Tabs, NEW force \in BOOLEAN, StartDrain(t, force)
        PROVE  [Ledger!Next]_(Ledger!ledger)
    BY <1>1, <1>2 DEF StartDrain, Snapshot, personVars, serverVars
  <1>3. ASSUME NEW t \in Tabs, DrainStep(t) PROVE [Ledger!Next]_(Ledger!ledger)
    BY <1>3, DrainLedger
  <1>4. ASSUME NEW t \in Tabs, NEW i \in Ids,
               retryFailed(t, i) \/ RetryPut(t, i) \/ discardFailed(t, i)
        PROVE  [Ledger!Next]_(Ledger!ledger)
    BY <1>4, RetryFailedLedger, RetryPutLedger, DiscardLedger
  <1>5. ASSUME NEW t \in Tabs, listFailed(t) PROVE [Ledger!Next]_(Ledger!ledger)
    BY <1>1, <1>5 DEF listFailed, serverVars
  <1>6. ASSUME NEW i \in Ids, Enqueue(i) PROVE [Ledger!Next]_(Ledger!ledger)
    BY <1>6, EnqueueLedger
  <1>7. ASSUME NEW t \in Tabs, Crash(t) PROVE [Ledger!Next]_(Ledger!ledger)
    BY <1>7, CrashLedger
  <1>8. CASE Tick \/ (\E person \in People \cup {NoOne} : SignIn(person)) \/ UNCHANGED vars
    BY <1>1, <1>8 DEF Tick, SignIn, vars, personVars, serverVars
  <1>9. ASSUME NEW i \in Ids, LateReply(i) PROVE [Ledger!Next]_(Ledger!ledger)
    BY <1>1, <1>9 DEF LateReply, personVars, serverVars
  <1>10. ASSUME NEW m \in wire, Land(m) PROVE [Ledger!Next]_(Ledger!ledger)
    BY <1>10, LandLedger
  <1>11. ASSUME NEW i \in Ids, RecoverPhoto(i) PROVE [Ledger!Next]_(Ledger!ledger)
    BY <1>11, RecoverLedger
  <1> QED
    BY <1>2, <1>3, <1>4, <1>5, <1>6, <1>7, <1>8, <1>9, <1>10, <1>11 DEF Next, PersonStep

\* For any writes, tabs, people, limits and crashes, every behaviour of the
\* queue is one of the ledger.
THEOREM LedgerKept == Spec => KeepsLedger
  <1>1. CopiesAreQueued /\ IInv /\ [Next]_vars => CopiesAreQueued'
    BY CopiesStep
  <1>3. TapsAreQueued /\ IInv /\ [Next]_vars => TapsAreQueued'
    BY TapsStep
  <1>2. IInv /\ CopiesAreQueued /\ TapsAreQueued /\ [Next]_vars => [Ledger!Next]_(Ledger!ledger)
    BY LedgerStep
  <1> QED
    BY LedgerInit, CopiesInit, TapsInit, Invariance, <1>1, <1>2, <1>3, PTL DEF Spec, KeepsLedger, Ledger!Spec

-----------------------------------------------------------------------------
(* What no step does *)

\* How one step may change a row.
RowStep(i) ==
    \/ store'[i] = store[i]
    \/ \E t \in Tabs : i \in Present(retry[t])
    \/ FailedPhoto(i)
    \/ store'[i].status = "absent"
    \/ store[i].status = "absent" /\ (i \notin accepted \/ i \in StableIds)
    \/ /\ store[i].status \in {"queued", "sending"}
       /\ store'[i].attempts >= store[i].attempts

\* A swap over a queued copy takes no attempt back.
LEMMA SwapRow ==
    ASSUME store \in [Ids -> Entry], NEW i \in Ids, NEW old \in Entry, NEW new \in Entry,
           old.status = "queued", swap(i, old, new),
           new.status = "absent" \/ new.attempts >= old.attempts
    PROVE  \A j \in Ids : RowStep(j)
  <1>1. CASE store' = store
    BY <1>1 DEF RowStep
  <1>2. CASE sameState(store[i], old) /\ store' = [store EXCEPT ![i] = new]
    <2>1. store[i].attempts = old.attempts /\ store[i].status \in {"queued", "sending"}
      BY <1>2, ReadBackStatus DEF sameState, deserializeEntry, Entry
    <2>2. store'[i] = new /\ \A j \in Ids : j # i => store'[j] = store[j]
      BY <1>2
    <2> QED
      BY <2>1, <2>2 DEF RowStep
  <1> QED
    BY <1>1, <1>2 DEF swap

\* A failure counts an attempt or leaves the count at its ceiling.
LEMMA FailureCounts ==
    ASSUME NEW i \in Ids, NEW e \in Entry, NEW class
    PROVE  applyFailure(i, e, class).attempts >= e.attempts
  BY OutboxConstants DEF applyFailure, Entry

LEMMA DrainRows ==
    ASSUME IInv, CopiesAreQueued, NEW t \in Tabs, DrainStep(t)
    PROVE  \A j \in Ids : RowStep(j)
  <1>a. /\ store \in [Ids -> Entry]
        /\ due \in [Tabs -> [Ids -> Entry]] /\ stranded \in [Tabs -> [Ids -> Entry]]
        /\ curEntry[t] \in Entry /\ now \in 0 .. Horizon
        /\ pc[t] \in {"marked", "awaiting"} => cur[t] \in Ids /\ curEntry[t].status = "queued"
    BY GoneIsDone DEF IInv, TypeOK, OnlyAccepted, CopiesAreQueued
  <1>1. \A e \in Entry : e.attempts \in Int
    BY OutboxConstants DEF Entry
  <1>2. CASE \/ NextPass(t) \/ EndDrain(t) \/ LookForPunches(t) \/ Send(t)
             \/ Cascade(t) \/ EndCascade(t)
    BY <1>2
       DEF NextPass, Snapshot, EndDrain, LookForPunches, Send, Cascade, EndCascade, RowStep
  <1>3. ASSUME NEW i \in Ids, Attempt(t, i) PROVE \A j \in Ids : RowStep(j)
    <2>1. due[t][i].status = "queued" /\ due[t][i] \in Entry
      BY <1>3, <1>a DEF Attempt, First, Present, CopiesAreQueued
    <2>2. /\ markSending(due[t][i]) \in Entry
          /\ markSending(due[t][i]).attempts >= due[t][i].attempts
      BY <1>1, <2>1 DEF markSending, Entry, Statuses
    <2> QED
      BY <1>3, <1>a, <2>1, <2>2, SwapRow DEF Attempt
  <1>4. CASE Hold(t)
    <2>1. curEntry[t].attempts >= curEntry[t].attempts
      BY <1>1, <1>a
    <2> QED
      BY <1>4, <1>a, <2>1, SwapRow DEF Hold
  <1>5. CASE Confirm(t)
    BY <1>5, <1>a, AbsentType, SwapRow DEF Confirm
  <1>6. ASSUME NEW class, recordFailure(t, class), pc[t] \in {"marked", "awaiting"}
        PROVE  \A j \in Ids : RowStep(j)
    <2> DEFINE next == applyFailure(cur[t], curEntry[t], class)
    <2>1. next \in Entry /\ next.attempts >= curEntry[t].attempts
      BY <1>6, <1>a, ApplyFailureType, FailureCounts
    <2>2. swap(cur[t], curEntry[t], next)
      BY <1>6 DEF recordFailure
    <2> HIDE DEF next
    <2> QED
      BY <1>6, <1>a, <2>1, <2>2, SwapRow
  <1>7. CASE Refuse(t) \/ \E class \in {"transport", "server"} : FailSend(t, class)
    BY <1>6, <1>7 DEF Refuse, FailSend
  <1>8. ASSUME NEW i \in Ids, Strand(t, i) PROVE \A j \in Ids : RowStep(j)
    <2> DEFINE next == [stranded[t][i] EXCEPT !.status = "failed"]
    <2>1. stranded[t][i].status = "queued" /\ stranded[t][i] \in Entry
      BY <1>8, <1>a DEF Strand, Present, CopiesAreQueued
    <2>2. next \in Entry /\ next.attempts >= stranded[t][i].attempts
      BY <1>1, <2>1 DEF Entry, Statuses
    <2>3. swap(i, stranded[t][i], next)
      BY <1>8 DEF Strand
    <2> HIDE DEF next
    <2> QED
      BY <1>a, <2>1, <2>2, <2>3, SwapRow
  <1> QED
    BY <1>2, <1>3, <1>4, <1>5, <1>7, <1>8 DEF DrainStep

LEMMA RowsStep ==
    IInv /\ CopiesAreQueued /\ [Next]_vars => \A i \in Ids : RowStep(i)
  <1> SUFFICES ASSUME IInv, CopiesAreQueued, [Next]_vars PROVE \A i \in Ids : RowStep(i)
    OBVIOUS
  <1>a. store \in [Ids -> Entry]
    BY DEF IInv, TypeOK
  <1>1. ASSUME UNCHANGED store PROVE \A i \in Ids : RowStep(i)
    BY <1>1 DEF RowStep
  <1>2. ASSUME NEW t \in Tabs, DrainStep(t) PROVE \A i \in Ids : RowStep(i)
    BY <1>2, DrainRows
  <1>3. ASSUME NEW i \in Ids, Enqueue(i) PROVE \A j \in Ids : RowStep(j)
    BY <1>3, <1>a DEF Enqueue, RowStep, Present
  <1>4. ASSUME NEW t \in Tabs, NEW i \in Ids, RetryPut(t, i) PROVE \A j \in Ids : RowStep(j)
    BY <1>4, <1>a DEF RetryPut, RowStep
  <1>5. ASSUME NEW t \in Tabs, NEW i \in Ids, discardFailed(t, i) PROVE \A j \in Ids : RowStep(j)
    BY <1>5, <1>a, AbsentType DEF discardFailed, RowStep
  <1>6. ASSUME NEW t, NEW i, NEW person, NEW m, NEW force,
               \/ StartDrain(t, force) \/ Crash(t) \/ Tick \/ SignIn(person) \/ listFailed(t)
               \/ retryFailed(t, i) \/ Land(m) \/ LateReply(i) \/ UNCHANGED vars
        PROVE  \A j \in Ids : RowStep(j)
    BY <1>1, <1>6
       DEF StartDrain, Snapshot, Crash, Tick, SignIn, listFailed, retryFailed, Land, LateReply, vars
  <1>7. ASSUME NEW i \in Ids, RecoverPhoto(i) PROVE \A j \in Ids : RowStep(j)
    BY <1>7, <1>a DEF RecoverPhoto, FailedPhoto, RowStep
  <1> QED
    BY <1>2, <1>3, <1>4, <1>5, <1>6, <1>7 DEF Next, PersonStep

\* What was given up, sent or thrown away is queued again only by a person, by a
\* caller handing its own id over, or, a failed photo, by the phone.
THEOREM RevivedByAPerson == Spec => OnlyAPersonRevives
  <1>1. IInv /\ CopiesAreQueued /\ [Next]_vars =>
          [\A i \in Ids :
             /\ store[i].status \in {"failed", "absent"}
             /\ store'[i].status \in {"queued", "sending"}
             => \/ i \notin accepted \/ i \in StableIds \/ FailedPhoto(i)
                \/ \E t \in Tabs : i \in Present(retry[t])
          ]_vars
    BY RowsStep DEF RowStep
  <1>2. CopiesAreQueued /\ IInv /\ [Next]_vars => CopiesAreQueued'
    BY CopiesStep
  <1> QED
    BY CopiesInit, Invariance, <1>1, <1>2, PTL DEF Spec, OnlyAPersonRevives

\* No step takes an attempt back from a row, but a tap, or a recovery of a
\* failed photo, that starts it over.
THEOREM AttemptsKept == Spec => AttemptsCount
  <1>1. IInv /\ CopiesAreQueued /\ [Next]_vars =>
          [\A i \in Ids :
             /\ {store[i].status, store'[i].status} \cap {"absent"} = {}
             /\ store'[i].attempts < store[i].attempts
             => FailedPhoto(i) \/ \E t \in Tabs : i \in Present(retry[t])
          ]_vars
    <2> SUFFICES ASSUME IInv, CopiesAreQueued, [Next]_vars, NEW i \in Ids,
                        store[i].status # "absent", store'[i].status # "absent",
                        store'[i].attempts < store[i].attempts
                 PROVE  FailedPhoto(i) \/ \E t \in Tabs : i \in Present(retry[t])
      OBVIOUS
    <2>1. store[i].attempts \in Int /\ store'[i].attempts \in Int
      BY StepInv, OutboxConstants DEF IInv, TypeOK, Entry
    <2> QED
      BY <2>1, RowsStep DEF RowStep
  <1>2. CopiesAreQueued /\ IInv /\ [Next]_vars => CopiesAreQueued'
    BY CopiesStep
  <1> QED
    BY CopiesInit, Invariance, <1>1, <1>2, PTL DEF Spec, AttemptsCount

-----------------------------------------------------------------------------
(* What a cascade reaches.  waitingOn takes as many rounds as there are    *)
(* writes; that these are enough, and no more than the chains.             *)

WaitingRows(rows) == {j \in Present(rows) : rows[j].status # "failed"}
Round(rows, S) == S \cup {j \in WaitingRows(rows) : rows[j].dependsOn \in S}

\* The rounds up to the nth, and all of them.
IsReach(g, rows, i, D) == g = [n \in D |-> IF n = 0 THEN {i} ELSE Round(rows, g[n - 1])]

LEMMA LeastExists ==
    ASSUME NEW T, T \subseteq Nat, T # {}
    PROVE  \E m \in T : \A k \in T : m <= k
  <1> DEFINE less == OpToRel(<, Nat)
  <1>1. IsWellFoundedOn(less, Nat)
    BY NatLessThanWellFounded
  <1>2. \A k, m \in Nat : <<k, m>> \in less <=> k < m
    BY DEF OpToRel
  <1> HIDE DEF less
  <1>3. PICK m \in T : \A k \in T : ~(<<k, m>> \in less)
    BY <1>1, WFMin
  <1>4. ASSUME NEW k \in T PROVE m <= k
    <2>1. k \in Nat /\ m \in Nat /\ ~(<<k, m>> \in less)
      BY <1>3
    <2> QED
      BY <1>2, <2>1
  <1> QED
    BY <1>4

LEMMA RoundsExist ==
    ASSUME NEW rows, NEW i, NEW n \in Nat
    PROVE  \E g : IsReach(g, rows, i, 0..n)
  <1> DEFINE T == {k \in Nat : ~ \E g : IsReach(g, rows, i, 0..k)}
  <1> SUFFICES ASSUME T # {} PROVE FALSE
    OBVIOUS
  <1>1. PICK m \in T : \A k \in T : m <= k
    BY LeastExists
  <1>2. m # 0
    <2>1. IsReach([k \in 0..0 |-> {i}], rows, i, 0..0)
      BY DEF IsReach
    <2> QED
      BY <2>1
  <1>3. m - 1 \in Nat /\ m - 1 \notin T
    BY <1>1, <1>2
  <1>4. PICK f : IsReach(f, rows, i, 0..(m - 1))
    BY <1>3
  <1> DEFINE g == [k \in 0..m |-> IF k < m THEN f[k] ELSE Round(rows, f[m - 1])]
  <1>5. ASSUME NEW k \in 0..m
        PROVE  g[k] = IF k = 0 THEN {i} ELSE Round(rows, g[k - 1])
    <2>1. CASE k = 0
      BY <1>2, <1>4, <2>1 DEF IsReach
    <2>2. CASE k # 0 /\ k < m
      <3>1. k \in 0..(m - 1) /\ k - 1 \in 0..m /\ k - 1 < m
        BY <2>2
      <3>2. f[k] = Round(rows, f[k - 1])
        BY <1>4, <2>2, <3>1 DEF IsReach
      <3> QED
        BY <2>2, <3>1, <3>2
    <2>3. CASE k = m
      BY <1>2, <2>3
    <2> QED
      BY <2>1, <2>2, <2>3
  <1>6. IsReach(g, rows, i, 0..m)
    BY <1>5 DEF IsReach
  <1> QED
    BY <1>6

\* Two runs of the rounds agree as far as both go.
LEMMA RoundsAgree ==
    ASSUME NEW rows, NEW i, NEW n \in Nat, NEW m \in Nat, NEW g, NEW h,
           IsReach(g, rows, i, 0..n), IsReach(h, rows, i, 0..m), n <= m
    PROVE  \A k \in 0..n : g[k] = h[k]
  <1> DEFINE T == {k \in 0..n : g[k] # h[k]}
  <1> SUFFICES ASSUME T # {} PROVE FALSE
    OBVIOUS
  <1>0. T \subseteq Nat
    OBVIOUS
  <1>1. PICK k \in T : \A j \in T : k <= j
    BY <1>0, LeastExists
  <1>2. k # 0
    BY DEF IsReach
  <1>3. k - 1 \in 0..n /\ k - 1 \notin T /\ k \in 0..m
    BY <1>1, <1>2
  <1>4. g[k] = Round(rows, g[k - 1]) /\ h[k] = Round(rows, h[k - 1])
    BY <1>2, <1>3 DEF IsReach
  <1> QED
    BY <1>1, <1>3, <1>4

LEMMA ReachExists ==
    ASSUME NEW rows, NEW i
    PROVE  \E g : IsReach(g, rows, i, Nat)
  <1> DEFINE Upto(n) == CHOOSE g : IsReach(g, rows, i, 0..n)
             G == [n \in Nat |-> Upto(n)[n]]
  <1>1. \A n \in Nat : IsReach(Upto(n), rows, i, 0..n)
    BY RoundsExist
  <1> HIDE DEF Upto
  <1>2. G[0] = {i}
    BY <1>1 DEF IsReach
  <1>3. ASSUME NEW n \in Nat, n # 0 PROVE G[n] = Round(rows, G[n - 1])
    <2>1. n - 1 \in Nat /\ n - 1 <= n
      BY <1>3
    <2>2. Upto(n)[n] = Round(rows, Upto(n)[n - 1])
      BY <1>1, <1>3 DEF IsReach
    <2>3. Upto(n - 1)[n - 1] = Upto(n)[n - 1]
      BY <1>1, <2>1, RoundsAgree
    <2> QED
      BY <2>1, <2>2, <2>3
  <1>4. \A n \in Nat : G[n] = IF n = 0 THEN {i} ELSE Round(rows, G[n - 1])
    BY <1>2, <1>3
  <1>5. IsReach(G, rows, i, Nat)
    BY <1>4 DEF IsReach
  <1> QED
    BY <1>5

\* What waitingOn returns is the last of its rounds.
LEMMA CascadeRounds ==
    ASSUME NEW rows, NEW i
    PROVE  \E g : /\ IsReach(g, rows, i, Nat)
                  /\ waitingOn(rows, i) = {j \in WaitingRows(rows) \ {i} : j \in g[Cardinality(Ids)]}
  <1> DEFINE G == CHOOSE g : IsReach(g, rows, i, Nat)
  <1>1. waitingOn(rows, i) = {j \in WaitingRows(rows) \ {i} : j \in G[Cardinality(Ids)]}
    BY Zenon DEF waitingOn, IsReach, Round, WaitingRows
  <1>2. IsReach(G, rows, i, Nat)
    BY ReachExists
  <1> QED
    BY <1>1, <1>2

\* A round that adds nothing is the last that could.
LEMMA RoundsStop ==
    ASSUME NEW rows, NEW i, NEW g, IsReach(g, rows, i, Nat),
           NEW k \in Nat, Round(rows, g[k]) = g[k], NEW n \in Nat, k <= n
    PROVE  g[n] = g[k]
  <1> DEFINE T == {m \in Nat : k <= m /\ g[m] # g[k]}
  <1> SUFFICES ASSUME T # {} PROVE FALSE
    OBVIOUS
  <1>1. PICK m \in T : \A j \in T : m <= j
    BY LeastExists
  <1>2. m - 1 \in Nat /\ k <= m - 1 /\ m - 1 \notin T /\ m # 0
    BY <1>1
  <1>3. g[m] = Round(rows, g[m - 1])
    BY <1>2 DEF IsReach
  <1> QED
    BY <1>1, <1>2, <1>3

\* As long as rounds add something, there are more writes than rounds.
LEMMA RoundsGrow ==
    ASSUME NEW rows, NEW i \in Ids, NEW g, IsReach(g, rows, i, Nat), NEW n \in Nat,
           \A k \in 0..n : Round(rows, g[k]) # g[k]
    PROVE  IsFiniteSet(g[n]) /\ Cardinality(g[n]) > n
  <1> DEFINE Large(k) == g[k] \subseteq Ids /\ Cardinality(g[k]) > k
             T == {k \in 0..n : ~Large(k)}
  <1>1. ASSUME T # {} PROVE FALSE
    <2>0. T \subseteq Nat
      OBVIOUS
    <2>1. PICK k \in T : \A j \in T : k <= j
      BY <1>1, <2>0, LeastExists
    <2>2. k # 0
      <3>1. g[0] = {i}
        BY DEF IsReach
      <3> QED
        BY <3>1, FS_Singleton
    <2>3. k - 1 \in 0..n /\ k - 1 \in Nat /\ Large(k - 1)
      BY <2>1, <2>2
    <2>4. g[k] = Round(rows, g[k - 1])
      BY <2>2 DEF IsReach
    <2>5. g[k - 1] \subseteq g[k] /\ g[k] # g[k - 1] /\ g[k] \subseteq Ids
      BY <2>3, <2>4 DEF Round, WaitingRows, Present
    <2>6. IsFiniteSet(g[k]) /\ IsFiniteSet(g[k - 1])
      BY <2>3, <2>5, OutboxConstants, FS_Subset
    <2>7. Cardinality(g[k - 1]) \in Nat /\ Cardinality(g[k]) \in Nat
      BY <2>6, FS_CardinalityType
    <2>8. Cardinality(g[k - 1]) <= Cardinality(g[k]) /\ Cardinality(g[k]) # Cardinality(g[k - 1])
      BY <2>5, <2>6, FS_Subset
    <2> QED
      BY <2>1, <2>3, <2>5, <2>7, <2>8
  <1>2. Large(n)
    BY <1>1
  <1> QED
    BY <1>2, OutboxConstants, FS_Subset

\* Every round stays inside a set that holds the root and, with a write, what
\* waits on it.
LEMMA RoundsInside ==
    ASSUME NEW rows, NEW i, NEW g, IsReach(g, rows, i, Nat), NEW S, i \in S,
           \A j \in WaitingRows(rows) : rows[j].dependsOn \in S => j \in S, NEW n \in Nat
    PROVE  g[n] \subseteq S
  <1> DEFINE T == {k \in Nat : ~(g[k] \subseteq S)}
  <1> SUFFICES ASSUME T # {} PROVE FALSE
    OBVIOUS
  <1>1. PICK k \in T : \A j \in T : k <= j
    BY LeastExists
  <1>2. k # 0
    BY DEF IsReach
  <1>3. k - 1 \in Nat /\ k - 1 \notin T
    BY <1>1, <1>2
  <1>4. g[k] = Round(rows, g[k - 1])
    BY <1>2 DEF IsReach
  <1> QED
    BY <1>1, <1>3, <1>4 DEF Round

\* After as many rounds as there are writes, another adds nothing.
LEMMA RoundsSuffice ==
    ASSUME NEW rows, NEW i \in Ids, NEW g, IsReach(g, rows, i, Nat)
    PROVE  Round(rows, g[Cardinality(Ids)]) = g[Cardinality(Ids)]
  <1> DEFINE n == Cardinality(Ids)
  <1>1. n \in Nat
    BY OutboxConstants, FS_CardinalityType
  <1>2. ASSUME \A k \in 0..n : Round(rows, g[k]) # g[k] PROVE FALSE
    <2>1. Cardinality(g[n]) > n /\ IsFiniteSet(g[n])
      BY <1>1, <1>2, RoundsGrow
    <2>2. g[n] \subseteq Ids
      BY <1>1, RoundsInside DEF WaitingRows, Present
    <2> QED
      BY <1>1, <2>1, <2>2, OutboxConstants, FS_Subset, FS_CardinalityType
  <1>3. PICK k \in 0..n : Round(rows, g[k]) = g[k]
    BY <1>2
  <1>4. g[n] = g[k]
    BY <1>1, <1>3, RoundsStop
  <1> QED
    BY <1>3, <1>4

\* THE CASCADE TAKES THE WHOLE CHAIN (outbox-core.ts:493): whatever rows there
\* are and however long a chain, or a loop, of them, what waits on the root or
\* on something the cascade takes is taken too; and nothing is taken that no
\* chain leads from to the root: it is the least such set.
THEOREM CascadeTakesTheChain ==
    ASSUME NEW rows, NEW i \in Ids
    PROVE  /\ \A j \in Present(rows) \ {i} :
                 /\ rows[j].status # "failed"
                 /\ rows[j].dependsOn \in waitingOn(rows, i) \cup {i}
                 => j \in waitingOn(rows, i)
           /\ \A S : (/\ i \in S
                      /\ \A j \in Present(rows) :
                            rows[j].status # "failed" /\ rows[j].dependsOn \in S => j \in S)
                     => waitingOn(rows, i) \subseteq S
  <1> DEFINE n == Cardinality(Ids)
  <1>1. n \in Nat
    BY OutboxConstants, FS_CardinalityType
  <1>2. PICK g : /\ IsReach(g, rows, i, Nat)
                 /\ waitingOn(rows, i) = {j \in WaitingRows(rows) \ {i} : j \in g[n]}
    BY CascadeRounds
  <1> HIDE DEF n
  <1>3. Round(rows, g[n]) = g[n]
    BY <1>2, RoundsSuffice DEF n
  <1>4. i \in g[n]
    <2>1. \A k \in Nat : k # 0 => g[k - 1] \subseteq g[k]
      BY <1>2 DEF IsReach, Round
    <2> DEFINE T == {k \in Nat : i \notin g[k]}
    <2>2. ASSUME T # {} PROVE FALSE
      <3>1. PICK k \in T : \A j \in T : k <= j
        BY <2>2, LeastExists
      <3>2. k # 0
        BY <1>2 DEF IsReach
      <3>3. k - 1 \in Nat /\ k - 1 \notin T
        BY <3>1, <3>2
      <3> QED
        BY <2>1, <3>1, <3>2, <3>3
    <2> QED
      BY <1>1, <2>2
  <1>5. ASSUME NEW j \in Present(rows) \ {i}, rows[j].status # "failed",
               rows[j].dependsOn \in waitingOn(rows, i) \cup {i}
        PROVE  j \in waitingOn(rows, i)
    <2>1. j \in WaitingRows(rows) \ {i}
      BY <1>5 DEF WaitingRows
    <2>2. rows[j].dependsOn \in g[n]
      BY <1>2, <1>4, <1>5
    <2>3. j \in g[n]
      BY <1>3, <2>1, <2>2 DEF Round
    <2> QED
      BY <1>2, <2>1, <2>3
  <1>6. ASSUME NEW S, i \in S,
               \A j \in Present(rows) : rows[j].status # "failed" /\ rows[j].dependsOn \in S => j \in S
        PROVE  waitingOn(rows, i) \subseteq S
    <2>1. g[n] \subseteq S
      BY <1>1, <1>2, <1>6, RoundsInside DEF WaitingRows
    <2> QED
      BY <1>2, <2>1
  <1> QED
    BY <1>5, <1>6

=============================================================================
