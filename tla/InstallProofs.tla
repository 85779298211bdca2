---------------------------- MODULE InstallProofs ----------------------------
(***************************************************************************)
(* What holds of InstallOutbox for every set of installs, tabs and people. *)
(* Tabs write each other's records over, so no claim about the one row in  *)
(* the store is inductive.  What every copy of a record keeps, wherever it *)
(* is held, is that the step it names was reached: the server holds a      *)
(* filing once the step is past queued, and the write queue holds the      *)
(* photos once it is media_done.  These facts are never undone.            *)
(***************************************************************************)
EXTENDS InstallOutbox, TLAPS

(* The inductive invariant *)

\* The step of this copy of install i was reached.
Reached(i, r) ==
    /\ i \in submitted
    /\ r.step # "queued" => filings[i] > 0
    /\ r.step = "media_done" => i \in handed

\* A pending copy has tries left.
Earned(i, r) ==
    r.status # "absent" =>
        /\ Reached(i, r)
        /\ r.status = "pending" => r.attempts < MAX_ATTEMPTS

CopiesEarned ==
    \A i \in Installs :
        /\ Earned(i, rows[i])
        /\ \A t \in Tabs : Earned(i, todo[t][i]) /\ Earned(i, revived[t][i])

\* A pass takes pending rows only.
DueIsPending ==
    \A t \in Tabs, i \in Installs : todo[t][i].status # "failed"

\* The step a stage begins from.
StepAt == [rpc |-> "queued", answered |-> "queued", points |-> "rpc_done",
           media |-> "points_done", handed |-> "points_done", drop |-> "media_done"]

CurrentEarned ==
    \A t \in Tabs :
        pc[t] \in DOMAIN StepAt =>
            /\ cur[t] \in Installs
            /\ curRec[t].status = "pending" /\ curRec[t].step = StepAt[pc[t]]
            /\ Earned(cur[t], curRec[t])
            /\ pc[t] = "answered" => filings[cur[t]] > 0
            /\ pc[t] = "handed" => cur[t] \in handed

\* A filing is its submitter's, and a tab that waits for its answer is at it.
WireKnown ==
    \A m \in wire :
        /\ m.as = Owner[m.id]
        /\ m.to \in Tabs => pc[m.to] = "rpc" /\ cur[m.to] = m.id

IInv ==
    /\ TypeOK
    /\ InstallKept
    /\ StagesInOrder
    /\ FiledAsSubmitter
    /\ PaidOnce
    /\ CopiesEarned
    /\ DueIsPending
    /\ CurrentEarned
    /\ WireKnown

-----------------------------------------------------------------------------
(* Records *)

\* The empty row is a record.
LEMMA AbsentIsRecord ==
    /\ Absent \in Record
    /\ Absent.status = "absent"
    /\ Nothing \in [Installs -> Record]
    /\ \A i \in Installs : Nothing[i] = Absent
  BY InstallConstants DEF Absent, Record, Steps, Nothing

\* A failure keeps the step; a record with a try left, that failed, is pending
\* with a try left or given up.
LEMMA FailureMeans ==
    ASSUME NEW r \in Record, r.status = "pending", r.attempts < MAX_ATTEMPTS,
           NEW permanent \in BOOLEAN
    PROVE  LET f == applyInstallFailure(r, permanent)
           IN  /\ f \in Record /\ f.step = r.step
               /\ f.status \in {"pending", "failed"}
               /\ f.status = "pending" => f.attempts < MAX_ATTEMPTS
  <1> DEFINE count == r.attempts + 1
             givenUp == permanent \/ count >= MAX_ATTEMPTS
  <1>1. r.attempts \in 0 .. MAX_ATTEMPTS /\ count \in 0 .. MAX_ATTEMPTS
    BY InstallConstants DEF Record
  <1>2. applyInstallFailure(r, permanent)
          = [r EXCEPT !.attempts = count,
                      !.status = IF givenUp THEN "failed" ELSE "pending",
                      !.wait = ~givenUp]
    BY DEF applyInstallFailure
  <1>3. ~givenUp => count < MAX_ATTEMPTS
    BY <1>1, InstallConstants
  <1>4. givenUp \in BOOLEAN
    OBVIOUS
  <1> HIDE DEF count, givenUp
  <1> QED
    BY <1>1, <1>2, <1>3, <1>4 DEF Record

\* A tab that hears no answer: its filings are on their way as before.
LEMMA UnheardMeans ==
    ASSUME wire \subseteq Filing, NEW t \in Tabs
    PROVE  /\ Unheard(t) \subseteq Filing
           /\ \A m \in Unheard(t) :
                /\ m.to # t
                /\ \E n \in wire : /\ m.id = n.id /\ m.as = n.as
                                   /\ m.to # NoTab => m.to = n.to
  <1>1. ASSUME NEW n \in wire, n.to = t
        PROVE  LET m == [n EXCEPT !.to = NoTab]
               IN  m \in Filing /\ m.id = n.id /\ m.as = n.as /\ m.to = NoTab
    BY DEF Filing
  <1>2. NoTab # t
    BY InstallConstants
  <1> QED
    BY <1>1, <1>2 DEF Unheard, Filing

-----------------------------------------------------------------------------
(* The initial state *)

LEMMA InitInv == Init => IInv
  <1> SUFFICES ASSUME Init PROVE IInv
    OBVIOUS
  <1>1. TypeOK
    BY AbsentIsRecord, InstallConstants DEF Init, TypeOK
  <1>2. CopiesEarned /\ DueIsPending
    BY AbsentIsRecord DEF Init, CopiesEarned, DueIsPending, Earned
  <1>3. CurrentEarned /\ WireKnown
    BY DEF Init, CurrentEarned, StepAt, WireKnown
  <1>4. InstallKept /\ StagesInOrder /\ FiledAsSubmitter /\ PaidOnce
    BY DEF Init, InstallKept, StagesInOrder, FiledAsSubmitter, PaidOnce
  <1> QED
    BY <1>1, <1>2, <1>3, <1>4 DEF IInv

-----------------------------------------------------------------------------
(* The steps of a pass *)

\* A pass takes the rows as they are.
LEMMA BeginPassInv ==
    ASSUME IInv, NEW t \in Tabs, NEW own \in BOOLEAN, BeginPass(t, own)
    PROVE  IInv'
  <1> DEFINE due == [i \in Installs |-> IF isInstallDue(rows[i]) THEN rows[i] ELSE Absent]
  <1>1. /\ UNCHANGED <<rows, signedIn, cur, curRec, revived, listed, sheet,
                       unclaimedRefusals, serverVars, handed, events, historyVars>>
        /\ pc[t] = "idle" /\ pc' = [pc EXCEPT ![t] = "loop"]
        /\ todo' = [todo EXCEPT ![t] = due]
        /\ told' \in {told, [told EXCEPT ![t] = "inPass"]}
    BY DEF BeginPass
  <1>2. /\ due \in [Installs -> Record]
        /\ \A i \in Installs : /\ due[i] \in {rows[i], Absent}
                               /\ due[i].status # "failed"
    BY AbsentIsRecord DEF IInv, TypeOK, isInstallDue
  <1> HIDE DEF due
  <1>3. TypeOK'
    BY <1>1, <1>2 DEF IInv, TypeOK, serverVars, pointsVars, historyVars
  <1>4. CopiesEarned' /\ DueIsPending'
    BY <1>1, <1>2, AbsentIsRecord
       DEF IInv, TypeOK, CopiesEarned, DueIsPending, Earned, Reached, serverVars, pointsVars,
           historyVars
  <1>5. CurrentEarned'
    BY <1>1 DEF IInv, TypeOK, CurrentEarned, StepAt, Earned, Reached, serverVars, pointsVars,
                historyVars
  <1>6. WireKnown'
    BY <1>1 DEF IInv, TypeOK, WireKnown, serverVars, pointsVars
  <1>7. (InstallKept /\ StagesInOrder /\ FiledAsSubmitter /\ PaidOnce)'
    BY <1>1 DEF IInv, InstallKept, StagesInOrder, FiledAsSubmitter, PaidOnce, Present,
                serverVars, pointsVars, historyVars
  <1> QED
    BY <1>3, <1>4, <1>5, <1>6, <1>7 DEF IInv

\* A record skipped is one copy fewer.
LEMMA SkipInv ==
    ASSUME IInv, NEW t \in Tabs, NEW i \in Installs, Skip(t, i)
    PROVE  IInv'
  <1>1. /\ UNCHANGED <<rows, signedIn, pc, cur, curRec, screenVars, serverVars, handed,
                       events, historyVars>>
        /\ todo' = [todo EXCEPT ![t][i] = Absent]
    BY DEF Skip
  <1>2. TypeOK'
    BY <1>1, AbsentIsRecord DEF IInv, TypeOK, screenVars, serverVars, pointsVars, historyVars
  <1>3. CopiesEarned' /\ DueIsPending'
    BY <1>1, AbsentIsRecord
       DEF IInv, TypeOK, CopiesEarned, DueIsPending, Earned, Reached, screenVars, serverVars,
           pointsVars, historyVars
  <1>4. CurrentEarned'
    BY <1>1 DEF IInv, CurrentEarned, Earned, Reached, serverVars, pointsVars, historyVars
  <1>5. WireKnown'
    BY <1>1 DEF IInv, WireKnown, serverVars, pointsVars
  <1>6. (InstallKept /\ StagesInOrder /\ FiledAsSubmitter /\ PaidOnce)'
    BY <1>1 DEF IInv, InstallKept, StagesInOrder, FiledAsSubmitter, PaidOnce, Present,
                serverVars, pointsVars, historyVars
  <1> QED
    BY <1>2, <1>3, <1>4, <1>5, <1>6 DEF IInv

\* A record taken is at the stage its step says, and its filing goes out as
\* its submitter.
LEMMA TakeInv ==
    ASSUME IInv, NEW t \in Tabs, NEW i \in Installs, Take(t, i)
    PROVE  IInv'
  <1> DEFINE r == todo[t][i]
             m == [id |-> i, as |-> signedIn, to |-> t]
  <1>1. /\ UNCHANGED <<rows, signedIn, screenVars, filings, filedAs, paid, paidFor,
                       sentBack, handed, events, historyVars>>
        /\ todo' = [todo EXCEPT ![t][i] = Absent]
        /\ pc[t] = "loop" /\ pc' = [pc EXCEPT ![t] = stageToAttempt[r.step]]
        /\ cur' = [cur EXCEPT ![t] = i] /\ curRec' = [curRec EXCEPT ![t] = r]
        /\ wire' \in {wire, wire \cup {m}} /\ (r.step # "queued" => wire' = wire)
        /\ asked' \in {asked, asked \cup {i}}
    BY DEF Take
  <1>2. /\ r \in Record /\ r.status # "absent" /\ Earned(i, r)
        /\ signedIn = Owner[i] /\ m \in Filing
    BY DEF Take, Present, installOwnership, IInv, TypeOK, CopiesEarned, Filing
  <1>3. /\ r.step \in {"queued", "rpc_done", "points_done"}
        /\ stageToAttempt[r.step] \in {"rpc", "points", "media"}
        /\ StepAt[stageToAttempt[r.step]] = r.step
        /\ r.step = "queued" => stageToAttempt[r.step] = "rpc"
    BY DEF Take, stageToAttempt, StepAt
  <1>4. r.status = "pending"
    BY <1>2 DEF IInv, DueIsPending, Record
  <1> HIDE DEF r, m
  <1>5. TypeOK'
    BY <1>1, <1>2, <1>3, AbsentIsRecord DEF IInv, TypeOK, screenVars, historyVars
  <1>6. CopiesEarned' /\ DueIsPending'
    BY <1>1, AbsentIsRecord
       DEF IInv, TypeOK, CopiesEarned, DueIsPending, Earned, Reached, screenVars, historyVars
  <1>7. CurrentEarned'
    BY <1>1, <1>2, <1>3, <1>4
       DEF IInv, TypeOK, CurrentEarned, StepAt, Earned, Reached, historyVars
  <1>8. WireKnown'
    <2>1. ASSUME NEW n \in wire, n.to \in Tabs
          PROVE  n.to # t
      BY <1>1, <2>1 DEF IInv, WireKnown
    <2>2. m.id = i /\ m.as = signedIn /\ m.to = t
      BY DEF m
    <2> QED
      BY <1>1, <1>2, <1>3, <2>1, <2>2 DEF IInv, TypeOK, WireKnown
  <1>9. (InstallKept /\ StagesInOrder /\ FiledAsSubmitter /\ PaidOnce)'
    BY <1>1 DEF IInv, InstallKept, StagesInOrder, FiledAsSubmitter, PaidOnce, Present,
                historyVars
  <1> QED
    BY <1>5, <1>6, <1>7, <1>8, <1>9 DEF IInv

\* A stage done: the row and the pass's copy are at the next step.
LEMMA AdvanceMeans ==
    ASSUME IInv, NEW t \in Tabs, pc[t] \in {"answered", "points", "handed"}, advance(t)
    PROVE  \E r \in Record :
             /\ r.status = "pending" /\ r.step = nextInstallStep[StepAt[pc[t]]]
             /\ r.attempts = curRec[t].attempts /\ r.attempts < MAX_ATTEMPTS
             /\ cur[t] \in submitted /\ filings[cur[t]] > 0
             /\ pc[t] = "handed" => cur[t] \in handed
             /\ rows' = [rows EXCEPT ![cur[t]] = r]
             /\ curRec' = [curRec EXCEPT ![t] = r]
  <1> DEFINE r == [curRec[t] EXCEPT !.step = nextInstallStep[@]]
  <1>1. /\ cur[t] \in Installs /\ curRec[t] \in Record
        /\ curRec[t].status = "pending" /\ curRec[t].step = StepAt[pc[t]]
        /\ Earned(cur[t], curRec[t])
        /\ pc[t] = "answered" => filings[cur[t]] > 0
        /\ pc[t] = "handed" => cur[t] \in handed
    BY DEF IInv, TypeOK, CurrentEarned, StepAt
  <1>2. nextInstallStep[StepAt[pc[t]]] \in Steps
    BY DEF nextInstallStep, StepAt, Steps
  <1>3. /\ r \in Record /\ r.status = "pending" /\ r.attempts = curRec[t].attempts
        /\ r.step = nextInstallStep[StepAt[pc[t]]]
    BY <1>1, <1>2 DEF Record
  <1>4. /\ cur[t] \in submitted /\ filings[cur[t]] > 0
        /\ curRec[t].attempts < MAX_ATTEMPTS
    BY <1>1 DEF Earned, Reached, StepAt
  <1>5. rows' = [rows EXCEPT ![cur[t]] = r] /\ curRec' = [curRec EXCEPT ![t] = r]
    BY DEF advance, putRecord
  <1> QED
    BY <1>1, <1>3, <1>4, <1>5

\* The three stages that end in a put.
LEMMA StageDoneInv ==
    ASSUME IInv, NEW t \in Tabs, RpcDone(t) \/ PointsDone(t) \/ MediaDone(t)
    PROVE  IInv'
  <1>1. /\ UNCHANGED <<signedIn, todo, cur, screenVars, wire, filings, filedAs, paid,
                       paidFor, sentBack, handed, events, historyVars>>
        /\ asked' \in {asked, asked \cup {cur[t]}}
        /\ advance(t)
        /\ \/ pc[t] = "answered" /\ pc' = [pc EXCEPT ![t] = "points"]
           \/ pc[t] = "points" /\ pc' = [pc EXCEPT ![t] = "media"]
           \/ pc[t] = "handed" /\ pc' = [pc EXCEPT ![t] = "drop"]
    BY DEF RpcDone, PointsDone, MediaDone, serverVars, pointsVars
  <1>2. PICK r \in Record :
             /\ r.status = "pending" /\ r.step = nextInstallStep[StepAt[pc[t]]]
             /\ r.attempts = curRec[t].attempts /\ r.attempts < MAX_ATTEMPTS
             /\ cur[t] \in submitted /\ filings[cur[t]] > 0
             /\ pc[t] = "handed" => cur[t] \in handed
             /\ rows' = [rows EXCEPT ![cur[t]] = r]
             /\ curRec' = [curRec EXCEPT ![t] = r]
    BY <1>1, AdvanceMeans
  <1>3. /\ pc'[t] \in {"points", "media", "drop"} /\ r.step = StepAt[pc'[t]]
        /\ r.step = "media_done" => cur[t] \in handed
        /\ r.step # "queued" /\ cur[t] \in Installs
    BY <1>1, <1>2 DEF nextInstallStep, StepAt, IInv, TypeOK, CurrentEarned
  <1>4. TypeOK'
    BY <1>1, <1>2, <1>3 DEF IInv, TypeOK, screenVars, historyVars
  <1>5. CopiesEarned' /\ DueIsPending'
    BY <1>1, <1>2, <1>3
       DEF IInv, TypeOK, CopiesEarned, DueIsPending, Earned, Reached, screenVars, historyVars
  <1>6. CurrentEarned'
    BY <1>1, <1>2, <1>3
       DEF IInv, TypeOK, CurrentEarned, StepAt, Earned, Reached, historyVars
  <1>7. WireKnown'
    BY <1>1 DEF IInv, TypeOK, WireKnown
  <1>8. InstallKept'
    BY <1>1, <1>2, <1>3 DEF IInv, TypeOK, InstallKept, Present, historyVars
  <1>9. (StagesInOrder /\ FiledAsSubmitter /\ PaidOnce)'
    BY <1>1 DEF IInv, StagesInOrder, FiledAsSubmitter, PaidOnce
  <1> QED
    BY <1>4, <1>5, <1>6, <1>7, <1>8, <1>9 DEF IInv

\* What a pass in a stage knows of its record.
LEMMA CurrentMeans ==
    ASSUME IInv, NEW t \in Tabs, pc[t] \in DOMAIN StepAt
    PROVE  /\ cur[t] \in Installs /\ curRec[t] \in Record
           /\ curRec[t].status = "pending" /\ curRec[t].attempts < MAX_ATTEMPTS
           /\ curRec[t].step = StepAt[pc[t]]
           /\ Reached(cur[t], curRec[t])
  <1>1. /\ cur[t] \in Installs /\ curRec[t] \in Record
        /\ curRec[t].status = "pending" /\ curRec[t].step = StepAt[pc[t]]
        /\ Earned(cur[t], curRec[t])
    BY DEF IInv, TypeOK, CurrentEarned
  <1> QED
    BY <1>1 DEF Earned

\* Photos are handed over only by a pass whose record is past its filing.
LEMMA HandOverInv ==
    ASSUME IInv, NEW t \in Tabs, HandOver(t)
    PROVE  IInv'
  <1>1. /\ UNCHANGED <<rows, signedIn, todo, cur, curRec, screenVars, serverVars, events,
                       historyVars>>
        /\ handed' = handed \cup {cur[t]}
        /\ pc[t] = "media" /\ pc' = [pc EXCEPT ![t] = "handed"]
    BY DEF HandOver
  <1>2. cur[t] \in Installs /\ filings[cur[t]] > 0
    BY <1>1, CurrentMeans DEF StepAt, Reached
  <1>3. TypeOK'
    BY <1>1, <1>2 DEF IInv, TypeOK, screenVars, serverVars, pointsVars, historyVars
  <1>4. CopiesEarned' /\ DueIsPending'
    BY <1>1 DEF IInv, CopiesEarned, DueIsPending, Earned, Reached, screenVars, serverVars,
                pointsVars, historyVars
  <1>5. CurrentEarned'
    BY <1>1, <1>2
       DEF IInv, TypeOK, CurrentEarned, StepAt, Earned, Reached, serverVars, pointsVars,
           historyVars
  <1>6. WireKnown'
    BY <1>1 DEF IInv, TypeOK, WireKnown, serverVars, pointsVars
  <1>7. (InstallKept /\ StagesInOrder /\ FiledAsSubmitter /\ PaidOnce)'
    BY <1>1, <1>2 DEF IInv, InstallKept, StagesInOrder, FiledAsSubmitter, PaidOnce, Present,
                      serverVars, pointsVars, historyVars
  <1> QED
    BY <1>3, <1>4, <1>5, <1>6, <1>7 DEF IInv

\* The record is dropped once filed and handed over.
LEMMA DropInv ==
    ASSUME IInv, NEW t \in Tabs, Drop(t)
    PROVE  IInv'
  <1>1. /\ UNCHANGED <<signedIn, todo, screenVars, serverVars, handed, events, historyVars>>
        /\ pc[t] = "drop" /\ pc' = [pc EXCEPT ![t] = "loop"]
        /\ cur' = [cur EXCEPT ![t] = NoInstall]
        /\ curRec' = [curRec EXCEPT ![t] = Absent]
        /\ rows' = [rows EXCEPT ![cur[t]] = Absent]
    BY DEF Drop, ToNext, removeRecord
  <1>2. cur[t] \in Installs /\ filings[cur[t]] > 0 /\ cur[t] \in handed
    BY <1>1, CurrentMeans DEF StepAt, Reached
  <1>3. TypeOK'
    BY <1>1, <1>2, AbsentIsRecord DEF IInv, TypeOK, screenVars, serverVars, pointsVars,
                                      historyVars
  <1>4. CopiesEarned' /\ DueIsPending'
    BY <1>1, AbsentIsRecord
       DEF IInv, TypeOK, CopiesEarned, DueIsPending, Earned, Reached, screenVars, serverVars,
           pointsVars, historyVars
  <1>5. CurrentEarned'
    BY <1>1 DEF IInv, TypeOK, CurrentEarned, StepAt, Earned, Reached, serverVars, pointsVars,
                historyVars
  <1>6. WireKnown'
    BY <1>1 DEF IInv, TypeOK, WireKnown, serverVars, pointsVars
  <1>7. InstallKept'
    BY <1>1, <1>2 DEF IInv, TypeOK, InstallKept, Present, serverVars, pointsVars, historyVars
  <1>8. (StagesInOrder /\ FiledAsSubmitter /\ PaidOnce)'
    BY <1>1 DEF IInv, StagesInOrder, FiledAsSubmitter, PaidOnce, serverVars, pointsVars
  <1> QED
    BY <1>3, <1>4, <1>5, <1>6, <1>7, <1>8 DEF IInv

\* A failed stage leaves the record in the store, at the step it was at, and
\* its filing, if it may still land, as it was.
LEMMA FailStageInv ==
    ASSUME IInv, NEW t \in Tabs, NEW permanent \in BOOLEAN, FailStage(t, permanent)
    PROVE  IInv'
  <1> DEFINE r == applyInstallFailure(curRec[t], permanent)
  <1>1. /\ UNCHANGED <<signedIn, todo, revived, listed, sheet, told, asked, filings, filedAs,
                       paid, paidFor, sentBack, handed, events, historyVars>>
        /\ pc[t] \in {"rpc", "answered", "media"} /\ pc' = [pc EXCEPT ![t] = "loop"]
        /\ cur' = [cur EXCEPT ![t] = NoInstall]
        /\ curRec' = [curRec EXCEPT ![t] = Absent]
        /\ rows' = [rows EXCEPT ![cur[t]] = r]
        /\ unclaimedRefusals' \in
             {unclaimedRefusals, [unclaimedRefusals EXCEPT ![t] = @ \cup {cur[t]}]}
    BY DEF FailStage, ToNext, putRecord, park, pointsVars
  <1>2. /\ cur[t] \in Installs /\ curRec[t] \in Record
        /\ curRec[t].status = "pending" /\ curRec[t].attempts < MAX_ATTEMPTS
        /\ Reached(cur[t], curRec[t])
    BY <1>1, CurrentMeans DEF StepAt
  <1>3. /\ r \in Record /\ r.status # "absent" /\ Earned(cur[t], r)
    BY <1>2, FailureMeans DEF Earned, Reached
  <1>4. /\ wire' \subseteq Filing
        /\ \A m \in wire' : /\ m.to # t
                            /\ \E n \in wire : /\ m.id = n.id /\ m.as = n.as
                                               /\ m.to # NoTab => m.to = n.to
    <2>1. CASE permanent
      <3>1. PICK m \in wire : m.id = cur[t] /\ m.to = t /\ wire' = wire \ {m}
        BY <2>1 DEF FailStage, Refusal
      <3>2. ASSUME NEW n \in wire, n # m PROVE n.to # t
        <4>1. m \in Filing /\ n \in Filing /\ m.as = Owner[m.id] /\ n.as = Owner[n.id]
          BY <3>1, <3>2 DEF IInv, TypeOK, WireKnown
        <4>2. n.to = t => n.id = m.id
          BY <3>1, <3>2 DEF IInv, WireKnown
        <4>3. /\ m = [id |-> m.id, as |-> m.as, to |-> m.to]
              /\ n = [id |-> n.id, as |-> n.as, to |-> n.to]
          BY <4>1 DEF Filing
        <4> QED
          BY <3>1, <3>2, <4>1, <4>2, <4>3
      <3> QED
        BY <3>1, <3>2 DEF IInv, TypeOK
    <2>2. CASE ~permanent
      <3>1. wire' = Unheard(t)
        BY <2>2 DEF FailStage
      <3> QED
        BY <3>1, UnheardMeans DEF IInv, TypeOK
    <2> QED
      BY <2>1, <2>2
  <1> HIDE DEF r
  <1>5. TypeOK'
    <2>1. unclaimedRefusals' \in [Tabs -> SUBSET Installs]
      <3>1. unclaimedRefusals \in [Tabs -> SUBSET Installs]
        BY DEF IInv, TypeOK
      <3>2. unclaimedRefusals[t] \cup {cur[t]} \in SUBSET Installs
        BY <1>2, <3>1
      <3> QED
        BY <1>1, <3>1, <3>2
    <2>2. wire' \subseteq Filing
      BY <1>4
    <2>3. rows' \in [Installs -> Record] /\ curRec' \in [Tabs -> Record]
      BY <1>1, <1>2, <1>3, AbsentIsRecord DEF IInv, TypeOK
    <2> QED
      BY <1>1, <2>1, <2>2, <2>3 DEF IInv, TypeOK, historyVars
  <1>6. CopiesEarned' /\ DueIsPending'
    BY <1>1, <1>2, <1>3
       DEF IInv, TypeOK, CopiesEarned, DueIsPending, Earned, Reached, historyVars
  <1>7. CurrentEarned'
    BY <1>1 DEF IInv, TypeOK, CurrentEarned, StepAt, Earned, Reached, historyVars
  <1>8. WireKnown'
    <2> SUFFICES ASSUME NEW m \in wire'
                 PROVE  /\ m.as = Owner[m.id]
                        /\ m.to \in Tabs => pc'[m.to] = "rpc" /\ cur'[m.to] = m.id
      BY DEF WireKnown
    <2>1. PICK n \in wire : m.id = n.id /\ m.as = n.as /\ (m.to # NoTab => m.to = n.to)
      BY <1>4
    <2>2. m.to # t
      BY <1>4
    <2>3. n.as = Owner[n.id] /\ (n.to \in Tabs => pc[n.to] = "rpc" /\ cur[n.to] = n.id)
      BY DEF IInv, WireKnown
    <2> QED
      BY <1>1, <2>1, <2>2, <2>3, InstallConstants DEF IInv, TypeOK
  <1>9. InstallKept'
    BY <1>1, <1>2, <1>3 DEF IInv, TypeOK, InstallKept, Present, historyVars
  <1>10. (StagesInOrder /\ FiledAsSubmitter /\ PaidOnce)'
    BY <1>1 DEF IInv, StagesInOrder, FiledAsSubmitter, PaidOnce
  <1> QED
    BY <1>5, <1>6, <1>7, <1>8, <1>9, <1>10 DEF IInv

\* A killed tab forgets its copies; the store and the filings stay.
LEMMA CrashInv ==
    ASSUME IInv, NEW t \in Tabs, Crash(t)
    PROVE  IInv'
  <1>1. /\ UNCHANGED <<rows, signedIn, asked, filings, filedAs, paid, paidFor, sentBack,
                       handed, historyVars>>
        /\ pc' = [pc EXCEPT ![t] = "idle"]
        /\ todo' = [todo EXCEPT ![t] = Nothing]
        /\ cur' = [cur EXCEPT ![t] = NoInstall]
        /\ curRec' = [curRec EXCEPT ![t] = Absent]
        /\ revived' = [revived EXCEPT ![t] = Nothing]
        /\ listed' = [listed EXCEPT ![t] = {}]
        /\ sheet' = [sheet EXCEPT ![t] = NoInstall]
        /\ told' = [told EXCEPT ![t] = "nothing"]
        /\ unclaimedRefusals' = [unclaimedRefusals EXCEPT ![t] = {}]
        /\ wire' = Unheard(t)
        /\ events < MaxEvents /\ events' = events + 1
    BY DEF Crash, Event, pointsVars
  <1>2. /\ wire' \subseteq Filing
        /\ \A m \in wire' : /\ m.to # t
                            /\ \E n \in wire : /\ m.id = n.id /\ m.as = n.as
                                               /\ m.to # NoTab => m.to = n.to
    BY <1>1, UnheardMeans DEF IInv, TypeOK
  <1>3. events' \in 0 .. MaxEvents
    BY <1>1, InstallConstants DEF IInv, TypeOK
  <1>4. TypeOK'
    BY <1>1, <1>2, <1>3, AbsentIsRecord DEF IInv, TypeOK, historyVars
  <1>5. CopiesEarned' /\ DueIsPending'
    BY <1>1, AbsentIsRecord
       DEF IInv, TypeOK, CopiesEarned, DueIsPending, Earned, Reached, historyVars
  <1>6. CurrentEarned'
    BY <1>1 DEF IInv, TypeOK, CurrentEarned, StepAt, Earned, Reached, historyVars
  <1>7. WireKnown'
    <2> SUFFICES ASSUME NEW m \in wire'
                 PROVE  /\ m.as = Owner[m.id]
                        /\ m.to \in Tabs => pc'[m.to] = "rpc" /\ cur'[m.to] = m.id
      BY DEF WireKnown
    <2>1. PICK n \in wire : m.id = n.id /\ m.as = n.as /\ (m.to # NoTab => m.to = n.to)
      BY <1>2
    <2>2. m.to # t
      BY <1>2
    <2>3. n.as = Owner[n.id] /\ (n.to \in Tabs => pc[n.to] = "rpc" /\ cur[n.to] = n.id)
      BY DEF IInv, WireKnown
    <2> QED
      BY <1>1, <2>1, <2>2, <2>3, InstallConstants DEF IInv, TypeOK
  <1>8. (InstallKept /\ StagesInOrder /\ FiledAsSubmitter /\ PaidOnce)'
    BY <1>1 DEF IInv, InstallKept, StagesInOrder, FiledAsSubmitter, PaidOnce, Present,
                historyVars
  <1> QED
    BY <1>4, <1>5, <1>6, <1>7, <1>8 DEF IInv

\* Steps that leave the records, the photos and the server alone.
LEMMA AsideInv ==
    ASSUME IInv,
           \/ \E t \in Tabs : EndPass(t) \/ Tell(t) \/ listMyInstalls(t)
           \/ \E person \in People \cup {NoOne} : SignIn(person)
    PROVE  IInv'
  <1>1. /\ UNCHANGED <<rows, todo, cur, curRec, revived, serverVars, handed, historyVars>>
        /\ pc' = pc \/ \E t \in Tabs : pc[t] = "loop" /\ pc' = [pc EXCEPT ![t] = "idle"]
    BY DEF EndPass, Tell, listMyInstalls, SignIn, passVars, screenVars
  <1>2. /\ signedIn' \in People \cup {NoOne}
        /\ events' = events \/ (events < MaxEvents /\ events' = events + 1)
    BY DEF EndPass, Tell, listMyInstalls, SignIn, Event, IInv, TypeOK
  <1>3. /\ listed' \in [Tabs -> SUBSET Installs]
        /\ sheet' \in [Tabs -> Installs \cup {NoInstall}]
        /\ told' \in [Tabs -> {"nothing", "wait", "inPass", "flushed", "refused", "queued",
                               "sent"}]
        /\ unclaimedRefusals' \in [Tabs -> SUBSET Installs]
    <2>1. ASSUME NEW t \in Tabs, EndPass(t)
          PROVE  /\ UNCHANGED <<listed, sheet, unclaimedRefusals>>
                 /\ told' = told \/ told' = [told EXCEPT ![t] = "flushed"]
      BY <2>1 DEF EndPass
    <2>2. ASSUME NEW t \in Tabs, Tell(t)
          PROVE  /\ listed' = listed /\ sheet' = [sheet EXCEPT ![t] = NoInstall]
                 /\ \E said \in {"refused", "queued", "sent"} : told' = [told EXCEPT ![t] = said]
                 /\ unclaimedRefusals' = [unclaimedRefusals EXCEPT ![t] = @ \ {sheet[t]}]
      BY <2>2 DEF Tell
    <2>3. ASSUME NEW t \in Tabs, listMyInstalls(t)
          PROVE  /\ UNCHANGED <<sheet, told, unclaimedRefusals>>
                 /\ \E shown \in SUBSET Installs : listed' = [listed EXCEPT ![t] = shown]
      BY <2>3 DEF listMyInstalls
    <2>4. ASSUME NEW person \in People \cup {NoOne}, SignIn(person)
          PROVE  UNCHANGED <<listed, sheet, told, unclaimedRefusals>>
      BY <2>4 DEF SignIn, screenVars
    <2>5. /\ listed \in [Tabs -> SUBSET Installs]
          /\ sheet \in [Tabs -> Installs \cup {NoInstall}]
          /\ told \in [Tabs -> {"nothing", "wait", "inPass", "flushed", "refused", "queued",
                                "sent"}]
          /\ unclaimedRefusals \in [Tabs -> SUBSET Installs]
      BY DEF IInv, TypeOK
    <2>6. CASE \E t \in Tabs : EndPass(t)
      BY <2>1, <2>5, <2>6
    <2>7. CASE \E t \in Tabs : Tell(t)
      BY <2>2, <2>5, <2>7
    <2>8. CASE \E t \in Tabs : listMyInstalls(t)
      BY <2>3, <2>5, <2>8
    <2>9. CASE \E person \in People \cup {NoOne} : SignIn(person)
      BY <2>4, <2>5, <2>9
    <2> QED
      BY <2>6, <2>7, <2>8, <2>9
  <1>4. events' \in 0 .. MaxEvents
    BY <1>2, InstallConstants DEF IInv, TypeOK
  <1>5. TypeOK'
    BY <1>1, <1>2, <1>3, <1>4 DEF IInv, TypeOK, serverVars, pointsVars, historyVars
  <1>6. CopiesEarned' /\ DueIsPending'
    BY <1>1 DEF IInv, CopiesEarned, DueIsPending, Earned, Reached, serverVars, pointsVars,
                historyVars
  <1>7. CurrentEarned'
    BY <1>1 DEF IInv, TypeOK, CurrentEarned, StepAt, Earned, Reached, serverVars, pointsVars,
                historyVars
  <1>8. WireKnown'
    BY <1>1 DEF IInv, TypeOK, WireKnown, serverVars, pointsVars
  <1>9. (InstallKept /\ StagesInOrder /\ FiledAsSubmitter /\ PaidOnce)'
    BY <1>1 DEF IInv, InstallKept, StagesInOrder, FiledAsSubmitter, PaidOnce, Present,
                serverVars, pointsVars, historyVars
  <1> QED
    BY <1>5, <1>6, <1>7, <1>8, <1>9 DEF IInv

-----------------------------------------------------------------------------
(* The person, the clock and the server *)

\* A submit writes a row at its first step.
LEMMA SubmitInv ==
    ASSUME IInv, NEW t \in Tabs, NEW i \in Installs, Submit(t, i)
    PROVE  IInv'
  <1> DEFINE r == [status |-> "pending", step |-> "queued", attempts |-> 0, wait |-> FALSE]
  <1>1. /\ UNCHANGED <<signedIn, passVars, revived, listed, unclaimedRefusals, serverVars,
                       handed, events, thrownAway>>
        /\ rows' = [rows EXCEPT ![i] = r]
        /\ submitted' = submitted \cup {i}
        /\ sheet' = [sheet EXCEPT ![t] = i]
        /\ told' = [told EXCEPT ![t] = "wait"]
    BY DEF Submit, putRecord
  <1>2. /\ r \in Record /\ r.status = "pending" /\ r.step = "queued"
        /\ r.attempts < MAX_ATTEMPTS
    BY InstallConstants DEF Record, Steps
  <1> HIDE DEF r
  <1>3. TypeOK'
    BY <1>1, <1>2 DEF IInv, TypeOK, passVars, serverVars, pointsVars
  <1>4. CopiesEarned' /\ DueIsPending'
    BY <1>1, <1>2
       DEF IInv, TypeOK, CopiesEarned, DueIsPending, Earned, Reached, passVars, serverVars,
           pointsVars
  <1>5. CurrentEarned'
    BY <1>1 DEF IInv, CurrentEarned, StepAt, Earned, Reached, passVars, serverVars, pointsVars
  <1>6. WireKnown'
    BY <1>1 DEF IInv, WireKnown, passVars, serverVars, pointsVars
  <1>7. InstallKept'
    BY <1>1, <1>2 DEF IInv, TypeOK, InstallKept, Present, serverVars, pointsVars
  <1>8. (StagesInOrder /\ FiledAsSubmitter /\ PaidOnce)'
    BY <1>1 DEF IInv, StagesInOrder, FiledAsSubmitter, PaidOnce, serverVars, pointsVars
  <1> QED
    BY <1>3, <1>4, <1>5, <1>6, <1>7, <1>8 DEF IInv

\* A tap that holds copies of rows, made due.
LEMMA ReviveInv ==
    ASSUME IInv, NEW t \in Tabs,
           sendInstallsNow(t) \/ \E i \in Installs : retryFailedInstall(t, i)
    PROVE  IInv'
  <1>1. /\ UNCHANGED <<rows, signedIn, passVars, listed, sheet, told, unclaimedRefusals,
                       serverVars, handed, historyVars>>
        /\ events < MaxEvents /\ events' = events + 1
    BY DEF sendInstallsNow, retryFailedInstall, Event
  <1>2. events' \in 0 .. MaxEvents
    BY <1>1, InstallConstants DEF IInv, TypeOK
  <1>3. PICK again \in [Installs -> Record] :
           /\ revived' = [revived EXCEPT ![t] = again]
           /\ \A i \in Installs : Earned(i, again[i])
    <2>1. ASSUME NEW i \in Installs, retryFailedInstall(t, i)
          PROVE  \E again \in [Installs -> Record] :
                   /\ revived' = [revived EXCEPT ![t] = again]
                   /\ \A j \in Installs : Earned(j, again[j])
      <3> DEFINE r == [rows[i] EXCEPT !.status = "pending", !.attempts = 0, !.wait = FALSE]
                 again == [revived[t] EXCEPT ![i] = r]
      <3>1. rows[i] \in Record /\ rows[i].status = "failed" /\ Earned(i, rows[i])
        BY <2>1 DEF retryFailedInstall, IInv, TypeOK, CopiesEarned
      <3>2. /\ r \in Record /\ r.status = "pending" /\ r.step = rows[i].step
            /\ r.attempts < MAX_ATTEMPTS
        <4>1. 0 \in 0 .. MAX_ATTEMPTS /\ 0 < MAX_ATTEMPTS
          BY InstallConstants
        <4> QED
          BY <3>1, <4>1 DEF Record
      <3>3. revived' = [revived EXCEPT ![t][i] = r]
        BY <2>1 DEF retryFailedInstall
      <3>4. Earned(i, r)
        BY <3>1, <3>2 DEF Earned, Reached
      <3> HIDE DEF r
      <3>5. revived[t] \in [Installs -> Record] /\ \A j \in Installs : Earned(j, revived[t][j])
        BY DEF IInv, TypeOK, CopiesEarned
      <3>6. again \in [Installs -> Record] /\ \A j \in Installs : Earned(j, again[j])
        BY <3>2, <3>4, <3>5
      <3> QED
        BY <3>3, <3>6
    <2>2. CASE sendInstallsNow(t)
      <3> DEFINE waiting == {i \in Installs : rows[i].status = "pending" /\ rows[i].wait}
                 again == [i \in Installs |-> IF i \in waiting
                                              THEN [rows[i] EXCEPT !.wait = FALSE]
                                              ELSE Absent]
      <3>1. revived' = [revived EXCEPT ![t] = again]
        BY <2>2 DEF sendInstallsNow
      <3>2. ASSUME NEW i \in Installs
            PROVE  again[i] \in Record /\ Earned(i, again[i])
        <4>1. rows[i] \in Record /\ Earned(i, rows[i])
          BY DEF IInv, TypeOK, CopiesEarned
        <4>2. CASE i \in waiting
          <5>1. again[i] = [rows[i] EXCEPT !.wait = FALSE]
            BY <4>2
          <5>2. /\ again[i] \in Record /\ again[i].status = rows[i].status
                /\ again[i].step = rows[i].step /\ again[i].attempts = rows[i].attempts
            BY <4>1, <5>1 DEF Record
          <5> QED
            BY <4>1, <5>2 DEF Earned, Reached
        <4>3. CASE i \notin waiting
          BY <4>3, AbsentIsRecord DEF Earned
        <4> QED
          BY <4>2, <4>3
      <3>3. again \in [Installs -> Record]
        BY <3>2
      <3> HIDE DEF again
      <3> QED
        BY <3>1, <3>2, <3>3
    <2> QED
      BY <2>1, <2>2
  <1>4. TypeOK'
    BY <1>1, <1>2, <1>3 DEF IInv, TypeOK, passVars, serverVars, pointsVars, historyVars
  <1>5. CopiesEarned' /\ DueIsPending'
    BY <1>1, <1>3
       DEF IInv, CopiesEarned, DueIsPending, Earned, Reached, passVars, serverVars,
           pointsVars, historyVars
  <1>6. CurrentEarned'
    BY <1>1
       DEF IInv, CurrentEarned, StepAt, Earned, Reached, passVars, serverVars, pointsVars,
           historyVars
  <1>7. WireKnown'
    BY <1>1 DEF IInv, WireKnown, passVars, serverVars, pointsVars
  <1>8. (InstallKept /\ StagesInOrder /\ FiledAsSubmitter /\ PaidOnce)'
    BY <1>1 DEF IInv, InstallKept, StagesInOrder, FiledAsSubmitter, PaidOnce, Present,
                serverVars, pointsVars, historyVars
  <1> QED
    BY <1>4, <1>5, <1>6, <1>7, <1>8 DEF IInv

\* A row written from a copy, or one whose wait is over.
LEMMA RowPutInv ==
    ASSUME IInv, NEW i \in Installs,
           WaitOver(i) \/ \E t \in Tabs : PutBack(t, i)
    PROVE  IInv'
  <1>1. /\ UNCHANGED <<signedIn, passVars, listed, sheet, told, unclaimedRefusals,
                       serverVars, handed, events, historyVars>>
        /\ revived' = revived \/ \E t \in Tabs : revived' = [revived EXCEPT ![t][i] = Absent]
    BY DEF WaitOver, PutBack, screenVars
  <1>2. PICK r \in Record :
           r.status # "absent" /\ Earned(i, r) /\ rows' = [rows EXCEPT ![i] = r]
    <2>1. CASE WaitOver(i)
      <3> DEFINE r == [rows[i] EXCEPT !.wait = FALSE]
      <3>1. rows[i] \in Record /\ rows[i].wait /\ rows' = [rows EXCEPT ![i] = r]
        BY <2>1 DEF WaitOver, putRecord, IInv, TypeOK
      <3>2. /\ r \in Record /\ r.status = rows[i].status /\ r.step = rows[i].step
            /\ r.attempts = rows[i].attempts
        BY <3>1 DEF Record
      <3>3. rows[i].status # "absent"
        BY <2>1 DEF WaitOver, Present
      <3>4. Earned(i, rows[i])
        BY DEF IInv, CopiesEarned
      <3> QED
        BY <3>1, <3>2, <3>3, <3>4 DEF Earned, Reached
    <2>2. ASSUME NEW t \in Tabs, PutBack(t, i)
          PROVE  \E r \in Record :
                   r.status # "absent" /\ Earned(i, r) /\ rows' = [rows EXCEPT ![i] = r]
      <3>1. /\ revived[t][i].status # "absent"
            /\ rows' = [rows EXCEPT ![i] = revived[t][i]]
        BY <2>2 DEF PutBack, putRecord, Present
      <3>2. revived[t][i] \in Record /\ Earned(i, revived[t][i])
        BY DEF IInv, TypeOK, CopiesEarned
      <3> QED
        BY <3>1, <3>2
    <2> QED
      BY <2>1, <2>2
  <1>3. /\ revived' \in [Tabs -> [Installs -> Record]]
        /\ \A t \in Tabs, j \in Installs : revived'[t][j] \in {revived[t][j], Absent}
    <2>1. revived \in [Tabs -> [Installs -> Record]]
      BY DEF IInv, TypeOK
    <2>2. ASSUME NEW t \in Tabs, revived' = [revived EXCEPT ![t][i] = Absent]
          PROVE  /\ revived' \in [Tabs -> [Installs -> Record]]
                 /\ \A s \in Tabs, j \in Installs : revived'[s][j] \in {revived[s][j], Absent}
      BY <2>1, <2>2, AbsentIsRecord
    <2> QED
      BY <1>1, <2>1, <2>2
  <1>4. TypeOK'
    BY <1>1, <1>2, <1>3 DEF IInv, TypeOK, passVars, serverVars, pointsVars, historyVars
  <1>5. CopiesEarned' /\ DueIsPending'
    <2>1. /\ rows \in [Installs -> Record] /\ CopiesEarned /\ DueIsPending
          /\ todo' = todo /\ submitted' = submitted /\ filings' = filings /\ handed' = handed
      BY <1>1 DEF IInv, TypeOK, passVars, serverVars, pointsVars, historyVars
    <2>2. ASSUME NEW j \in Installs
          PROVE  /\ Earned(j, rows[j])' /\ \A t \in Tabs : Earned(j, todo[t][j])'
      BY <1>2, <2>1 DEF CopiesEarned, Earned, Reached
    <2>3. ASSUME NEW j \in Installs, NEW t \in Tabs
          PROVE  Earned(j, revived[t][j])'
      BY <1>3, <2>1, AbsentIsRecord DEF CopiesEarned, Earned, Reached
    <2> QED
      BY <2>1, <2>2, <2>3 DEF CopiesEarned, DueIsPending
  <1>6. CurrentEarned'
    BY <1>1
       DEF IInv, CurrentEarned, StepAt, Earned, Reached, passVars, serverVars, pointsVars,
           historyVars
  <1>7. WireKnown'
    BY <1>1 DEF IInv, WireKnown, passVars, serverVars, pointsVars
  <1>8. InstallKept'
    BY <1>1, <1>2 DEF IInv, TypeOK, InstallKept, Present, serverVars, pointsVars, historyVars
  <1>9. (StagesInOrder /\ FiledAsSubmitter /\ PaidOnce)'
    BY <1>1 DEF IInv, StagesInOrder, FiledAsSubmitter, PaidOnce, serverVars, pointsVars
  <1> QED
    BY <1>4, <1>5, <1>6, <1>7, <1>8, <1>9 DEF IInv

\* A row thrown away is remembered as such.
LEMMA DiscardInv ==
    ASSUME IInv, NEW t \in Tabs, NEW i \in Installs, discardFailedInstall(t, i)
    PROVE  IInv'
  <1>1. /\ UNCHANGED <<signedIn, passVars, screenVars, serverVars, handed, submitted>>
        /\ rows' = [rows EXCEPT ![i] = Absent]
        /\ thrownAway' = thrownAway \cup {i}
        /\ events < MaxEvents /\ events' = events + 1
    BY DEF discardFailedInstall, removeRecord, Event
  <1>2. events' \in 0 .. MaxEvents
    BY <1>1, InstallConstants DEF IInv, TypeOK
  <1>3. TypeOK'
    BY <1>1, <1>2, AbsentIsRecord DEF IInv, TypeOK, passVars, screenVars, serverVars,
                                      pointsVars
  <1>4. CopiesEarned' /\ DueIsPending'
    BY <1>1, AbsentIsRecord
       DEF IInv, TypeOK, CopiesEarned, DueIsPending, Earned, Reached, passVars, screenVars,
           serverVars, pointsVars
  <1>5. CurrentEarned'
    BY <1>1 DEF IInv, CurrentEarned, StepAt, Earned, Reached, passVars, serverVars, pointsVars
  <1>6. WireKnown'
    BY <1>1 DEF IInv, WireKnown, passVars, serverVars, pointsVars
  <1>7. (InstallKept /\ StagesInOrder /\ FiledAsSubmitter /\ PaidOnce)'
    BY <1>1 DEF IInv, TypeOK, InstallKept, StagesInOrder, FiledAsSubmitter, PaidOnce,
                Present, serverVars, pointsVars
  <1> QED
    BY <1>3, <1>4, <1>5, <1>6, <1>7 DEF IInv

\* A filing that lands is counted and is its submitter's; the tab that waits
\* for it is answered.
LEMMA FinishUnitInv ==
    ASSUME IInv, NEW m \in wire, FinishUnit(m)
    PROVE  IInv'
  <1>1. /\ UNCHANGED <<rows, signedIn, todo, cur, curRec, screenVars, asked, paid, paidFor,
                       sentBack, handed, events, historyVars>>
        /\ wire' = wire \ {m}
        /\ filings' = [filings EXCEPT ![m.id] = oneMore(@)]
        /\ filedAs' = [filedAs EXCEPT ![m.id] = @ \cup {m.as}]
        /\ pc' = [t \in Tabs |-> IF m.to = t THEN "answered" ELSE pc[t]]
    BY DEF FinishUnit, pointsVars
  <1>2. /\ m.id \in Installs /\ m.as \in People /\ m.as = Owner[m.id]
        /\ m.to \in Tabs => pc[m.to] = "rpc" /\ cur[m.to] = m.id
    BY DEF IInv, TypeOK, Filing, WireKnown
  <1>3. /\ filings' \in [Installs -> 0 .. 2]
        /\ filings'[m.id] > 0
        /\ \A i \in Installs : filings[i] > 0 => filings'[i] > 0
    BY <1>1, <1>2 DEF IInv, TypeOK, oneMore
  <1>4. filedAs' \in [Installs -> SUBSET People] /\ FiledAsSubmitter'
    BY <1>1, <1>2 DEF IInv, TypeOK, FiledAsSubmitter
  <1>5. TypeOK'
    BY <1>1, <1>3, <1>4 DEF IInv, TypeOK, screenVars, historyVars
  <1>6. CopiesEarned' /\ DueIsPending'
    BY <1>1, <1>3
       DEF IInv, CopiesEarned, DueIsPending, Earned, Reached, screenVars, historyVars
  <1>7. CurrentEarned'
    <2> SUFFICES ASSUME NEW t \in Tabs, pc'[t] \in DOMAIN StepAt
                 PROVE  /\ cur'[t] \in Installs
                        /\ curRec'[t].status = "pending"
                        /\ curRec'[t].step = StepAt[pc'[t]]
                        /\ Earned(cur[t], curRec[t])'
                        /\ pc'[t] = "answered" => filings'[cur'[t]] > 0
                        /\ pc'[t] = "handed" => cur'[t] \in handed'
      BY DEF CurrentEarned, StepAt
    <2>1. /\ pc[t] \in DOMAIN StepAt
          /\ \/ pc'[t] = pc[t]
             \/ pc[t] = "rpc" /\ pc'[t] = "answered" /\ cur[t] = m.id
      BY <1>1, <1>2 DEF IInv, TypeOK, StepAt
    <2>2. /\ cur[t] \in Installs /\ curRec[t].status = "pending"
          /\ curRec[t].step = StepAt[pc[t]] /\ Earned(cur[t], curRec[t])
          /\ pc[t] = "answered" => filings[cur[t]] > 0
          /\ pc[t] = "handed" => cur[t] \in handed
      BY <2>1 DEF IInv, CurrentEarned
    <2>3. Earned(cur[t], curRec[t])'
      BY <1>1, <1>3, <2>2 DEF Earned, Reached, historyVars
    <2> QED
      BY <1>1, <1>3, <2>1, <2>2, <2>3 DEF StepAt
  <1>8. WireKnown'
    <2> SUFFICES ASSUME NEW n \in wire, n # m
                 PROVE  /\ n.as = Owner[n.id]
                        /\ n.to \in Tabs => pc'[n.to] = "rpc" /\ cur'[n.to] = n.id
      BY <1>1 DEF WireKnown
    <2>1. /\ n.as = Owner[n.id]
          /\ n.to \in Tabs => pc[n.to] = "rpc" /\ cur[n.to] = n.id
      BY DEF IInv, WireKnown
    <2>2. /\ m = [id |-> m.id, as |-> m.as, to |-> m.to]
          /\ n = [id |-> n.id, as |-> n.as, to |-> n.to]
      BY DEF IInv, TypeOK, Filing
    <2>3. n.to \in Tabs => m.to # n.to
      BY <1>2, <2>1, <2>2
    <2> QED
      BY <1>1, <2>1, <2>3
  <1>9. InstallKept'
    BY <1>1, <1>3 DEF IInv, TypeOK, InstallKept, Present, historyVars
  <1>10. StagesInOrder' /\ PaidOnce'
    BY <1>1, <1>3 DEF IInv, StagesInOrder, PaidOnce
  <1> QED
    BY <1>4, <1>5, <1>6, <1>7, <1>8, <1>9, <1>10 DEF IInv

\* Points are paid for a filed install, and again only after a callback.
LEMMA AwardInv ==
    ASSUME IInv, NEW i \in Installs, Award(i)
    PROVE  IInv'
  <1>1. /\ UNCHANGED <<rows, signedIn, passVars, screenVars, wire, filings, filedAs, sentBack,
                       handed, events, historyVars>>
        /\ asked' = asked \ {i}
        /\ award_install_points(i)
    BY DEF Award
  <1>2. /\ paid' \in [Installs -> 0 .. 2] /\ paidFor' \in [Installs -> 0 .. 2]
        /\ PaidOnce'
        /\ \A j \in Installs : paid'[j] > 0 => paid[j] > 0 \/ filings[j] > 0
    <2>1. CASE owed(i)
      <3>1. /\ paid' = [paid EXCEPT ![i] = oneMore(paid[i])]
            /\ paidFor' = [paidFor EXCEPT ![i] = filings[i]]
        BY <1>1, <2>1 DEF award_install_points
      <3>2. oneMore(paid[i]) \in 0 .. 2 /\ (oneMore(paid[i]) = 2 => i \in sentBack)
        BY <2>1 DEF owed, oneMore, IInv, TypeOK
      <3>3. filings[i] > 0
        BY <2>1 DEF owed
      <3> QED
        BY <1>1, <3>1, <3>2, <3>3 DEF IInv, TypeOK, PaidOnce
    <2>2. CASE ~owed(i)
      <3>1. UNCHANGED <<paid, paidFor>>
        BY <1>1, <2>2 DEF award_install_points
      <3> QED
        BY <1>1, <3>1 DEF IInv, TypeOK, PaidOnce
    <2> QED
      BY <2>1, <2>2
  <1>3. TypeOK'
    BY <1>1, <1>2 DEF IInv, TypeOK, passVars, screenVars, historyVars
  <1>4. CopiesEarned' /\ DueIsPending'
    BY <1>1
       DEF IInv, CopiesEarned, DueIsPending, Earned, Reached, passVars, screenVars, historyVars
  <1>5. CurrentEarned'
    BY <1>1 DEF IInv, CurrentEarned, StepAt, Earned, Reached, passVars, historyVars
  <1>6. WireKnown'
    BY <1>1 DEF IInv, WireKnown, passVars
  <1>7. (InstallKept /\ StagesInOrder /\ FiledAsSubmitter)'
    BY <1>1, <1>2 DEF IInv, InstallKept, StagesInOrder, FiledAsSubmitter, Present, historyVars
  <1> QED
    BY <1>2, <1>3, <1>4, <1>5, <1>6, <1>7 DEF IInv

\* A callback voids points, and frees the unit to be paid again.
LEMMA CallbackInv ==
    ASSUME IInv, NEW i \in Installs, resolve_install_points(i)
    PROVE  IInv'
  <1>1. /\ UNCHANGED <<rows, signedIn, passVars, screenVars, wire, asked, filings, filedAs,
                       paid, paidFor, handed, historyVars>>
        /\ sentBack' = sentBack \cup {i}
        /\ events < MaxEvents /\ events' = events + 1
    BY DEF resolve_install_points, Event
  <1>2. events' \in 0 .. MaxEvents
    BY <1>1, InstallConstants DEF IInv, TypeOK
  <1>3. TypeOK'
    BY <1>1, <1>2 DEF IInv, TypeOK, passVars, screenVars, historyVars
  <1>4. CopiesEarned' /\ DueIsPending'
    BY <1>1
       DEF IInv, CopiesEarned, DueIsPending, Earned, Reached, passVars, screenVars, historyVars
  <1>5. CurrentEarned'
    BY <1>1 DEF IInv, CurrentEarned, StepAt, Earned, Reached, passVars, historyVars
  <1>6. WireKnown'
    BY <1>1 DEF IInv, WireKnown, passVars
  <1>7. (InstallKept /\ StagesInOrder /\ FiledAsSubmitter /\ PaidOnce)'
    BY <1>1 DEF IInv, InstallKept, StagesInOrder, FiledAsSubmitter, PaidOnce, Present,
                historyVars
  <1> QED
    BY <1>3, <1>4, <1>5, <1>6, <1>7 DEF IInv

-----------------------------------------------------------------------------
(* The invariant *)

\* Every step keeps the invariant.
LEMMA StepInv == IInv /\ [Next]_vars => IInv'
  <1> SUFFICES ASSUME IInv, [Next]_vars PROVE IInv'
    OBVIOUS
  <1>1. ASSUME NEW t \in Tabs, NEW own \in BOOLEAN, BeginPass(t, own) PROVE IInv'
    BY <1>1, BeginPassInv
  <1>2. ASSUME NEW t \in Tabs, PassStep(t) PROVE IInv'
    <2>1. CASE \E i \in Installs : Skip(t, i) \/ Take(t, i)
      BY <2>1, SkipInv, TakeInv
    <2>2. CASE RpcDone(t) \/ PointsDone(t) \/ MediaDone(t)
      BY <2>2, StageDoneInv
    <2>3. CASE HandOver(t) \/ Drop(t)
      BY <2>3, HandOverInv, DropInv
    <2>4. CASE \E permanent \in BOOLEAN : FailStage(t, permanent)
      BY <2>4, FailStageInv
    <2>5. CASE EndPass(t)
      BY <2>5, AsideInv
    <2> QED
      BY <1>2, <2>1, <2>2, <2>3, <2>4, <2>5 DEF PassStep
  <1>3. ASSUME NEW t \in Tabs, PersonStep(t) PROVE IInv'
    <2>1. CASE \E i \in Installs : Submit(t, i)
      BY <2>1, SubmitInv
    <2>2. CASE Tell(t) \/ listMyInstalls(t)
      BY <2>2, AsideInv
    <2>3. CASE sendInstallsNow(t) \/ \E i \in Installs : retryFailedInstall(t, i)
      BY <2>3, ReviveInv
    <2>4. CASE \E i \in Installs : PutBack(t, i)
      BY <2>4, RowPutInv
    <2>5. CASE \E i \in Installs : discardFailedInstall(t, i)
      BY <2>5, DiscardInv
    <2> QED
      BY <1>3, <2>1, <2>2, <2>3, <2>4, <2>5 DEF PersonStep
  <1>4. ASSUME NEW t \in Tabs, Crash(t) PROVE IInv'
    BY <1>4, CrashInv
  <1>5. ASSUME NEW i \in Installs, WaitOver(i) \/ Award(i) \/ resolve_install_points(i)
        PROVE  IInv'
    BY <1>5, RowPutInv, AwardInv, CallbackInv
  <1>6. ASSUME NEW person \in People \cup {NoOne}, SignIn(person) PROVE IInv'
    BY <1>6, AsideInv
  <1>7. ASSUME NEW m \in wire, FinishUnit(m) PROVE IInv'
    BY <1>7, FinishUnitInv
  <1>8. CASE UNCHANGED vars
    BY <1>8
       DEF vars, passVars, screenVars, serverVars, pointsVars, historyVars, IInv, TypeOK,
           InstallKept, StagesInOrder, FiledAsSubmitter, PaidOnce, CopiesEarned,
           DueIsPending, CurrentEarned, WireKnown, Earned, Reached, Present
  <1> QED
    BY <1>1, <1>2, <1>3, <1>4, <1>5, <1>6, <1>7, <1>8 DEF Next

\* The invariant holds throughout.
LEMMA Invariance == Spec => []IInv
  <1>1. IInv /\ [Next]_vars => IInv'
    BY StepInv
  <1> QED
    BY InitInv, <1>1, PTL DEF Spec

-----------------------------------------------------------------------------
(* What the person standing over a submit is told *)

\* Turned down on its first try.
RefusedAtOnce(r) == r.status = "failed" /\ r.attempts = 1

\* A sheet that waits is over an install, and a refusal of it is parked in the
\* sheet's own tab.
RefusalParked ==
    \A t \in Tabs :
        /\ told[t] \in {"wait", "inPass", "flushed"} => sheet[t] \in Installs
        /\ sheet[t] \in Installs /\ RefusedAtOnce(rows[sheet[t]])
              => sheet[t] \in unclaimedRefusals[t]

\* Retry and Send now hold rows they will put back pending.
RevivedIsPending == \A t \in Tabs, i \in Installs : revived[t][i].status # "failed"

OneTab == \A t, u \in Tabs : t = u

\* A step that refuses nothing and claims nothing.
LEMMA NothingRefused ==
    ASSUME IInv, RefusalParked, UNCHANGED <<sheet, unclaimedRefusals>>,
           \A t \in Tabs : \/ told'[t] = told[t]
                           \/ /\ told[t] \in {"wait", "inPass"}
                              /\ told'[t] \in {"inPass", "flushed"},
           \A i \in Installs : RefusedAtOnce(rows'[i]) => RefusedAtOnce(rows[i])
    PROVE  RefusalParked'
  BY DEF RefusalParked

\* A pass writes back what it holds: pending, unless its stage failed.
LEMMA PassParks ==
    ASSUME OneTab, MAX_ATTEMPTS > 1, IInv, RefusalParked, NEW t \in Tabs, PassStep(t)
    PROVE  RefusalParked'
  <1>1. CASE \E i \in Installs : Skip(t, i) \/ Take(t, i)
    BY <1>1, NothingRefused DEF Skip, Take, screenVars
  <1>2. CASE RpcDone(t) \/ PointsDone(t) \/ MediaDone(t)
    <2>1. cur[t] \in Installs /\ curRec[t] \in Record /\ curRec[t].status = "pending"
      BY <1>2, CurrentMeans DEF RpcDone, PointsDone, MediaDone, StepAt
    <2> DEFINE r == [curRec[t] EXCEPT !.step = nextInstallStep[@]]
    <2>2. r.status = "pending"
      BY <2>1 DEF Record
    <2>3. rows' = [rows EXCEPT ![cur[t]] = r] /\ UNCHANGED <<sheet, told, unclaimedRefusals>>
      BY <1>2 DEF RpcDone, PointsDone, MediaDone, advance, putRecord, screenVars
    <2> HIDE DEF r
    <2>4. \A i \in Installs : RefusedAtOnce(rows'[i]) => RefusedAtOnce(rows[i])
      BY <2>1, <2>2, <2>3 DEF RefusedAtOnce, IInv, TypeOK
    <2> QED
      BY <2>3, <2>4, NothingRefused
  <1>3. CASE HandOver(t)
    BY <1>3, NothingRefused DEF HandOver, screenVars
  <1>4. CASE Drop(t)
    <2>1. rows' = [rows EXCEPT ![cur[t]] = Absent] /\ UNCHANGED <<sheet, told, unclaimedRefusals>>
      BY <1>4 DEF Drop, removeRecord, screenVars
    <2>2. \A i \in Installs : RefusedAtOnce(rows'[i]) => RefusedAtOnce(rows[i])
      BY <2>1, AbsentIsRecord DEF RefusedAtOnce, IInv, TypeOK
    <2> QED
      BY <2>1, <2>2, NothingRefused
  <1>5. ASSUME NEW permanent \in BOOLEAN, FailStage(t, permanent)
        PROVE  RefusalParked'
    <2> DEFINE r == applyInstallFailure(curRec[t], permanent)
               count == curRec[t].attempts + 1
               givenUp == permanent \/ count >= MAX_ATTEMPTS
    <2>1. /\ cur[t] \in Installs /\ curRec[t] \in Record
          /\ curRec[t].status = "pending" /\ curRec[t].attempts < MAX_ATTEMPTS
      BY <1>5, CurrentMeans DEF FailStage, StepAt
    <2>2. count \in 0 .. MAX_ATTEMPTS
      BY <2>1, InstallConstants DEF Record
    <2>3. /\ r.attempts = count /\ r.status = IF givenUp THEN "failed" ELSE "pending"
          /\ r = [curRec[t] EXCEPT !.attempts = count,
                    !.status = IF givenUp THEN "failed" ELSE "pending", !.wait = ~givenUp]
      BY <2>1, Zenon DEF applyInstallFailure, Record
    <2>4. RefusedAtOnce(r) => permanent /\ r.attempts = 1
      BY <2>2, <2>3, InstallConstants DEF RefusedAtOnce
    <2> HIDE DEF r, count, givenUp
    <2>5. /\ rows' = [rows EXCEPT ![cur[t]] = r] /\ UNCHANGED <<sheet, told>>
          /\ IF permanent /\ r.attempts = 1
             THEN unclaimedRefusals' = [unclaimedRefusals EXCEPT ![t] = @ \cup {cur[t]}]
             ELSE UNCHANGED unclaimedRefusals
      BY <1>5 DEF FailStage, putRecord, park, r
    <2>6. CASE RefusedAtOnce(r)
      <3>1. unclaimedRefusals' = [unclaimedRefusals EXCEPT ![t] = @ \cup {cur[t]}]
        BY <2>4, <2>5, <2>6
      <3>2. \A u \in Tabs : u = t
        BY DEF OneTab
      <3> QED
        BY <2>1, <2>5, <3>1, <3>2 DEF RefusalParked, IInv, TypeOK
    <2>7. CASE ~RefusedAtOnce(r)
      <3>1. \A i \in Installs : RefusedAtOnce(rows'[i]) => RefusedAtOnce(rows[i])
        BY <2>1, <2>5, <2>7 DEF IInv, TypeOK
      <3>2. \A u \in Tabs : unclaimedRefusals[u] \subseteq unclaimedRefusals'[u]
        BY <2>5 DEF IInv, TypeOK
      <3> QED
        BY <2>5, <3>1, <3>2 DEF RefusalParked
    <2> QED
      BY <2>6, <2>7
  <1>6. CASE EndPass(t)
    <2>1. told' = told \/ (told[t] = "inPass" /\ told' = [told EXCEPT ![t] = "flushed"])
      BY <1>6 DEF EndPass
    <2>2. \A u \in Tabs : told'[u] = told[u] \/ (told[u] = "inPass" /\ told'[u] = "flushed")
      BY <2>1 DEF IInv, TypeOK
    <2> QED
      BY <1>6, <2>2, NothingRefused DEF EndPass
  <1> QED
    BY <1>1, <1>2, <1>3, <1>4, <1>5, <1>6 DEF PassStep

LEMMA PersonParks ==
    ASSUME IInv, RefusalParked, RevivedIsPending, NEW t \in Tabs, PersonStep(t)
    PROVE  RefusalParked'
  <1>1. ASSUME NEW i \in Installs, Submit(t, i)
        PROVE  RefusalParked'
    <2> DEFINE r == [status |-> "pending", step |-> "queued", attempts |-> 0, wait |-> FALSE]
    <2>1. /\ rows' = [rows EXCEPT ![i] = r] /\ sheet' = [sheet EXCEPT ![t] = i]
          /\ told' = [told EXCEPT ![t] = "wait"] /\ UNCHANGED unclaimedRefusals
      BY <1>1 DEF Submit, putRecord
    <2>2. ~RefusedAtOnce(r)
      BY DEF RefusedAtOnce
    <2> HIDE DEF r
    <2>3. \A j \in Installs : RefusedAtOnce(rows'[j]) => RefusedAtOnce(rows[j]) /\ j # i
      BY <2>1, <2>2 DEF IInv, TypeOK
    <2> QED
      BY <2>1, <2>3 DEF RefusalParked, IInv, TypeOK
  <1>2. CASE Tell(t)
    <2>1. /\ told' = [told EXCEPT ![t] = IF sheet[t] \in unclaimedRefusals[t] THEN "refused"
                                         ELSE IF sheet[t] \in Present(rows) THEN "queued" ELSE "sent"]
          /\ sheet' = [sheet EXCEPT ![t] = NoInstall] /\ rows' = rows
          /\ unclaimedRefusals' = [unclaimedRefusals EXCEPT ![t] = @ \ {sheet[t]}]
      BY <1>2 DEF Tell
    <2>2. told'[t] \in {"refused", "queued", "sent"} /\ sheet'[t] \notin Installs
      BY <2>1, InstallConstants DEF IInv, TypeOK
    <2>3. \A u \in Tabs \ {t} : told'[u] = told[u] /\ sheet'[u] = sheet[u]
                                /\ unclaimedRefusals'[u] = unclaimedRefusals[u]
      BY <2>1 DEF IInv, TypeOK
    <2> QED
      BY <2>1, <2>2, <2>3 DEF RefusalParked
  <1>3. CASE listMyInstalls(t) \/ sendInstallsNow(t) \/ \E i \in Installs : retryFailedInstall(t, i)
    BY <1>3, NothingRefused DEF listMyInstalls, sendInstallsNow, retryFailedInstall
  <1>4. ASSUME NEW i \in Installs, PutBack(t, i)
        PROVE  RefusalParked'
    <2>1. /\ rows' = [rows EXCEPT ![i] = revived[t][i]]
          /\ UNCHANGED <<sheet, told, unclaimedRefusals>>
      BY <1>4 DEF PutBack, putRecord
    <2>2. RefusedAtOnce(revived[t][i]) => FALSE
      BY DEF RefusedAtOnce, RevivedIsPending
    <2>3. \A j \in Installs : RefusedAtOnce(rows'[j]) => RefusedAtOnce(rows[j])
      BY <2>1, <2>2 DEF IInv, TypeOK
    <2> QED
      BY <2>1, <2>3, NothingRefused
  <1>5. ASSUME NEW i \in Installs, discardFailedInstall(t, i)
        PROVE  RefusalParked'
    <2>1. rows' = [rows EXCEPT ![i] = Absent] /\ UNCHANGED <<sheet, told, unclaimedRefusals>>
      BY <1>5 DEF discardFailedInstall, removeRecord, screenVars
    <2>2. \A j \in Installs : RefusedAtOnce(rows'[j]) => RefusedAtOnce(rows[j])
      BY <2>1, AbsentIsRecord DEF RefusedAtOnce, IInv, TypeOK
    <2> QED
      BY <2>1, <2>2, NothingRefused
  <1> QED
    BY <1>1, <1>2, <1>3, <1>4, <1>5 DEF PersonStep

LEMMA RevivedStaysPending ==
    ASSUME IInv, RevivedIsPending, [Next]_vars
    PROVE  RevivedIsPending'
  <1>1. CASE UNCHANGED revived
    BY <1>1 DEF RevivedIsPending
  <1>2. ASSUME NEW t \in Tabs, NEW i \in Installs, retryFailedInstall(t, i)
        PROVE  RevivedIsPending'
    <2> DEFINE r == [rows[i] EXCEPT !.status = "pending", !.attempts = 0, !.wait = FALSE]
    <2>1. rows[i] \in Record
      BY DEF IInv, TypeOK
    <2>2. r.status = "pending"
      BY <2>1 DEF Record
    <2> HIDE DEF r
    <2>3. revived' = [revived EXCEPT ![t][i] = r]
      BY <1>2 DEF retryFailedInstall, r
    <2> QED
      BY <2>2, <2>3 DEF RevivedIsPending, IInv, TypeOK
  <1>3. ASSUME NEW t \in Tabs, sendInstallsNow(t)
        PROVE  RevivedIsPending'
    <2> DEFINE waiting == {i \in Installs : rows[i].status = "pending" /\ rows[i].wait}
               next == [i \in Installs |-> IF i \in waiting THEN [rows[i] EXCEPT !.wait = FALSE] ELSE Absent]
    <2>1. \A i \in Installs : rows[i] \in Record
      BY DEF IInv, TypeOK
    <2>2. \A i \in Installs : next[i].status # "failed"
      BY <2>1, AbsentIsRecord DEF Record
    <2> HIDE DEF next, waiting
    <2>3. revived' = [revived EXCEPT ![t] = next]
      BY <1>3 DEF sendInstallsNow, next, waiting
    <2> QED
      BY <2>2, <2>3 DEF RevivedIsPending, IInv, TypeOK
  <1>4. ASSUME NEW t \in Tabs, NEW i \in Installs, PutBack(t, i)
        PROVE  RevivedIsPending'
    <2>1. revived' = [revived EXCEPT ![t][i] = Absent]
      BY <1>4 DEF PutBack
    <2> QED
      BY <2>1, AbsentIsRecord DEF RevivedIsPending, IInv, TypeOK
  <1>5. ASSUME NEW t \in Tabs, Crash(t)
        PROVE  RevivedIsPending'
    <2>1. revived' = [revived EXCEPT ![t] = Nothing]
      BY <1>5 DEF Crash
    <2> QED
      BY <2>1, AbsentIsRecord DEF RevivedIsPending, IInv, TypeOK
  <1>6. ASSUME NEW t \in Tabs, PassStep(t)
        PROVE  UNCHANGED revived
    BY <1>6 DEF PassStep, Skip, Take, RpcDone, PointsDone, HandOver, MediaDone, Drop,
                FailStage, EndPass, screenVars
  <1>7. ASSUME NEW t \in Tabs, PersonStep(t)
        PROVE  RevivedIsPending'
    <2>1. CASE (\E i \in Installs : Submit(t, i) \/ discardFailedInstall(t, i)) \/ Tell(t) \/ listMyInstalls(t)
      BY <1>1, <2>1 DEF Submit, discardFailedInstall, Tell, listMyInstalls, screenVars
    <2> QED
      BY <1>2, <1>3, <1>4, <1>7, <2>1 DEF PersonStep
  <1>8. ASSUME UNCHANGED vars \/ (\E t \in Tabs, own \in BOOLEAN : BeginPass(t, own))
               \/ (\E i \in Installs : WaitOver(i) \/ Award(i) \/ resolve_install_points(i))
               \/ (\E person \in People \cup {NoOne} : SignIn(person)) \/ (\E m \in wire : FinishUnit(m))
        PROVE  UNCHANGED revived
    BY <1>8 DEF vars, BeginPass, WaitOver, Award, resolve_install_points, SignIn, FinishUnit, screenVars
  <1> QED
    BY <1>1, <1>5, <1>6, <1>7, <1>8 DEF Next

LEMMA ParkedStays ==
    ASSUME OneTab, MAX_ATTEMPTS > 1, IInv, RefusalParked, RevivedIsPending, [Next]_vars
    PROVE  RefusalParked'
  <1>1. ASSUME NEW t \in Tabs, NEW own \in BOOLEAN, BeginPass(t, own)
        PROVE  RefusalParked'
    <2>1. told' = told \/ (told[t] = "wait" /\ told' = [told EXCEPT ![t] = "inPass"])
      BY <1>1 DEF BeginPass
    <2>2. \A u \in Tabs : told'[u] = told[u] \/ (told[u] = "wait" /\ told'[u] = "inPass")
      BY <2>1 DEF IInv, TypeOK
    <2> QED
      BY <1>1, <2>2, NothingRefused DEF BeginPass
  <1>2. ASSUME NEW t \in Tabs, Crash(t)
        PROVE  RefusalParked'
    <2>1. /\ sheet' = [sheet EXCEPT ![t] = NoInstall] /\ told' = [told EXCEPT ![t] = "nothing"]
          /\ unclaimedRefusals' = [unclaimedRefusals EXCEPT ![t] = {}] /\ rows' = rows
      BY <1>2 DEF Crash
    <2>2. told'[t] = "nothing" /\ sheet'[t] \notin Installs
      BY <2>1, InstallConstants DEF IInv, TypeOK
    <2>3. \A u \in Tabs \ {t} : told'[u] = told[u] /\ sheet'[u] = sheet[u]
                                /\ unclaimedRefusals'[u] = unclaimedRefusals[u]
      BY <2>1 DEF IInv, TypeOK
    <2> QED
      BY <2>1, <2>2, <2>3 DEF RefusalParked
  <1>3. ASSUME NEW i \in Installs, WaitOver(i)
        PROVE  RefusalParked'
    <2>1. /\ rows' = [rows EXCEPT ![i] = [rows[i] EXCEPT !.wait = FALSE]]
          /\ UNCHANGED <<sheet, told, unclaimedRefusals>>
      BY <1>3 DEF WaitOver, putRecord, screenVars
    <2>2. \A j \in Installs : RefusedAtOnce(rows'[j]) => RefusedAtOnce(rows[j])
      BY <2>1 DEF RefusedAtOnce, IInv, TypeOK, Record
    <2> QED
      BY <2>1, <2>2, NothingRefused
  <1>4. ASSUME UNCHANGED vars \/ (\E i \in Installs : Award(i) \/ resolve_install_points(i))
               \/ (\E person \in People \cup {NoOne} : SignIn(person)) \/ (\E m \in wire : FinishUnit(m))
        PROVE  RefusalParked'
    <2>1. UNCHANGED <<rows, sheet, told, unclaimedRefusals>>
      BY <1>4 DEF vars, Award, resolve_install_points, SignIn, FinishUnit, screenVars
    <2> QED
      BY <2>1 DEF RefusalParked
  <1> QED
    BY <1>1, <1>2, <1>3, <1>4, PassParks, PersonParks DEF Next

\* The refusal is told by the next thing the sheet says.
LEMMA TellIsTrue ==
    ASSUME IInv, RefusalParked, [Next]_vars, NEW t \in Tabs, told[t] = "flushed", told'[t] = "queued"
    PROVE  ~RefusedAtOnce(rows[sheet[t]])
  <1>1. ASSUME NEW u \in Tabs, Tell(u)
        PROVE  ~RefusedAtOnce(rows[sheet[t]])
    <2>1. /\ told' = [told EXCEPT ![u] = IF sheet[u] \in unclaimedRefusals[u] THEN "refused"
                                         ELSE IF sheet[u] \in Present(rows) THEN "queued" ELSE "sent"]
      BY <1>1 DEF Tell
    <2>2. u = t /\ sheet[t] \notin unclaimedRefusals[t]
      BY <2>1 DEF IInv, TypeOK
    <2> QED
      BY <2>2 DEF RefusalParked
  <1>2. ASSUME NEW u \in Tabs, ~Tell(u), PassStep(u) \/ PersonStep(u) \/ Crash(u)
        PROVE  FALSE
    <2>1. UNCHANGED told \/ told' = [told EXCEPT ![u] = "flushed"] \/ told' = [told EXCEPT ![u] = "wait"]
          \/ told' = [told EXCEPT ![u] = "nothing"]
      BY <1>2 DEF PassStep, PersonStep, Crash, Skip, Take, RpcDone, PointsDone, HandOver, MediaDone, Drop,
                  FailStage, EndPass, Submit, listMyInstalls, sendInstallsNow, retryFailedInstall, PutBack,
                  discardFailedInstall, screenVars
    <2> QED
      BY <2>1 DEF IInv, TypeOK
  <1>3. ASSUME UNCHANGED vars \/ (\E u \in Tabs, own \in BOOLEAN : BeginPass(u, own))
               \/ (\E i \in Installs : WaitOver(i) \/ Award(i) \/ resolve_install_points(i))
               \/ (\E person \in People \cup {NoOne} : SignIn(person)) \/ (\E m \in wire : FinishUnit(m))
        PROVE  FALSE
    <2>1. UNCHANGED told \/ \E u \in Tabs : told' = [told EXCEPT ![u] = "inPass"]
      BY <1>3 DEF vars, BeginPass, WaitOver, Award, resolve_install_points, SignIn, FinishUnit, screenVars
    <2> QED
      BY <2>1 DEF IInv, TypeOK
  <1> QED
    BY <1>1, <1>2, <1>3 DEF Next

-----------------------------------------------------------------------------
(* The theorems *)

\* Every reachable state of the store, the passes and the server is of its
\* declared type; in particular no record counts more failures than the cap.
THEOREM HandInTypes == Spec => []TypeOK
  <1>1. IInv => TypeOK
    BY DEF IInv
  <1> QED
    BY Invariance, <1>1, PTL

\* A submitted install stays on the phone until it is filed and its photos are
\* handed over, or a person throws it away, for any number of tabs, kills and
\* retries.
THEOREM HandInNeverLost == Spec => []InstallKept
  <1>1. IInv => InstallKept
    BY DEF IInv
  <1> QED
    BY Invariance, <1>1, PTL

\* No photo is handed over and no point paid for an install that is not filed,
\* from whatever copy of its record a tab works.
THEOREM HandInOrdered == Spec => []StagesInOrder
  <1>1. IInv => StagesInOrder
    BY DEF IInv
  <1> QED
    BY Invariance, <1>1, PTL

\* Across sign-ins at any moment, an install is filed only as its submitter.
THEOREM HandInAsSubmitter == Spec => []FiledAsSubmitter
  <1>1. IInv => FiledAsSubmitter
    BY DEF IInv
  <1> QED
    BY Invariance, <1>1, PTL

\* However often an install is filed again, its points are paid again only
\* after QC has voided them.
THEOREM HandInPaidOnce == Spec => []PaidOnce
  <1>1. IInv => PaidOnce
    BY DEF IInv
  <1> QED
    BY Invariance, <1>1, PTL

\* With one tab, and more than one try, a person is never told that an install
\* the server turned down at once is on its way, whichever pass met the refusal
\* and whatever waits, retries and sign-ins come between.
THEOREM RefusalIsHeard == OneTab /\ MAX_ATTEMPTS > 1 => (Spec => VerdictHeard)
  <1> SUFFICES ASSUME OneTab, MAX_ATTEMPTS > 1 PROVE Spec => VerdictHeard
    OBVIOUS
  <1> DEFINE Parked == IInv /\ RefusalParked /\ RevivedIsPending
             Heard == \A t \in Tabs :
                        told[t] = "flushed" /\ told'[t] = "queued" =>
                        ~(rows[sheet[t]].status = "failed" /\ rows[sheet[t]].attempts = 1)
  <1>1. Init => Parked
    <2>1. Init => RefusalParked /\ RevivedIsPending
      BY AbsentIsRecord, InstallConstants DEF Init, RefusalParked, RevivedIsPending
    <2> QED
      BY <2>1, InitInv
  <1>2. Parked /\ [Next]_vars => Parked'
    BY StepInv, ParkedStays, RevivedStaysPending
  <1>3. Parked /\ [Next]_vars => [Heard]_vars
    BY TellIsTrue DEF RefusedAtOnce
  <1> HIDE DEF Parked
  <1> QED
    BY <1>1, <1>2, <1>3, PTL DEF Spec, VerdictHeard
=============================================================================
