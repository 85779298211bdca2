----------------------------- MODULE DrainProofs -----------------------------
(***************************************************************************)
(* What holds of DrainScheduler however many invocations of runDrain are   *)
(* in hand.                                                                *)
(***************************************************************************)
EXTENDS DrainScheduler, TLAPS

LEMMA IInvInit == Init => IInv
  <1> SUFFICES ASSUME Init PROVE IInv
    OBVIOUS
  <1>1. TypeOK
    BY DEF Init, TypeOK
  <1>2. \A r \in Runs : ~Passing(r)
    BY DEF Init, Passing
  <1>3. OnePassAtATime /\ (draining <=> \E r \in Runs : Passing(r))
    BY <1>2 DEF Init, OnePassAtATime
  <1>4. NothingLeftOver /\ AskRemembered /\ (forceNextDrain => drainAgain)
    BY DEF Init, NothingLeftOver, AskRemembered
  <1>5. forcedPasses + (IF forceNextDrain THEN 1 ELSE 0) <= taps
    BY DEF Init
  <1> QED
    BY <1>1, <1>3, <1>4, <1>5 DEF IInv

\* A pass may begin where no other is on the queue; it takes the flags down.
LEMMA BeginPassKeeps ==
    ASSUME IInv, NEW r \in Runs, NEW force \in BOOLEAN, BeginPass(r, force),
           ~draining \/ Passing(r),
           UNCHANGED online, reconnected' \in BOOLEAN, taps' \in Nat,
           forcedPasses + (IF force THEN 1 ELSE 0) <= taps'
    PROVE  IInv'
  <1> USE DEF IInv, BeginPass
  <1>1. phase' \in [Runs -> {"idle", "pass", "forced", "cleanup"}]
    BY DEF TypeOK
  <1>2. phase'[r] \in {"pass", "forced"} /\ \A s \in Runs : s # r => phase'[s] = phase[s]
    BY DEF TypeOK
  <1>3. \A s \in Runs : s # r => ~Passing(s)
    BY DEF OnePassAtATime
  <1>4. \A s \in Runs : Passing(s)' <=> s = r
    BY <1>2, <1>3 DEF Passing
  <1>5. TypeOK'
    <2>1. forcedPasses' \in Nat
      BY DEF TypeOK
    <2>2. online' \in BOOLEAN /\ draining' \in BOOLEAN /\ owed' \in BOOLEAN
      BY DEF TypeOK
    <2>3. drainAgain' \in BOOLEAN /\ forceNextDrain' \in BOOLEAN
      OBVIOUS
    <2> QED
      BY <1>1, <2>1, <2>2, <2>3 DEF TypeOK
  <1>6. OnePassAtATime' /\ (draining <=> \E s \in Runs : Passing(s))'
    <2>1. (\E s \in Runs : Passing(s))' /\ draining' = TRUE
      BY <1>4
    <2>2. OnePassAtATime'
      BY <1>4 DEF OnePassAtATime
    <2> QED
      BY <2>1, <2>2
  <1>7. NothingLeftOver' /\ AskRemembered' /\ (forceNextDrain => drainAgain)'
    BY DEF NothingLeftOver, AskRemembered
  <1>8. (forcedPasses + (IF forceNextDrain THEN 1 ELSE 0) <= taps)'
    BY DEF TypeOK
  <1> QED
    BY <1>5, <1>6, <1>7, <1>8

\* A request, with the reconnect it came with, if any, and the tap it was.
LEMMA RunDrainKeeps ==
    ASSUME IInv, NEW force \in BOOLEAN, runDrain(force),
           UNCHANGED online, reconnected' \in BOOLEAN,
           taps' = IF force /\ online THEN taps + 1 ELSE taps
    PROVE  IInv'
  <1>1. CASE ~online /\ UNCHANGED <<phase, draining, flags, owed, forcedPasses>>
    BY <1>1 DEF IInv, TypeOK, flags, OnePassAtATime, Passing, NothingLeftOver, AskRemembered
  <1>2. CASE /\ online /\ draining
             /\ drainAgain' = TRUE
             /\ forceNextDrain' = (forceNextDrain \/ force)
             /\ owed' = TRUE
             /\ UNCHANGED <<phase, draining, forcedPasses>>
    <2>1. TypeOK' /\ OnePassAtATime' /\ AskRemembered'
      BY <1>2 DEF IInv, TypeOK, OnePassAtATime, Passing, AskRemembered
    <2>2. (draining <=> \E r \in Runs : Passing(r))' /\ NothingLeftOver'
      BY <1>2 DEF IInv, Passing, NothingLeftOver
    <2>3. (forcedPasses + (IF forceNextDrain THEN 1 ELSE 0) <= taps)'
      BY <1>2 DEF IInv, TypeOK
    <2> QED
      BY <1>2, <2>1, <2>2, <2>3 DEF IInv
  <1>3. ASSUME NEW r \in Runs, online, ~draining, BeginPass(r, forceNextDrain \/ force)
        PROVE  IInv'
    <2>1. forcedPasses + (IF forceNextDrain \/ force THEN 1 ELSE 0) <= taps' /\ taps' \in Nat
      BY <1>3 DEF IInv, TypeOK
    <2>2. (forceNextDrain \/ force) \in BOOLEAN
      OBVIOUS
    <2> QED
      BY <1>3, <2>1, <2>2, BeginPassKeeps
  <1> QED
    BY <1>1, <1>2, <1>3 DEF runDrain

\* An invocation that stops takes its pass off the queue and leaves the flags.
LEMMA StopPassingKeeps ==
    ASSUME IInv, NEW r \in Runs, Passing(r), StopPassing(r), UNCHANGED <<online, reconnected>>
    PROVE  IInv'
  <1> USE DEF IInv, StopPassing, flags, history
  <1>1. phase' \in [Runs -> {"idle", "pass", "forced", "cleanup"}]
    BY DEF TypeOK
  <1>2. phase'[r] = "cleanup" /\ \A s \in Runs : s # r => phase'[s] = phase[s] /\ ~Passing(s)
    BY DEF TypeOK, OnePassAtATime
  <1>3. \A s \in Runs : ~Passing(s)'
    BY <1>2 DEF Passing
  <1>4. TypeOK'
    BY <1>1 DEF TypeOK
  <1>5. OnePassAtATime' /\ (draining <=> \E s \in Runs : Passing(s))'
    BY <1>3 DEF OnePassAtATime
  <1>6. NothingLeftOver' /\ AskRemembered'
    BY <1>2 DEF NothingLeftOver, AskRemembered
  <1> QED
    BY <1>4, <1>5, <1>6

LEMMA CleanupKeeps == ASSUME IInv, NEW r \in Runs, CleanupEnds(r) PROVE IInv'
  <1>1. CASE online /\ drainAgain /\ ~draining /\ BeginPass(r, forceNextDrain)
    <2>1. forceNextDrain \in BOOLEAN /\ reconnected' \in BOOLEAN /\ taps' \in Nat
      BY DEF IInv, TypeOK, CleanupEnds
    <2>2. forcedPasses + (IF forceNextDrain THEN 1 ELSE 0) <= taps'
      BY DEF IInv, CleanupEnds
    <2> QED
      BY <1>1, <2>1, <2>2, BeginPassKeeps DEF CleanupEnds
  <1>2. CASE phase' = [phase EXCEPT ![r] = "idle"]
    <2>1. /\ phase[r] = "cleanup" /\ UNCHANGED <<draining, online, reconnected, history>>
          /\ \/ drainAgain' = FALSE /\ forceNextDrain' = FALSE /\ ~online
             \/ UNCHANGED flags /\ ~(drainAgain /\ ~draining)
      BY <1>1, <1>2 DEF CleanupEnds, BeginPass, history, flags, IInv, TypeOK
    <2>2. phase'[r] = "idle" /\ \A s \in Runs : s # r => phase'[s] = phase[s]
      BY <1>2 DEF IInv, TypeOK
    <2>3. \A s \in Runs : Passing(s)' <=> Passing(s)
      BY <2>1, <2>2 DEF Passing
    <2>4. TypeOK'
      BY <1>2, <2>1 DEF IInv, TypeOK, flags, history
    <2>5. OnePassAtATime' /\ (draining <=> \E s \in Runs : Passing(s))'
      BY <2>1, <2>3 DEF IInv, OnePassAtATime
    <2>6. NothingLeftOver'
      <3>1. draining => \E s \in Runs : phase'[s] # "idle"
        BY <2>3 DEF IInv, Passing
      <3> QED
        BY <2>1, <3>1 DEF IInv, NothingLeftOver, flags
    <2>7. /\ AskRemembered' /\ (forceNextDrain => drainAgain)'
          /\ (forcedPasses + (IF forceNextDrain THEN 1 ELSE 0) <= taps)'
      BY <2>1 DEF IInv, TypeOK, AskRemembered, flags, history
    <2> QED
      BY <2>4, <2>5, <2>6, <2>7 DEF IInv
  <1> QED
    BY <1>1, <1>2 DEF CleanupEnds

LEMMA StepKeeps == IInv /\ [Next]_vars => IInv'
  <1> SUFFICES ASSUME IInv, [Next]_vars PROVE IInv'
    OBVIOUS
  <1>1. CASE drain
    BY <1>1, RunDrainKeeps DEF drain, IInv, TypeOK
  <1>2. CASE sendNow
    BY <1>2, RunDrainKeeps DEF sendNow, IInv, TypeOK
  <1>3. ASSUME NEW r \in Runs, PassEnds(r) PROVE IInv'
    <2>1. CASE drainAgain /\ online /\ BeginPass(r, forceNextDrain)
      <3>1. /\ forceNextDrain \in BOOLEAN /\ reconnected' \in BOOLEAN /\ taps' \in Nat
            /\ forcedPasses + (IF forceNextDrain THEN 1 ELSE 0) <= taps'
        BY <1>3 DEF IInv, TypeOK, PassEnds
      <3> QED
        BY <1>3, <2>1, <3>1, BeginPassKeeps DEF PassEnds
    <2> QED
      BY <1>3, <2>1, StopPassingKeeps DEF PassEnds
  <1>4. ASSUME NEW r \in Runs, PassThrows(r) PROVE IInv'
    BY <1>4, StopPassingKeeps DEF PassThrows
  <1>5. ASSUME NEW r \in Runs, CleanupEnds(r) PROVE IInv'
    BY <1>5, CleanupKeeps
  <1>6. CASE GoOffline \/ GoOnline \/ UNCHANGED vars
    <2>1. /\ UNCHANGED <<phase, draining, flags, history>>
          /\ online' \in BOOLEAN /\ reconnected' \in BOOLEAN
          /\ owed /\ online' => drainAgain \/ reconnected'
      <3>1. CASE GoOffline
        BY <3>1 DEF GoOffline, IInv, TypeOK
      <3>2. CASE GoOnline
        BY <3>2 DEF GoOnline, IInv, TypeOK
      <3>3. CASE UNCHANGED vars
        BY <3>3 DEF vars, IInv, TypeOK, AskRemembered
      <3> QED
        BY <1>6, <3>1, <3>2, <3>3
    <2>2. TypeOK' /\ AskRemembered'
      BY <2>1 DEF IInv, TypeOK, AskRemembered, flags, history
    <2>3. /\ OnePassAtATime' /\ NothingLeftOver'
          /\ (draining <=> \E r \in Runs : Passing(r))' /\ (forceNextDrain => drainAgain)'
          /\ (forcedPasses + (IF forceNextDrain THEN 1 ELSE 0) <= taps)'
      BY <2>1 DEF IInv, OnePassAtATime, Passing, NothingLeftOver, flags, history
    <2> QED
      BY <2>2, <2>3 DEF IInv
  <1>7. CASE Reconnected
    BY <1>7, RunDrainKeeps DEF Reconnected
  <1> QED
    BY <1>1, <1>2, <1>3, <1>4, <1>5, <1>6, <1>7 DEF Next

THEOREM Invariance == Spec => []IInv
  BY IInvInit, StepKeeps, PTL DEF Spec

\* However many invocations and cleanups overlap, one pass is on the queue.
THEOREM NeverTwoPasses == Spec => []OnePassAtATime
  BY Invariance, PTL DEF IInv

\* An idle tab keeps no flag for a later request to find.
THEOREM NoOldTaps == Spec => []NothingLeftOver
  BY Invariance, PTL DEF IInv

\* A request taken up on a connected phone is remembered until a pass begins.
THEOREM AsksRemembered == Spec => []AskRemembered
  BY Invariance, PTL DEF IInv

\* No tap is spent on two passes.
THEOREM OneForcedPassPerTap == Spec => []ForcedOncePerTap
  <1>1. IInv => ForcedOncePerTap
    BY DEF IInv, TypeOK, ForcedOncePerTap
  <1> QED
    BY <1>1, Invariance, PTL
=============================================================================
