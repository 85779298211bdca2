--------------------------- MODULE DrainScheduler ---------------------------
(***************************************************************************)
(* When a tab drains its queue (runDrain, src/app/src/lib/offline/         *)
(* outbox.ts).  A write, a focus, the interval, a sign-in, a reconnect or a *)
(* "Send now" tap asks for a drain.  One pass runs at a time; what is asked *)
(* meanwhile is remembered in two flags the passes and their cleanups      *)
(* share.  A cleanup awaits a refresh with the flags up for anybody, so    *)
(* several invocations are in hand at once.                                *)
(*                                                                         *)
(* A pass is one step from its read of the queue to its end: Outbox is     *)
(* what happens in it.                                                     *)
(***************************************************************************)
EXTENDS Integers

CONSTANTS
    Runs,      \* invocations of runDrain that may be in hand at once
    MaxTaps    \* bound: "Send now" taps

ASSUME SchedulerConstants == MaxTaps \in Nat

VARIABLES
    phase,           \* where each invocation is
    draining, drainAgain, forceNextDrain,
    online,          \* navigator.onLine
    reconnected,     \* the "online" event has still to be handled
    owed,            \* history: somebody asked since the last pass began
    taps,            \* history: "Send now" taps taken up
    forcedPasses     \* history: passes that ignored backoff

flags == <<drainAgain, forceNextDrain>>
history == <<owed, taps, forcedPasses>>
vars == <<phase, draining, flags, online, reconnected, history>>

Passing(r) == phase[r] \in {"pass", "forced"}

Init ==
    /\ phase = [r \in Runs |-> "idle"]
    /\ draining = FALSE /\ drainAgain = FALSE /\ forceNextDrain = FALSE
    /\ online \in BOOLEAN
    /\ reconnected = FALSE
    /\ owed = FALSE /\ taps = 0 /\ forcedPasses = 0

\* Mutant: a pass leaves the force flag up.
BeginPass_StillForced(r, force) ==
    /\ phase' = [phase EXCEPT ![r] = IF force THEN "forced" ELSE "pass"]
    /\ draining' = TRUE /\ drainAgain' = FALSE /\ owed' = FALSE
    /\ forcedPasses' = IF force THEN forcedPasses + 1 ELSE forcedPasses
    /\ UNCHANGED forceNextDrain

\* A pass begins: it will read the queue as it is from here on.
BeginPass(r, force) ==
    /\ phase' = [phase EXCEPT ![r] = IF force THEN "forced" ELSE "pass"]
    /\ draining' = TRUE
    /\ drainAgain' = FALSE
    /\ forceNextDrain' = FALSE
    /\ owed' = FALSE
    /\ forcedPasses' = IF force THEN forcedPasses + 1 ELSE forcedPasses

\* Mutant: a tap does not wait for the pass in progress.
runDrain_TapsGoFirst(force) ==
    /\ online /\ (draining => force)
    /\ \E r \in Runs : phase[r] = "idle" /\ BeginPass(r, forceNextDrain \/ force)

\* Offline a request is dropped, during a pass it is remembered, otherwise an
\* invocation takes it up at once.
runDrain(force) ==
    \/ ~online /\ UNCHANGED <<phase, draining, flags, owed, forcedPasses>>
    \/ /\ online /\ draining
       /\ drainAgain' = TRUE
       /\ forceNextDrain' = (forceNextDrain \/ force)
       /\ owed' = TRUE
       /\ UNCHANGED <<phase, draining, forcedPasses>>
    \/ /\ online /\ ~draining
       /\ \E r \in Runs : phase[r] = "idle" /\ BeginPass(r, forceNextDrain \/ force)

drain == runDrain(FALSE) /\ UNCHANGED <<online, reconnected, taps>>

sendNow ==
    /\ taps < MaxTaps
    /\ runDrain(TRUE)
    /\ taps' = IF online THEN taps + 1 ELSE taps
    /\ UNCHANGED <<online, reconnected>>

\* The invocation is done with the queue and awaits the refresh of the pill.
StopPassing(r) ==
    /\ phase' = [phase EXCEPT ![r] = "cleanup"]
    /\ draining' = FALSE
    /\ UNCHANGED <<flags, history>>

\* Mutant: the flags are taken down when a pass ends.
PassEnds_ClearsLate(r) ==
    /\ Passing(r)
    /\ phase' = [phase EXCEPT ![r] = "cleanup"]
    /\ draining' = FALSE /\ drainAgain' = FALSE /\ forceNextDrain' = FALSE
    /\ UNCHANGED <<online, reconnected, history>>

\* A pass ends; the loop goes round when somebody asked during it.
PassEnds(r) ==
    /\ Passing(r)
    /\ \/ drainAgain /\ online /\ BeginPass(r, forceNextDrain)
       \/ ~(drainAgain /\ online) /\ StopPassing(r)
    /\ UNCHANGED <<online, reconnected, taps>>

\* The store could not be read: the catch leaves the loop.
PassThrows(r) == Passing(r) /\ StopPassing(r) /\ UNCHANGED <<online, reconnected>>

\* Mutant: nothing is forgotten offline.
CleanupEnds_NothingForgotten(r) ==
    /\ phase[r] = "cleanup"
    /\ \/ online /\ drainAgain /\ ~draining /\ BeginPass(r, forceNextDrain)
       \/ /\ ~(online /\ drainAgain /\ ~draining)
          /\ phase' = [phase EXCEPT ![r] = "idle"]
          /\ UNCHANGED <<draining, flags, owed, forcedPasses>>
    /\ UNCHANGED <<online, reconnected, taps>>

\* Mutant: nothing is carried into a fresh invocation.
CleanupEnds_NothingCarried(r) ==
    /\ phase[r] = "cleanup"
    /\ phase' = [phase EXCEPT ![r] = "idle"]
    /\ drainAgain' = FALSE /\ forceNextDrain' = FALSE
    /\ UNCHANGED <<draining, online, reconnected, history>>

\* The refresh is over.  Offline, what was asked is forgotten; otherwise what
\* nobody has taken up begins a fresh invocation (in r's place).
CleanupEnds(r) ==
    /\ phase[r] = "cleanup"
    /\ \/ /\ ~online
          /\ phase' = [phase EXCEPT ![r] = "idle"]
          /\ drainAgain' = FALSE /\ forceNextDrain' = FALSE
          /\ UNCHANGED <<draining, owed, forcedPasses>>
       \/ online /\ drainAgain /\ ~draining /\ BeginPass(r, forceNextDrain)
       \/ /\ online /\ ~(drainAgain /\ ~draining)
          /\ phase' = [phase EXCEPT ![r] = "idle"]
          /\ UNCHANGED <<draining, flags, owed, forcedPasses>>
    /\ UNCHANGED <<online, reconnected, taps>>

\* The signal goes and comes; the browser tells the tab of the second a moment
\* after navigator.onLine has changed.
GoOffline ==
    /\ online /\ online' = FALSE
    /\ UNCHANGED <<phase, draining, flags, reconnected, history>>

GoOnline ==
    /\ ~online /\ online' = TRUE
    /\ reconnected' = TRUE
    /\ UNCHANGED <<phase, draining, flags, history>>

Reconnected ==
    /\ reconnected /\ reconnected' = FALSE
    /\ runDrain(FALSE)
    /\ UNCHANGED <<online, taps>>

Next ==
    \/ drain \/ sendNow
    \/ \E r \in Runs : PassEnds(r) \/ PassThrows(r) \/ CleanupEnds(r)
    \/ GoOffline \/ GoOnline \/ Reconnected

Spec == Init /\ [][Next]_vars

\* A send in a pass is bounded by the watchdog, a refresh is one read, and an
\* event is delivered.  Nobody is assumed to ask again: the interval would make
\* up for a lost request half a minute late.
FairSpec ==
    /\ Spec
    /\ \A r \in Runs : WF_vars(PassEnds(r) \/ PassThrows(r)) /\ WF_vars(CleanupEnds(r))
    /\ WF_vars(Reconnected)

-----------------------------------------------------------------------------
(* Properties *)

TypeOK ==
    /\ phase \in [Runs -> {"idle", "pass", "forced", "cleanup"}]
    /\ draining \in BOOLEAN /\ drainAgain \in BOOLEAN /\ forceNextDrain \in BOOLEAN
    /\ online \in BOOLEAN /\ reconnected \in BOOLEAN /\ owed \in BOOLEAN
    /\ taps \in Nat /\ forcedPasses \in Nat

\* However invocations and cleanups overlap, one pass of the tab is on the queue
\* at a time; Outbox models a tab on that footing (drain(): "only one drain runs
\* at a time").
OnePassAtATime == \A r, s \in Runs : Passing(r) /\ Passing(s) => r = s

\* Once the last invocation has let go, no flag is left for a later, unrelated
\* request to find: an old tap does not bypass backoff on a later reconnect.
NothingLeftOver == (\A r \in Runs : phase[r] = "idle") => ~drainAgain /\ ~forceNextDrain

\* Each pass that ignores backoff has a "Send now" tap of its own, so one tap
\* cannot use up the attempts of a failing write.
ForcedOncePerTap == forcedPasses <= taps

\* What was asked on a connected phone and not taken up yet is remembered: by the
\* flag, or, when an outage wiped it, by the event of the reconnect.
AskRemembered == owed /\ online => drainAgain \/ reconnected

\* On a phone that stays connected every request is followed by a pass that
\* begins after it, with nobody asking again.
EveryAskIsFollowed == <>[]online => (owed ~> ~owed)

\* The inductive invariant.
IInv ==
    /\ TypeOK
    /\ OnePassAtATime
    /\ draining <=> \E r \in Runs : Passing(r)
    /\ forceNextDrain => drainAgain
    /\ NothingLeftOver
    /\ AskRemembered
    /\ forcedPasses + (IF forceNextDrain THEN 1 ELSE 0) <= taps
=============================================================================
