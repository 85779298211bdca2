---------------------------- MODULE InstallOutbox ----------------------------
(***************************************************************************)
(* The hand-in of an opening (src/app/src/lib/install/installOutbox.ts): a *)
(* record in IndexedDB that a flush takes through three stages, filing the *)
(* install, its points, its photos, writing the record back after each,    *)
(* and then drops.  Every write of a record is a plain put of the copy the *)
(* writer holds.  Flushes of one tab follow each other; those of two tabs  *)
(* do not know of each other.                                              *)
(*                                                                         *)
(* Abstracted: the payload (Installs, with their submitter), an install's  *)
(* photos (handed over together), and the length of a backoff (wait, which *)
(* is over at some moment).  A write to IndexedDB succeeds, and a row it   *)
(* returns can be read.                                                    *)
(***************************************************************************)
EXTENDS Integers, FiniteSets

CONSTANTS
    Installs, NoInstall,
    Tabs, NoTab, People, NoOne,
    Owner,             \* [Installs -> People]: ownerId
    MAX_ATTEMPTS,
    MaxEvents          \* bound: sign-ins, kills, taps on the stuck list, callbacks

ASSUME InstallConstants ==
    /\ NoInstall \notin Installs
    /\ NoTab \notin Tabs
    /\ NoOne \notin People
    /\ Owner \in [Installs -> People]
    /\ MAX_ATTEMPTS \in Nat \ {0}
    /\ MaxEvents \in Nat

VARIABLES
    rows,        \* the IndexedDB store, shared by the tabs
    signedIn,
    pc,          \* where each tab's flush is
    todo,        \* due records the pass has still to take, as it read them
    cur, curRec, \* the install being taken through, as this pass knows it
    revived,     \* rows a Retry or Send now tap has still to put
    listed,      \* installs the tab's stuck list shows as failed
    sheet,       \* [Tabs -> the submit a person is standing over]
    told,        \* what that person was told
    unclaimedRefusals, \* refusals the tab has parked for their submitter
    wire,        \* filings on their way
    asked,       \* installs an award is on its way for
    filings,     \* install events the server holds: 0, 1 or more (2)
    filedAs,     \* [Installs -> people they were filed as]
    paid,        \* times the points of an install were paid: 0, 1 or more (2)
    paidFor,     \* which of its filings the last row names: 0 for none
    sentBack,    \* installs whose points QC has voided
    handed,      \* installs whose photos are in the write queue
    events, submitted, thrownAway

passVars == <<pc, todo, cur, curRec>>
pointsVars == <<asked, paid, paidFor, sentBack>>
serverVars == <<wire, pointsVars, filings, filedAs>>
screenVars == <<revived, listed, sheet, told, unclaimedRefusals>>
historyVars == <<submitted, thrownAway>>
vars == <<rows, signedIn, passVars, screenVars, serverVars, handed, events, historyVars>>

-----------------------------------------------------------------------------
(* Records *)

Steps == {"queued", "rpc_done", "points_done", "media_done"}

Rank == [queued |-> 0, rpc_done |-> 1, points_done |-> 2, media_done |-> 3]

Record == [status: {"absent", "pending", "failed"}, step: Steps,
           attempts: 0 .. MAX_ATTEMPTS, wait: BOOLEAN]

Absent == [status |-> "absent", step |-> "queued", attempts |-> 0, wait |-> FALSE]
Nothing == [i \in Installs |-> Absent]
Present(rs) == {i \in Installs : rs[i].status # "absent"}

\* A filing on its way: whose install, as whom, and the tab that still waits
\* for its answer.
Filing == [id: Installs, as: People, to: Tabs \cup {NoTab}]

Unheard(t) == {IF m.to = t THEN [m EXCEPT !.to = NoTab] ELSE m : m \in wire}

nextInstallStep == [queued |-> "rpc_done", rpc_done |-> "points_done",
                    points_done |-> "media_done"]

stageToAttempt == [queued |-> "rpc", rpc_done |-> "points",
                   points_done |-> "media"]

\* Mutant: a failed try is the last.
isInstallDue_Once(r) == r.status = "pending" /\ ~r.wait /\ r.attempts = 0

isInstallDue(r) == r.status = "pending" /\ ~r.wait

\* Mutant: one try more than the cap.
applyInstallFailure_OneMore(r, permanent) ==
    LET count == r.attempts + 1
        givenUp == permanent \/ count > MAX_ATTEMPTS
    IN  [r EXCEPT !.attempts = count,
                  !.status = IF givenUp THEN "failed" ELSE "pending",
                  !.wait = ~givenUp]

\* Mutant: a failed stage counts as done.
applyInstallFailure_StepOn(r, permanent) ==
    LET count == r.attempts + 1
        givenUp == permanent \/ count >= MAX_ATTEMPTS
    IN  [r EXCEPT !.attempts = count,
                  !.status = IF givenUp THEN "failed" ELSE "pending",
                  !.step = IF @ = "queued" THEN "rpc_done" ELSE @,
                  !.wait = ~givenUp]

applyInstallFailure(r, permanent) ==
    LET count == r.attempts + 1
        givenUp == permanent \/ count >= MAX_ATTEMPTS
    IN  [r EXCEPT !.attempts = count,
                  !.status = IF givenUp THEN "failed" ELSE "pending",
                  !.wait = ~givenUp]

\* Mutant: any session will do.
installOwnership_Any(i, person) == person # NoOne

installOwnership(i, person) == Owner[i] = person

\* More than one is all that is told apart.
oneMore(n) == IF n = 0 THEN 1 ELSE 2

putRecord(i, r) == rows' = [rows EXCEPT ![i] = r]
removeRecord(i) == rows' = [rows EXCEPT ![i] = Absent]

Event == events < MaxEvents /\ events' = events + 1

Init ==
    /\ rows = Nothing
    /\ signedIn \in People \cup {NoOne}
    /\ pc = [t \in Tabs |-> "idle"]
    /\ todo = [t \in Tabs |-> Nothing]
    /\ cur = [t \in Tabs |-> NoInstall]
    /\ curRec = [t \in Tabs |-> Absent]
    /\ revived = [t \in Tabs |-> Nothing]
    /\ listed = [t \in Tabs |-> {}]
    /\ sheet = [t \in Tabs |-> NoInstall]
    /\ told = [t \in Tabs |-> "nothing"]
    /\ unclaimedRefusals = [t \in Tabs |-> {}]
    /\ wire = {} /\ asked = {}
    /\ filings = [i \in Installs |-> 0]
    /\ filedAs = [i \in Installs |-> {}]
    /\ paid = [i \in Installs |-> 0]
    /\ paidFor = [i \in Installs |-> 0] /\ sentBack = {}
    /\ handed = {}
    /\ events = 0
    /\ submitted = {} /\ thrownAway = {}

-----------------------------------------------------------------------------
(* A flush pass *)

\* flushInstallOutbox: the pass reads the store.  own is the pass the open
\* sheet asked for; the timer, the network and the stuck list ask for others.
BeginPass(t, own) ==
    /\ pc[t] = "idle"
    /\ own => told[t] = "wait"
    /\ told' = IF own THEN [told EXCEPT ![t] = "inPass"] ELSE told
    /\ todo' = [todo EXCEPT ![t] =
                  [i \in Installs |-> IF isInstallDue(rows[i]) THEN rows[i] ELSE Absent]]
    /\ pc' = [pc EXCEPT ![t] = "loop"]
    /\ UNCHANGED <<rows, signedIn, cur, curRec, revived, listed, sheet,
                   unclaimedRefusals, serverVars, handed, events, historyVars>>

\* installSender says no, or no stage is left: the record stays as it is.
Skip(t, i) ==
    /\ pc[t] = "loop" /\ i \in Present(todo[t])
    /\ ~installOwnership(i, signedIn) \/ todo[t][i].step \notin DOMAIN stageToAttempt
    /\ todo' = [todo EXCEPT ![t][i] = Absent]
    /\ UNCHANGED <<rows, signedIn, pc, cur, curRec, screenVars, serverVars, handed, events,
                   historyVars>>

\* Its session is the submitter's: the record goes on from the step it is at.
\* finish_unit goes out under that session.
Take(t, i) ==
    LET r == todo[t][i] IN
    /\ pc[t] = "loop" /\ i \in Present(todo[t])
    /\ signedIn # NoOne /\ installOwnership(i, signedIn)
    /\ r.step \in DOMAIN stageToAttempt
    /\ todo' = [todo EXCEPT ![t][i] = Absent]
    /\ pc' = [pc EXCEPT ![t] = stageToAttempt[r.step]]
    /\ cur' = [cur EXCEPT ![t] = i]
    /\ curRec' = [curRec EXCEPT ![t] = r]
    /\ wire' = IF r.step = "queued"
               THEN wire \cup {[id |-> i, as |-> signedIn, to |-> t]} ELSE wire
    /\ asked' = IF r.step = "rpc_done" THEN asked \cup {i} ELSE asked
    /\ UNCHANGED <<rows, signedIn, screenVars, filings, filedAs, paid, paidFor, sentBack,
                   handed, events, historyVars>>

\* The pass has done with this record.
ToNext(t) ==
    /\ pc' = [pc EXCEPT ![t] = "loop"]
    /\ cur' = [cur EXCEPT ![t] = NoInstall]
    /\ curRec' = [curRec EXCEPT ![t] = Absent]

\* The stage is done: the record is written at its next step.
advance(t) ==
    LET r == [curRec[t] EXCEPT !.step = nextInstallStep[@]] IN
    /\ putRecord(cur[t], r)
    /\ curRec' = [curRec EXCEPT ![t] = r]

\* finish_unit answered.
RpcDone(t) ==
    /\ pc[t] = "answered"
    /\ advance(t)
    /\ pc' = [pc EXCEPT ![t] = "points"]
    /\ asked' = asked \cup {cur[t]}
    /\ UNCHANGED <<signedIn, todo, cur, screenVars, wire, filings, filedAs, paid, paidFor,
                   sentBack, handed, events, historyVars>>

\* The award answered, or failed: the step advances either way.
PointsDone(t) ==
    /\ pc[t] = "points"
    /\ advance(t)
    /\ pc' = [pc EXCEPT ![t] = "media"]
    /\ UNCHANGED <<signedIn, todo, cur, screenVars, serverVars, handed, events,
                   historyVars>>

\* enqueueUpload, under the ids the record carries.
HandOver(t) ==
    /\ pc[t] = "media"
    /\ handed' = handed \cup {cur[t]}
    /\ pc' = [pc EXCEPT ![t] = "handed"]
    /\ UNCHANGED <<rows, signedIn, todo, cur, curRec, screenVars, serverVars,
                   events, historyVars>>

MediaDone(t) ==
    /\ pc[t] = "handed"
    /\ advance(t)
    /\ pc' = [pc EXCEPT ![t] = "drop"]
    /\ UNCHANGED <<signedIn, todo, cur, screenVars, serverVars, handed, events,
                   historyVars>>

\* Mutant: the record goes before the photos are handed over.
Drop_First(t) ==
    /\ pc[t] = "media"
    /\ removeRecord(cur[t])
    /\ ToNext(t)
    /\ UNCHANGED <<signedIn, todo, screenVars, serverVars, handed, events, historyVars>>

\* A transaction of its own after the last put.
Drop(t) ==
    /\ pc[t] = "drop"
    /\ removeRecord(cur[t])
    /\ ToNext(t)
    /\ UNCHANGED <<signedIn, todo, screenVars, serverVars, handed, events, historyVars>>

\* Mutant: a refusal is only part of the pass's own answer.
park_Nowhere(t, i) == UNCHANGED unclaimedRefusals

\* Where the submitter can collect it, whichever pass found it.
park(t, i) == unclaimedRefusals' = [unclaimedRefusals EXCEPT ![t] = @ \cup {i}]

\* The server said no, so it has filed nothing of this call.
Refusal(t) ==
    \E m \in wire : m.id = cur[t] /\ m.to = t /\ wire' = wire \ {m}

\* A stage threw: a refusal of finish_unit; no answer from it, though it may
\* have filed the install or may do so yet; or photos that were not stored.
FailStage(t, permanent) ==
    LET r == applyInstallFailure(curRec[t], permanent) IN
    /\ pc[t] \in {"rpc", "answered", "media"}
    /\ IF permanent THEN pc[t] = "rpc" /\ Refusal(t) ELSE wire' = Unheard(t)
    /\ putRecord(cur[t], r)
    /\ IF permanent /\ r.attempts = 1 THEN park(t, cur[t]) ELSE UNCHANGED unclaimedRefusals
    /\ ToNext(t)
    /\ UNCHANGED <<signedIn, todo, revived, listed, sheet, told, pointsVars, filings,
                   filedAs, handed, events, historyVars>>

EndPass(t) ==
    /\ pc[t] = "loop" /\ Present(todo[t]) = {}
    /\ pc' = [pc EXCEPT ![t] = "idle"]
    /\ told' = IF told[t] = "inPass" THEN [told EXCEPT ![t] = "flushed"] ELSE told
    /\ UNCHANGED <<rows, signedIn, todo, cur, curRec, revived, listed, sheet, unclaimedRefusals,
                   serverVars, handed, events, historyVars>>

Crash(t) ==
    /\ pc[t] # "idle" \/ sheet[t] # NoInstall \/ Present(revived[t]) # {}
    /\ Event
    /\ pc' = [pc EXCEPT ![t] = "idle"]
    /\ todo' = [todo EXCEPT ![t] = Nothing]
    /\ cur' = [cur EXCEPT ![t] = NoInstall]
    /\ curRec' = [curRec EXCEPT ![t] = Absent]
    /\ revived' = [revived EXCEPT ![t] = Nothing]
    /\ listed' = [listed EXCEPT ![t] = {}]
    /\ sheet' = [sheet EXCEPT ![t] = NoInstall]
    /\ told' = [told EXCEPT ![t] = "nothing"]
    /\ unclaimedRefusals' = [unclaimedRefusals EXCEPT ![t] = {}]
    /\ wire' = Unheard(t)
    /\ UNCHANGED <<rows, signedIn, pointsVars, filings, filedAs, handed, historyVars>>

-----------------------------------------------------------------------------
(* The person *)

\* enqueueInstall, for the person captured at the tap and still signed in.
Submit(t, i) ==
    /\ sheet[t] = NoInstall /\ i \notin submitted
    /\ signedIn # NoOne /\ installOwnership(i, signedIn)
    /\ putRecord(i, [status |-> "pending", step |-> "queued", attempts |-> 0, wait |-> FALSE])
    /\ submitted' = submitted \cup {i}
    /\ sheet' = [sheet EXCEPT ![t] = i]
    /\ told' = [told EXCEPT ![t] = "wait"]
    /\ UNCHANGED <<signedIn, passVars, revived, listed, unclaimedRefusals, serverVars,
                   handed, events, thrownAway>>

\* After its own pass the sheet claims its refusal, says how it went, closes.
Tell(t) ==
    LET i == sheet[t] IN
    /\ told[t] = "flushed"
    /\ told' = [told EXCEPT ![t] = IF i \in unclaimedRefusals[t] THEN "refused"
                                   ELSE IF i \in Present(rows) THEN "queued" ELSE "sent"]
    /\ unclaimedRefusals' = [unclaimedRefusals EXCEPT ![t] = @ \ {i}]
    /\ sheet' = [sheet EXCEPT ![t] = NoInstall]
    /\ UNCHANGED <<rows, signedIn, passVars, revived, listed, serverVars, handed, events,
                   historyVars>>

SignIn(person) ==
    /\ signedIn # person
    /\ Event
    /\ signedIn' = person
    /\ UNCHANGED <<rows, passVars, screenVars, serverVars, handed, historyVars>>

\* What the stuck list offers to retry or throw away.
listMyInstalls(t) ==
    /\ listed' = [listed EXCEPT ![t] =
          {i \in Installs : rows[i].status = "failed" /\ installOwnership(i, signedIn)}]
    /\ listed' # listed
    /\ UNCHANGED <<rows, signedIn, passVars, revived, sheet, told, unclaimedRefusals,
                   serverVars, handed, events, historyVars>>

\* Retry reads the row, and puts it back pending, at the step it reached.
retryFailedInstall(t, i) ==
    /\ i \in listed[t] /\ rows[i].status = "failed" /\ Present(revived[t]) = {}
    /\ revived' = [revived EXCEPT ![t][i] =
                     [rows[i] EXCEPT !.status = "pending", !.attempts = 0, !.wait = FALSE]]
    /\ Event
    /\ UNCHANGED <<rows, signedIn, passVars, listed, sheet, told, unclaimedRefusals,
                   serverVars, handed, historyVars>>

\* Send now reads every row, and puts those that wait back with no wait.
sendInstallsNow(t) ==
    LET waiting == {i \in Installs : rows[i].status = "pending" /\ rows[i].wait} IN
    /\ waiting # {} /\ Present(revived[t]) = {}
    /\ revived' = [revived EXCEPT ![t] =
          [i \in Installs |-> IF i \in waiting THEN [rows[i] EXCEPT !.wait = FALSE]
                              ELSE Absent]]
    /\ Event
    /\ UNCHANGED <<rows, signedIn, passVars, listed, sheet, told, unclaimedRefusals,
                   serverVars, handed, historyVars>>

PutBack(t, i) ==
    /\ i \in Present(revived[t])
    /\ putRecord(i, revived[t][i])
    /\ revived' = [revived EXCEPT ![t][i] = Absent]
    /\ UNCHANGED <<signedIn, passVars, listed, sheet, told, unclaimedRefusals, serverVars,
                   handed, events, historyVars>>

discardFailedInstall(t, i) ==
    /\ i \in listed[t] /\ i \in Present(rows)
    /\ removeRecord(i)
    /\ thrownAway' = thrownAway \cup {i}
    /\ Event
    /\ UNCHANGED <<signedIn, passVars, screenVars, serverVars, handed, submitted>>

\* nextAttemptAt passes.
WaitOver(i) ==
    /\ i \in Present(rows) /\ rows[i].wait
    /\ putRecord(i, [rows[i] EXCEPT !.wait = FALSE])
    /\ UNCHANGED <<signedIn, passVars, screenVars, serverVars, handed, events, historyVars>>

-----------------------------------------------------------------------------
(* The server *)

\* finish_unit: one more install event, whoever asked before.
FinishUnit(m) ==
    /\ m \in wire
    /\ wire' = wire \ {m}
    /\ filings' = [filings EXCEPT ![m.id] = oneMore(@)]
    /\ filedAs' = [filedAs EXCEPT ![m.id] = @ \cup {m.as}]
    /\ pc' = [t \in Tabs |-> IF m.to = t THEN "answered" ELSE pc[t]]
    /\ UNCHANGED <<rows, signedIn, todo, cur, curRec, screenVars, pointsVars, handed, events,
                   historyVars>>

\* Mutant: every call pays.
award_install_points_Each(i) ==
    IF filings[i] > 0
    THEN /\ paid' = [paid EXCEPT ![i] = oneMore(@)]
         /\ paidFor' = [paidFor EXCEPT ![i] = filings[i]]
    ELSE UNCHANGED <<paid, paidFor>>

\* The newest filing is paid for, unless a row of the unit is live, or a voided
\* one names that filing.
owed(i) ==
    /\ filings[i] > 0
    /\ paid[i] = 1 => i \in sentBack /\ paidFor[i] # filings[i]
    /\ paid[i] < 2

award_install_points(i) ==
    IF owed(i)
    THEN /\ paid' = [paid EXCEPT ![i] = oneMore(paid[i])]
         /\ paidFor' = [paidFor EXCEPT ![i] = filings[i]]
    ELSE UNCHANGED <<paid, paidFor>>

Award(i) ==
    /\ i \in asked
    /\ award_install_points(i)
    /\ asked' = asked \ {i}
    /\ UNCHANGED <<rows, signedIn, passVars, screenVars, wire, filings, filedAs, sentBack,
                   handed, events, historyVars>>

\* QC sends the unit back, once: its points are void.
resolve_install_points(i) ==
    /\ paid[i] = 1 /\ i \notin sentBack
    /\ sentBack' = sentBack \cup {i}
    /\ Event
    /\ UNCHANGED <<rows, signedIn, passVars, screenVars, wire, asked, filings, filedAs, paid,
                   paidFor, handed, historyVars>>

-----------------------------------------------------------------------------
PassStep(t) ==
    \/ \E i \in Installs : Skip(t, i) \/ Take(t, i)
    \/ RpcDone(t) \/ PointsDone(t) \/ HandOver(t) \/ MediaDone(t) \/ Drop(t)
    \/ \E permanent \in BOOLEAN : FailStage(t, permanent)
    \/ EndPass(t)

PersonStep(t) ==
    \/ \E i \in Installs : Submit(t, i)
    \/ Tell(t) \/ listMyInstalls(t) \/ sendInstallsNow(t)
    \/ \E i \in Installs : retryFailedInstall(t, i) \/ PutBack(t, i)
                            \/ discardFailedInstall(t, i)

Next ==
    \/ \E t \in Tabs, own \in BOOLEAN : BeginPass(t, own)
    \/ \E t \in Tabs : PassStep(t) \/ PersonStep(t) \/ Crash(t)
    \/ \E i \in Installs : WaitOver(i) \/ Award(i) \/ resolve_install_points(i)
    \/ \E person \in People \cup {NoOne} : SignIn(person)
    \/ \E m \in wire : FinishUnit(m)

Spec == Init /\ [][Next]_vars

\* Every 30 seconds a flush begins; a stage ends or fails; a wait is over.
Fairness ==
    /\ \A t \in Tabs : /\ WF_vars(\E own \in BOOLEAN : BeginPass(t, own))
                       /\ WF_vars(PassStep(t))
                       /\ WF_vars(\E i \in Installs : PutBack(t, i))
    /\ \A i \in Installs : WF_vars(WaitOver(i))

FairSpec == Spec /\ Fairness

-----------------------------------------------------------------------------
(* What a hand-in promises *)

TypeOK ==
    /\ rows \in [Installs -> Record]
    /\ signedIn \in People \cup {NoOne}
    /\ pc \in [Tabs -> {"idle", "loop", "rpc", "answered", "points", "media", "handed", "drop"}]
    /\ todo \in [Tabs -> [Installs -> Record]]
    /\ cur \in [Tabs -> Installs \cup {NoInstall}]
    /\ curRec \in [Tabs -> Record]
    /\ revived \in [Tabs -> [Installs -> Record]]
    /\ listed \in [Tabs -> SUBSET Installs]
    /\ sheet \in [Tabs -> Installs \cup {NoInstall}]
    /\ told \in [Tabs -> {"nothing", "wait", "inPass", "flushed", "refused", "queued", "sent"}]
    /\ unclaimedRefusals \in [Tabs -> SUBSET Installs]
    /\ wire \subseteq Filing /\ asked \subseteq Installs
    /\ filings \in [Installs -> 0 .. 2]
    /\ paid \in [Installs -> 0 .. 2] /\ paidFor \in [Installs -> 0 .. 2]
    /\ sentBack \subseteq Installs
    /\ filedAs \in [Installs -> SUBSET People]
    /\ handed \subseteq Installs
    /\ events \in 0 .. MaxEvents
    /\ submitted \subseteq Installs /\ thrownAway \subseteq Installs

\* A submitted install leaves the phone only when it is filed and its photos
\* are in the write queue, or a person threw it away, whatever two tabs that
\* write each other's records over, kills and retries do.
InstallKept ==
    \A i \in submitted : \/ i \in Present(rows) \/ i \in thrownAway
                         \/ filings[i] > 0 /\ i \in handed

\* Photos and points follow a filed install, also from a copy of the record
\* that another tab has overtaken.
StagesInOrder == \A i \in Installs : i \in handed \/ paid[i] > 0 => filings[i] > 0

\* An install is filed only as the person who submitted it.
FiledAsSubmitter == \A i \in Installs : filedAs[i] \subseteq {Owner[i]}

\* However often an install is filed and its award asked for, a second row of
\* points is written only once QC has voided the first.
PaidOnce == \A i \in Installs : paid[i] = 2 => i \in sentBack

\* The person standing over a submit is told of a refusal on its first try,
\* also when the pass of the tab that met it was not the one they asked for
\* (installOutbox.ts:565: "whichever pass produced it").  It holds of one tab:
\* another parks the refusal in a memory of its own.
VerdictHeard ==
    [][\A t \in Tabs :
         told[t] = "flushed" /\ told'[t] = "queued" =>
         ~(rows[sheet[t]].status = "failed" /\ rows[sheet[t]].attempts = 1)
      ]_vars

\* With its submitter signed in, an install is filed and its photos handed
\* over, or it ends where the stuck list shows it.
EventuallyReceived ==
    \A i \in Installs :
        <>[](signedIn = Owner[i]) =>
            [](i \in Present(rows) =>
                 <>(i \in handed \/ rows[i].status = "failed" \/ i \in thrownAway))

-----------------------------------------------------------------------------
(* What the comments say of the stages, checked as said *)

\* points_cap.sql:514: "a second call for an install already paid must be
\* ignored in silence", :516: "including when QC has since voided those points".
VoidedStaysVoided == \A i \in Installs : paid[i] < 2

\* installOutbox.ts:809: "The step is untouched, so a retry resumes instead of
\* repeating a stage (like the RPC) that already landed on the server."
StepNeverGoesBack ==
    [][\A i \in Present(rows) :
         rows'[i].status # "absent" => Rank[rows'[i].step] >= Rank[rows[i].step]]_vars

\* installOutbox.ts:608: "Replay pending installs in order: RPC -> points ->
\* enqueue media -> drop."
HandedOverIsDropped ==
    \A i \in Installs :
        <>[](signedIn = Owner[i]) =>
            [](rows[i].step = "media_done" => <>(i \notin Present(rows)))
=============================================================================
