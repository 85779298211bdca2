------------------------------- MODULE Outbox -------------------------------
(***************************************************************************)
(* The phone's write queue (src/app/src/lib/offline): an IndexedDB store   *)
(* of writes shared by every tab of the app, and the drain each tab runs   *)
(* over it.  One action is one IndexedDB transaction or one message to the *)
(* server; what happens between two awaits in one tab's JavaScript, and    *)
(* touches nothing shared, is part of the step before it.                  *)
(*                                                                         *)
(* Abstracted: payloads (Ids, with their op and owner fixed by constants), *)
(* error texts (the three classes the retry rules tell apart), wall-clock  *)
(* time (0 .. Horizon, saturating).                                        *)
(***************************************************************************)
EXTENDS Integers, FiniteSets

CONSTANTS
    Ids,               \* entry ids (the idempotency keys)
    NoId,              \* "no dependency"
    Tabs,              \* tabs of the app open on this phone
    People,            \* accounts that sign in on this phone
    NoOne,             \* signed out
    Op,                \* [Ids -> Ops]
    Owner,             \* [Ids -> People]: ownerId
    ShiftRef,          \* the clock-in a punch names as "pending:<id>", or NoId
    Signature,         \* today's signature by the same person, or NoId
    StableIds,         \* ids the caller decides and may hand over again
    MAX_ATTEMPTS, BACKOFF_BASE, BACKOFF_CAP, MAX_DRAIN_PASSES,
    Horizon,           \* bound: the latest time told apart
    MaxEvents          \* bound: sign-ins, crashes, photos recovered, stuck-list taps

Ops == {"toolbox_sign", "clock_in", "clock_out", "break_start", "break_stop",
        "photo_upload", "receipt_upload", "other"}

ASSUME OutboxConstants ==
    /\ NoId \notin Ids
    /\ NoOne \notin People
    /\ IsFiniteSet(Ids)
    /\ Op \in [Ids -> Ops]
    /\ Owner \in [Ids -> People]
    /\ ShiftRef \in [Ids -> Ids \cup {NoId}]
    /\ Signature \in [Ids -> Ids \cup {NoId}]
    /\ StableIds \subseteq Ids
    /\ MAX_ATTEMPTS \in Nat \ {0}
    /\ BACKOFF_BASE \in Nat /\ BACKOFF_CAP \in Nat
    /\ MAX_DRAIN_PASSES \in Nat \ {0}
    /\ Horizon \in Nat
    /\ MaxEvents \in Nat

VARIABLES
    store,       \* the IndexedDB rows, shared by the tabs
    now,         \* Date.now()
    signedIn,    \* the session supabase.auth.getSession answers with
    pc,          \* where each tab's drain is
    due,         \* the entries the pass still has to attempt, as it read them
    tried,       \* ids the pass has attempted
    reread,      \* punches were looked for since the last other entry
    cur, curEntry, \* the entry being attempted, as the pass read it
    sentAny,     \* the pass sent something
    pass,        \* passes begun in this drain
    stranded,    \* entries a dead letter leaves behind, still to be failed
    listed,      \* ids the tab's stuck-writes screen shows as failed
    retry,       \* records a "Try again" tap has still to put
    shiftMap,    \* clock-ins whose server shift the phone knows (localStorage)
    wire,        \* requests the server may still receive
    filed,       \* writes the server has recorded
    events,      \* sign-ins, crashes, recoveries and stuck-list taps so far
    accepted,    \* history: ids ever put in the queue
    thrownAway   \* history: ids a person discarded

drainVars == <<pc, due, tried, reread, cur, curEntry, sentAny, pass, stranded>>
personVars == <<signedIn, listed, retry, accepted, thrownAway>>
serverVars == <<wire, filed>>
vars == <<store, now, drainVars, personVars, serverVars, shiftMap, events>>

-----------------------------------------------------------------------------
(* Entries *)

Statuses == {"queued", "sending", "failed"}

Entry == [status: Statuses \cup {"absent"}, attempts: 0 .. MAX_ATTEMPTS,
          nextAt: 0 .. Horizon, createdAt: 0 .. Horizon,
          dependsOn: Ids \cup {NoId}]

\* null: no row under this id
Absent == [status |-> "absent", attempts |-> 0, nextAt |-> 0,
           createdAt |-> 0, dependsOn |-> NoId]

Nothing == [i \in Ids |-> Absent]

Present(rows) == {i \in Ids : rows[i].status # "absent"}

\* A write as the server sees it: who it goes out as and what it waited on.
Message == [id: Ids, as: People, after: Ids \cup {NoId}]
FiledIds == {m.id : m \in filed}

isPending(e) == e.status \in {"queued", "sending"}

clockOps == {"clock_in", "clock_out", "break_start", "break_stop"}
laneOf(i) == IF Op[i] = "toolbox_sign" THEN 0
             ELSE IF Op[i] \in clockOps THEN 1 ELSE 2
isClockLaneOp(i) == laneOf(i) < 2

\* What the phone may try again by itself once it has failed.
isPhoto(i) == Op[i] \in {"photo_upload", "receipt_upload"}

\* Mutant: any session will do.
belongsTo_AnySession(i, person) == person # NoOne

belongsTo(i, person) == person # NoOne /\ Owner[i] = person

makeEntry(dep) == [status |-> "queued", attempts |-> 0, nextAt |-> now,
                   createdAt |-> now, dependsOn |-> dep]

\* Mutant: a row is read back as it is stored.
deserializeEntry_AsStored(e) == e

\* Every read of a row turns a "sending" mark back into the queued entry it
\* marked, so a reload never finds an entry stuck mid-send.
deserializeEntry(e) ==
    IF e.status = "sending" THEN [e EXCEPT !.status = "queued"] ELSE e

\* Mutant: only the status is compared.
sameState_StatusOnly(a, b) == deserializeEntry(a).status = deserializeEntry(b).status

sameState(a, b) == deserializeEntry(a) = deserializeEntry(b)

markSending(e) == [e EXCEPT !.status = "sending"]

computeBackoffMs(n) ==
    LET raw == BACKOFF_BASE * 2^n
    IN  IF raw \in 0 .. BACKOFF_CAP THEN raw ELSE BACKOFF_CAP

Later(ms) == IF now + ms \in 0 .. Horizon THEN now + ms ELSE Horizon

\* "transport": no answer, or the watchdog; "server": any other error worth a
\* retry; "permanent": a refusal.  The count saturates at MAX_ATTEMPTS, past
\* which only a camera photo goes on counting.
applyFailure(i, e, class) ==
    LET count == IF e.attempts < MAX_ATTEMPTS THEN e.attempts + 1 ELSE MAX_ATTEMPTS
        photoTransport == Op[i] = "photo_upload" /\ class = "transport"
        dead == class = "permanent" \/ (count >= MAX_ATTEMPTS /\ ~photoTransport)
    IN  [e EXCEPT !.attempts = count,
                  !.status = IF dead THEN "failed" ELSE "queued",
                  !.nextAt = IF dead THEN @ ELSE Later(computeBackoffMs(count))]

retryEntry(e) == [e EXCEPT !.status = "queued", !.attempts = 0, !.nextAt = now]

\* Mutant: only a pending dependency blocks.
isDue_PendingBlocks(rows, i, forceDue) ==
    LET e == deserializeEntry(rows[i])
    IN  /\ e.status = "queued"
        /\ forceDue \/ e.nextAt <= now
        /\ \A j \in Ids : e.dependsOn = j => ~isPending(rows[j])

\* A dependency blocks while it is in the queue at all, failed included.
isDue(rows, i, forceDue) ==
    LET e == deserializeEntry(rows[i])
    IN  /\ e.status = "queued"
        /\ forceDue \/ e.nextAt <= now
        /\ e.dependsOn = NoId \/ e.dependsOn \notin Present(rows)

dueEntries(rows, forceDue) ==
    [i \in Ids |-> IF isDue(rows, i, forceDue)
                   THEN deserializeEntry(rows[i]) ELSE Absent]

\* The sort of dueEntries: lane, then tap time; the id breaks a tie.
Before(list, i, j) ==
    \/ laneOf(i) < laneOf(j)
    \/ laneOf(i) = laneOf(j) /\ list[i].createdAt < list[j].createdAt

First(list, i) == /\ i \in Present(list)
                  /\ \A j \in Present(list) : ~Before(list, j, i)

\* What waits on i, transitively, and is not failed already.
waitingOn(rows, i) ==
    LET waiting == {j \in Present(rows) : rows[j].status # "failed"}
        reach[n \in Nat] ==
            IF n = 0 THEN {i}
            ELSE reach[n-1] \cup {j \in waiting : rows[j].dependsOn \in reach[n-1]}
    IN  {j \in waiting \ {i} : j \in reach[Cardinality(Ids)]}

\* What a permanent failure strands; a refused signature that is still in the
\* queue holds what waits on it instead.
cascadeFailure(rows, i) ==
    [j \in Ids |-> IF /\ Op[i] # "toolbox_sign" \/ i \notin Present(rows)
                      /\ j \in waitingOn(rows, i)
                   THEN deserializeEntry(rows[j]) ELSE Absent]

-----------------------------------------------------------------------------
Init ==
    /\ store = Nothing
    /\ now = 0
    /\ signedIn \in People \cup {NoOne}
    /\ pc = [t \in Tabs |-> "idle"]
    /\ due = [t \in Tabs |-> Nothing]
    /\ tried = [t \in Tabs |-> {}]
    /\ reread = [t \in Tabs |-> FALSE]
    /\ cur = [t \in Tabs |-> NoId]
    /\ curEntry = [t \in Tabs |-> Absent]
    /\ sentAny = [t \in Tabs |-> FALSE]
    /\ pass = [t \in Tabs |-> 0]
    /\ stranded = [t \in Tabs |-> Nothing]
    /\ listed = [t \in Tabs |-> {}]
    /\ retry = [t \in Tabs |-> Nothing]
    /\ shiftMap = {}
    /\ wire = {} /\ filed = {}
    /\ events = 0
    /\ accepted = {} /\ thrownAway = {}

\* One readwrite transaction: replace the row only if it is still what was
\* read.  Absent as the new row deletes it.
swap(i, expected, next) ==
    store' = IF sameState(store[i], expected)
             THEN [store EXCEPT ![i] = next] ELSE store

\* The bound on what people and the phone do to the queue.
Event == events < MaxEvents /\ events' = events + 1

-----------------------------------------------------------------------------
(* The drain of one tab *)

Snapshot(t, forceDue) ==
    /\ due' = [due EXCEPT ![t] = dueEntries(store, forceDue)]
    /\ tried' = [tried EXCEPT ![t] = {}]
    /\ reread' = [reread EXCEPT ![t] = FALSE]
    /\ sentAny' = [sentAny EXCEPT ![t] = FALSE]
    /\ pc' = [pc EXCEPT ![t] = "loop"]
    /\ UNCHANGED <<store, now, cur, curEntry, stranded, personVars, serverVars,
                   shiftMap, events>>

\* A drain starts: its first pass reads the store.  forceDue is "Send now".
StartDrain(t, forceDue) ==
    /\ pc[t] = "idle"
    /\ pass' = [pass EXCEPT ![t] = 1]
    /\ Snapshot(t, forceDue)

\* Mutant: the ceiling is off by one.
NextPass_OneMore(t) ==
    /\ pc[t] = "loop" /\ Present(due[t]) = {}
    /\ sentAny[t] /\ Present(store) # {} /\ pass[t] <= MAX_DRAIN_PASSES
    /\ pass' = [pass EXCEPT ![t] = @ + 1]
    /\ Snapshot(t, FALSE)

\* The pass is over; one that sent something is followed by another.
NextPass(t) ==
    /\ pc[t] = "loop" /\ Present(due[t]) = {}
    /\ sentAny[t] /\ Present(store) # {} /\ pass[t] < MAX_DRAIN_PASSES
    /\ pass' = [pass EXCEPT ![t] = @ + 1]
    /\ Snapshot(t, FALSE)

EndDrain(t) ==
    /\ pc[t] = "loop" /\ Present(due[t]) = {}
    /\ ~sentAny[t] \/ Present(store) = {} \/ pass[t] = MAX_DRAIN_PASSES
    /\ pc' = [pc EXCEPT ![t] = "idle"]
    /\ tried' = [tried EXCEPT ![t] = {}]
    /\ reread' = [reread EXCEPT ![t] = FALSE]
    /\ sentAny' = [sentAny EXCEPT ![t] = FALSE]
    /\ pass' = [pass EXCEPT ![t] = 0]
    /\ UNCHANGED <<store, now, due, cur, curEntry, stranded, personVars,
                   serverVars, shiftMap, events>>

\* Before an entry outside the clock lanes: the punches and signatures that
\* became due since the pass began join the work, ahead of it.
LookForPunches(t) ==
    /\ pc[t] = "loop" /\ ~reread[t]
    /\ Present(due[t]) # {} /\ \A i \in Present(due[t]) : ~isClockLaneOp(i)
    /\ due' = [due EXCEPT ![t] =
                 [i \in Ids |-> IF isClockLaneOp(i) /\ i \notin tried[t]
                                THEN dueEntries(store, FALSE)[i] ELSE @[i]]]
    /\ reread' = [reread EXCEPT ![t] = TRUE]
    /\ UNCHANGED <<store, now, pc, tried, cur, curEntry, sentAny, pass, stranded,
                   personVars, serverVars, shiftMap, events>>

\* Mark the next entry "sending", unless it is no longer what the pass read.
Attempt(t, i) ==
    LET e == due[t][i] IN
    /\ pc[t] = "loop" /\ First(due[t], i)
    /\ isClockLaneOp(i) \/ reread[t]
    /\ due' = [due EXCEPT ![t][i] = Absent]
    /\ tried' = [tried EXCEPT ![t] = @ \cup {i}]
    /\ reread' = [reread EXCEPT ![t] = @ /\ isClockLaneOp(i)]
    /\ swap(i, e, markSending(e))
    /\ IF sameState(store[i], e)
       THEN /\ pc' = [pc EXCEPT ![t] = "marked"]
            /\ cur' = [cur EXCEPT ![t] = i]
            /\ curEntry' = [curEntry EXCEPT ![t] = e]
       ELSE UNCHANGED <<pc, cur, curEntry>>
    /\ UNCHANGED <<now, sentAny, pass, stranded, personVars, serverVars,
                   shiftMap, events>>

BackToLoop(t) ==
    /\ pc' = [pc EXCEPT ![t] = "loop"]
    /\ cur' = [cur EXCEPT ![t] = NoId]
    /\ curEntry' = [curEntry EXCEPT ![t] = Absent]

\* Mutant: the pending id itself is sent.
shiftKnown_Pending(i) == ShiftRef[i] \in Ids \cup {NoId}

\* A break or clock-out on a queued clock-in needs the shift id that clock-in
\* was given; a switch names the clock-in it follows only to wait for it.
shiftKnown(i) == ShiftRef[i] \in shiftMap \cup {NoId} \/ Op[i] = "clock_in"

\* The handler: the session is read, the owner checked, and the request goes
\* out bound to that session's token.
Send(t) ==
    /\ pc[t] = "marked"
    /\ belongsTo(cur[t], signedIn)
    /\ shiftKnown(cur[t])
    /\ wire' = wire \cup {[id |-> cur[t], as |-> signedIn,
                           after |-> curEntry[t].dependsOn]}
    /\ pc' = [pc EXCEPT ![t] = "awaiting"]
    /\ UNCHANGED <<store, now, due, tried, reread, cur, curEntry, sentAny, pass,
                   stranded, personVars, filed, shiftMap, events>>

\* HeldForOwnerError: put back exactly as it was, over the mark alone.
Hold(t) ==
    /\ pc[t] = "marked"
    /\ ~belongsTo(cur[t], signedIn)
    /\ swap(cur[t], curEntry[t], curEntry[t])
    /\ BackToLoop(t)
    /\ UNCHANGED <<now, due, tried, reread, sentAny, pass, stranded, personVars,
                   serverVars, shiftMap, events>>

\* Mutant: a request handed over counts as sent.
Confirm_HandedOver(t) ==
    /\ pc[t] = "awaiting"
    /\ swap(cur[t], curEntry[t], Absent)
    /\ sentAny' = [sentAny EXCEPT ![t] = TRUE]
    /\ BackToLoop(t)
    /\ UNCHANGED <<now, due, tried, reread, pass, stranded, personVars,
                   serverVars, shiftMap, events>>

\* The server answered: it holds the write.  A keyed write it already held
\* answers the same way.
Confirm(t) ==
    /\ pc[t] = "awaiting" /\ cur[t] \in FiledIds
    /\ swap(cur[t], curEntry[t], Absent)
    /\ sentAny' = [sentAny EXCEPT ![t] = TRUE]
    /\ shiftMap' = IF Op[cur[t]] = "clock_in" THEN shiftMap \cup {cur[t]} ELSE shiftMap
    /\ BackToLoop(t)
    /\ UNCHANGED <<now, due, tried, reread, pass, stranded, personVars,
                   serverVars, events>>

recordFailure(t, class) ==
    LET next == applyFailure(cur[t], curEntry[t], class) IN
    /\ swap(cur[t], curEntry[t], next)
    /\ IF sameState(store[cur[t]], curEntry[t]) /\ next.status = "failed"
       THEN pc' = [pc EXCEPT ![t] = "cascade"] /\ UNCHANGED <<cur, curEntry>>
       ELSE BackToLoop(t)
    /\ UNCHANGED <<now, due, tried, reread, sentAny, pass, stranded, personVars,
                   filed, shiftMap, events>>

\* No answer, the send watchdog, or an error worth another try.  The request,
\* if it went out, may still reach the server.
FailSend(t, class) ==
    /\ pc[t] \in {"marked", "awaiting"}
    /\ class = "transport" \/ pc[t] = "awaiting" \/ ~shiftKnown(cur[t])
    /\ recordFailure(t, class)
    /\ UNCHANGED wire

\* The server refused this request for good.
Refuse(t) ==
    /\ pc[t] = "awaiting" /\ cur[t] \notin FiledIds
    /\ \E m \in wire : m.id = cur[t] /\ wire' = wire \ {m}
    /\ recordFailure(t, "permanent")

\* After the dead letter is recorded, in a transaction of its own, the store
\* is read again for what it strands ...
Cascade(t) ==
    /\ pc[t] = "cascade"
    /\ stranded' = [stranded EXCEPT ![t] = cascadeFailure(store, cur[t])]
    /\ pc' = [pc EXCEPT ![t] = "strand"]
    /\ UNCHANGED <<store, now, due, tried, reread, cur, curEntry, sentAny, pass,
                   personVars, serverVars, shiftMap, events>>

\* Mutant: a plain put.
Strand_Put(t, i) ==
    /\ pc[t] = "strand" /\ i \in Present(stranded[t])
    /\ store' = [store EXCEPT ![i] = [stranded[t][i] EXCEPT !.status = "failed"]]
    /\ stranded' = [stranded EXCEPT ![t][i] = Absent]
    /\ UNCHANGED <<now, pc, due, tried, reread, cur, curEntry, sentAny, pass,
                   personVars, serverVars, shiftMap, events>>

\* ... and each of those is failed in one more.
Strand(t, i) ==
    /\ pc[t] = "strand" /\ i \in Present(stranded[t])
    /\ swap(i, stranded[t][i], [stranded[t][i] EXCEPT !.status = "failed"])
    /\ stranded' = [stranded EXCEPT ![t][i] = Absent]
    /\ UNCHANGED <<now, pc, due, tried, reread, cur, curEntry, sentAny, pass,
                   personVars, serverVars, shiftMap, events>>

EndCascade(t) ==
    /\ pc[t] = "strand" /\ Present(stranded[t]) = {}
    /\ BackToLoop(t)
    /\ UNCHANGED <<store, now, due, tried, reread, sentAny, pass, stranded,
                   personVars, serverVars, shiftMap, events>>

\* The phone kills the tab; what it sent may still arrive.
Crash(t) ==
    /\ pc[t] # "idle" \/ Present(retry[t]) # {}
    /\ Event
    /\ pc' = [pc EXCEPT ![t] = "idle"]
    /\ due' = [due EXCEPT ![t] = Nothing]
    /\ tried' = [tried EXCEPT ![t] = {}]
    /\ reread' = [reread EXCEPT ![t] = FALSE]
    /\ cur' = [cur EXCEPT ![t] = NoId]
    /\ curEntry' = [curEntry EXCEPT ![t] = Absent]
    /\ sentAny' = [sentAny EXCEPT ![t] = FALSE]
    /\ pass' = [pass EXCEPT ![t] = 0]
    /\ stranded' = [stranded EXCEPT ![t] = Nothing]
    /\ listed' = [listed EXCEPT ![t] = {}]
    /\ retry' = [retry EXCEPT ![t] = Nothing]
    /\ UNCHANGED <<store, now, signedIn, accepted, thrownAway, serverVars, shiftMap>>

\* recoverPhotoUpload and recoverFailedTransportPhotos, when a tab opens or its
\* owner signs in: a camera photo that failed over the signal, or a photo that failed
\* over an index since repaired, is swapped back to queued with no tap.  Which
\* failed so is not told apart: any failed one may have.
RecoverPhoto(i) ==
    /\ isPhoto(i) /\ store[i].status = "failed"
    /\ belongsTo(i, signedIn)
    /\ Event
    /\ store' = [store EXCEPT ![i] = retryEntry(store[i])]
    /\ UNCHANGED <<now, drainVars, personVars, serverVars, shiftMap>>

-----------------------------------------------------------------------------
(* The person, the clock and the server *)

Tick ==
    /\ now < Horizon
    /\ now' = now + 1
    /\ UNCHANGED <<store, drainVars, personVars, serverVars, shiftMap, events>>

SignIn(person) ==
    /\ signedIn # person
    /\ Event
    /\ signedIn' = person
    /\ UNCHANGED <<store, now, drainVars, listed, retry, accepted, thrownAway,
                   serverVars, shiftMap>>

\* A punch waits on the queued clock-in it names; a clock-in that names none
\* waits on today's signature while that is still on the phone.
dependsOnFor(i) ==
    IF ShiftRef[i] # NoId THEN ShiftRef[i]
    ELSE IF Signature[i] \in Present(store) THEN Signature[i]
    ELSE NoId

\* The clock screens offer a break or clock-out on the shift of a clock-in
\* that is queued, or that the server already has; a failed one is not folded
\* into the shift they show.
offered(i) == LET ref == ShiftRef[i] IN
    ref # NoId => isPending(store[ref]) \/ (ref \notin Present(store) /\ ref \in FiledIds)

\* enqueue: a fresh id, or a caller's own id handed over (again).
Enqueue(i) ==
    /\ belongsTo(i, signedIn)
    /\ i \notin accepted \/ i \in StableIds
    /\ i \notin Present(store)
    /\ offered(i)
    /\ store' = [store EXCEPT ![i] = makeEntry(dependsOnFor(i))]
    /\ accepted' = accepted \cup {i}
    /\ UNCHANGED <<now, drainVars, signedIn, listed, retry, thrownAway,
                   serverVars, shiftMap, events>>

\* The stuck-writes screen reads its list.
listFailed(t) ==
    /\ listed' = [listed EXCEPT ![t] =
                    {i \in Ids : store[i].status = "failed" /\ belongsTo(i, signedIn)}]
    /\ listed' # listed
    /\ UNCHANGED <<store, now, drainVars, signedIn, retry, accepted, thrownAway,
                   serverVars, shiftMap, events>>

\* "Try again": the store is read once ...
retryFailed(t, i) ==
    /\ i \in listed[t] /\ Present(retry[t]) = {}
    /\ i \in Present(store)
    /\ retry' = [retry EXCEPT ![t] =
         [j \in Ids |-> IF j = i \/ (store[j].status = "failed" /\ store[j].dependsOn = i)
                        THEN retryEntry(store[j]) ELSE Absent]]
    /\ Event
    /\ UNCHANGED <<store, now, drainVars, signedIn, listed, accepted, thrownAway,
                   serverVars, shiftMap>>

\* ... and each record is put back, the tapped one first, whatever the row
\* has become meanwhile.
RetryPut(t, j) ==
    /\ j \in Present(retry[t])
    /\ retry[t][j].dependsOn \notin Present(retry[t])
    /\ store' = [store EXCEPT ![j] = retry[t][j]]
    /\ retry' = [retry EXCEPT ![t][j] = Absent]
    /\ UNCHANGED <<now, drainVars, signedIn, listed, accepted, thrownAway,
                   serverVars, shiftMap, events>>

\* "Throw away".
discardFailed(t, i) ==
    /\ i \in listed[t] /\ i \in Present(store)
    /\ store' = [store EXCEPT ![i] = Absent]
    /\ thrownAway' = thrownAway \cup {i}
    /\ Event
    /\ UNCHANGED <<now, drainVars, signedIn, listed, retry, accepted, serverVars,
                   shiftMap>>

\* A request reaches the server and is recorded under its key, once.
Land(m) ==
    /\ m \in wire
    /\ wire' = wire \ {m}
    /\ filed' = IF m.id \in FiledIds THEN filed ELSE filed \cup {m}
    /\ UNCHANGED <<store, now, drainVars, personVars, shiftMap, events>>

\* The reply of a send the drain had given up on still teaches the phone the
\* shift id.
LateReply(i) ==
    /\ Op[i] = "clock_in" /\ i \in FiledIds \ shiftMap
    /\ shiftMap' = shiftMap \cup {i}
    /\ UNCHANGED <<store, now, drainVars, personVars, serverVars, events>>

-----------------------------------------------------------------------------
DrainStep(t) ==
    \/ NextPass(t) \/ EndDrain(t) \/ LookForPunches(t)
    \/ \E i \in Ids : Attempt(t, i)
    \/ Send(t) \/ Hold(t) \/ Confirm(t)
    \/ \E class \in {"transport", "server"} : FailSend(t, class)
    \/ Refuse(t)
    \/ Cascade(t) \/ \E i \in Ids : Strand(t, i)
    \/ EndCascade(t)

PersonStep ==
    \/ \E person \in People \cup {NoOne} : SignIn(person)
    \/ \E i \in Ids : Enqueue(i)
    \/ \E t \in Tabs : listFailed(t)
    \/ \E t \in Tabs, i \in Ids : retryFailed(t, i)
    \/ \E t \in Tabs, i \in Ids : discardFailed(t, i)

Next ==
    \/ \E t \in Tabs, forceDue \in BOOLEAN : StartDrain(t, forceDue)
    \/ \E t \in Tabs : DrainStep(t)
    \/ \E t \in Tabs, i \in Ids : RetryPut(t, i)
    \/ \E t \in Tabs : Crash(t)
    \/ \E i \in Ids : RecoverPhoto(i)
    \/ PersonStep
    \/ Tick
    \/ \E m \in wire : Land(m)
    \/ \E i \in Ids : LateReply(i)

Spec == Init /\ [][Next]_vars

-----------------------------------------------------------------------------
(* What the queue promises *)

TypeOK ==
    /\ store \in [Ids -> Entry]
    /\ now \in 0 .. Horizon
    /\ signedIn \in People \cup {NoOne}
    /\ pc \in [Tabs -> {"idle", "loop", "marked", "awaiting", "cascade", "strand"}]
    /\ due \in [Tabs -> [Ids -> Entry]]
    /\ tried \in [Tabs -> SUBSET Ids]
    /\ reread \in [Tabs -> BOOLEAN]
    /\ cur \in [Tabs -> Ids \cup {NoId}]
    /\ curEntry \in [Tabs -> Entry]
    /\ sentAny \in [Tabs -> BOOLEAN]
    /\ pass \in [Tabs -> 0 .. MAX_DRAIN_PASSES]
    /\ stranded \in [Tabs -> [Ids -> Entry]]
    /\ listed \in [Tabs -> SUBSET Ids]
    /\ retry \in [Tabs -> [Ids -> Entry]]
    /\ shiftMap \subseteq Ids
    /\ wire \subseteq Message /\ filed \subseteq Message
    /\ events \in 0 .. MaxEvents
    /\ accepted \subseteq Ids /\ thrownAway \subseteq Ids

\* A write leaves the phone only once the server has it or a person threw it
\* away, whatever two tabs, the watchdog and events do to each other
\* (outbox.ts: "the write is already durably queued").
NothingLost == accepted \subseteq Present(store) \cup FiledIds \cup thrownAway

\* A write reaches the server only after the write it waited on was filed or
\* thrown away, and a break or clock-out only after its clock-in was filed,
\* also when the copy that lands is one the phone gave up on long ago.
FiledInOrder ==
    \A m \in filed :
        /\ m.after \in FiledIds \cup thrownAway \cup {NoId}
        /\ Op[m.id] # "clock_in" => ShiftRef[m.id] \in FiledIds \cup {NoId}

\* A write goes out only as the person who queued it, across sign-ins that
\* happen while it waits and while it is being sent.
FiledAsOwner == \A m \in filed : m.as = Owner[m.id]

FailedPhoto(i) == isPhoto(i) /\ store[i].status = "failed"

\* Only a person, or a caller handing its own id over again, brings back a
\* write that was given up, sent or thrown away (the phone brings back failed
\* photos): no late mark, late failure record, cascade or stale snapshot of
\* another tab does.
OnlyAPersonRevives ==
    [][\A i \in Ids :
         /\ store[i].status \in {"failed", "absent"}
         /\ store'[i].status \in {"queued", "sending"}
         => \/ i \notin accepted \/ i \in StableIds \/ FailedPhoto(i)
            \/ \E t \in Tabs : i \in Present(retry[t])
      ]_vars

\* Every failed attempt counts once: a record based on an old read never
\* takes an attempt back; only a new start does.
AttemptsCount ==
    [][\A i \in Ids :
         /\ {store[i].status, store'[i].status} \cap {"absent"} = {}
         /\ store'[i].attempts < store[i].attempts
         => FailedPhoto(i) \/ \E t \in Tabs : i \in Present(retry[t])
      ]_vars

-----------------------------------------------------------------------------
(* Progress *)

\* Failed, or waiting behind a failed write, directly or through others.
BehindFailed ==
    LET behind[n \in Nat] ==
          IF n = 0 THEN {i \in Present(store) : store[i].status = "failed"}
          ELSE behind[n-1] \cup {i \in Present(store) : store[i].dependsOn \in behind[n-1]}
    IN  behind[Cardinality(Ids)]

\* A tab looks again every 30 seconds and every step of a drain is bounded by
\* the watchdog; requests on the wire arrive.  A photo's signal comes back:
\* only its uploads may be retried without end.
Fairness ==
    /\ \A t \in Tabs : /\ WF_vars(StartDrain(t, FALSE))
                      /\ WF_vars(DrainStep(t))
                      /\ WF_vars(\E i \in Ids : RetryPut(t, i))
    /\ WF_vars(Tick)
    /\ \A m \in Message : WF_vars(Land(m))
    /\ \A t \in Tabs, i \in Ids : Op[i] = "photo_upload" =>
          /\ SF_vars(cur[t] = i /\ Send(t))
          /\ SF_vars(cur[t] = i /\ Confirm(t))

FairSpec == Spec /\ Fairness

\* While its owner stays signed in, a write in the queue leaves it or ends up
\* where the stuck-writes screen shows why: no write is held, backed off or
\* skipped for ever.
EventuallySettled ==
    \A i \in Ids :
        <>[](signedIn = Owner[i]) =>
            [](i \in Present(store) => <>(i \notin Present(store) \/ i \in BehindFailed))

-----------------------------------------------------------------------------
(* What the comments say of the drain and of "Try again", checked as said *)

\* outbox-core.ts:1025 of what waits on a dead letter: "Fail it here rather
\* than leaving it queued forever, invisible and uncounted."  With no drain
\* and no tap under way, nothing but a signature has queued writes behind it.
NoneQueuedBehindADeadLetter ==
    (\A t \in Tabs : pc[t] = "idle" /\ Present(retry[t]) = {}) =>
    \A i, j \in Present(store) :
        isPending(store[i]) /\ store[i].dependsOn = j /\ store[j].status = "failed"
        => Op[j] = "toolbox_sign"

\* outbox.ts:1820 of "Try again": "Also revives anything that was stranded
\* waiting on it".  What one tap sets out to put back includes every failed
\* write that waits on one of them.
RetryTakesTheWholeChain ==
    [][\A t \in Tabs :
         Present(retry[t]) = {} /\ Present(retry'[t]) # {} =>
         \A i \in Ids : store[i].status = "failed" /\ store[i].dependsOn \in Present(retry'[t])
                        => i \in Present(retry'[t])
      ]_vars

\* outbox-core.ts:445: "Order AMONG punches is still tap order, so a clock-in
\* goes before the break and the break before the clock-out".
PunchesGoInTapOrder ==
    [][\A m \in filed' \ filed, i \in Present(store) :
         /\ {m.id, i} \subseteq {j \in Ids : laneOf(j) = 1}
         /\ m.id \in Present(store) /\ isPending(store[i])
         /\ store[i].createdAt < store[m.id].createdAt
         => i \in FiledIds
      ]_vars

-----------------------------------------------------------------------------
(* The inductive invariant behind NothingLost, FiledInOrder and FiledAsOwner *)

\* What a write may have waited on for it to go out.
Done == FiledIds \cup thrownAway

\* Everything anywhere in the system was once put in the queue.
OnlyAccepted ==
    /\ Present(store) \cup Done \cup {m.id : m \in wire} \subseteq accepted
    /\ \A t \in Tabs :
         /\ Present(due[t]) \cup Present(stranded[t]) \cup Present(retry[t])
              \subseteq accepted
         /\ pc[t] \in {"marked", "awaiting", "cascade", "strand"} => cur[t] \in accepted

\* No row, and no copy of one that may be written back, waits on an id that
\* was never in the queue.
DependenciesAccepted ==
    \A i \in Ids :
        /\ store[i].dependsOn \in accepted \cup {NoId}
        /\ \A t \in Tabs : {stranded[t][i].dependsOn, retry[t][i].dependsOn}
                             \subseteq accepted \cup {NoId}

\* What a pass has taken up waits on nothing that is still open.
TakenUpIsClear ==
    \A t \in Tabs : /\ curEntry[t].dependsOn \in Done \cup {NoId}
                     /\ \A i \in Ids : due[t][i].dependsOn \in Done \cup {NoId}

\* So does every request, recorded or still on its way.
RequestsAreClear ==
    \A m \in wire \cup filed :
        /\ m.as = Owner[m.id]
        /\ m.after \in Done \cup {NoId}
        /\ Op[m.id] # "clock_in" => ShiftRef[m.id] \in FiledIds \cup {NoId}

ShiftsAreFiled == shiftMap \subseteq FiledIds

IInv == /\ TypeOK /\ NothingLost /\ OnlyAccepted /\ DependenciesAccepted
        /\ TakenUpIsClear /\ RequestsAreClear /\ ShiftsAreFiled
=============================================================================
