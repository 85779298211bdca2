# The phone that owes the server: a verification of Infinity Windows

Infinity Windows is the work app of window-installing crews: a React application
installed on the phone (`src/app/src`), a Postgres database reached through
Supabase (`src/supabase/migrations`) and a set of server functions
(`src/supabase/functions`). Crews work where there is no signal, so the part
everything else stands on is the one that keeps a tap (a clock-in, a signature, a
photo, a hand-in of an opening) on the phone until the server has it. That is what
these modules specify first.

## Inventory

Concurrency on the phone is that of a browser: several tabs of one origin share
IndexedDB and localStorage, each tab is a single thread that can be interrupted at
every `await`, iOS kills tabs without notice, and the signed-in account can change
between any two awaits. On the server it is that of Postgres transactions.

| component | state it keeps | operations | talks to | what is hard | what makes it correct |
|---|---|---|---|---|---|
| write queue (`lib/offline/outbox*.ts`, `outboxStore.ts`, `entryOwner.ts`, `signedIn.ts`) | IndexedDB rows: op, payload, owner, status, attempts, next attempt, dependency; the drain's snapshot in each tab | enqueue, drain, swap, fail, cascade, hold, retry, discard | handlers, clock screens, stuck-writes screen, other tabs through the store | two tabs draining one store; a watchdog that gives up on a send still running; lost replies; a kill between two transactions; account changes | nothing lost, nothing ahead of what it waits on, nothing filed as somebody else, a dead letter stays dead until a person revives it, or, a photo, the phone |
| queue handlers (`outboxHandlers.ts`) | the map from a queued clock-in to its server shift (localStorage) | one handler per op, all keyed by the entry id | server RPCs, storage | late replies, a session that changed since the snapshot, a shift id not yet known | as above |
| drain scheduler (`outbox.ts`) | draining, drainAgain, forceNextDrain, the forced ids | runDrain, forceDrain, triggers | the write queue | a request to drain that arrives while one ends | no request to drain is dropped |
| install hand-in (`install/installOutbox.ts`) | IndexedDB records with a step and its results | enqueue, flush, retry, discard | RPCs, points, storage | steps re-run after a kill, blind writes of a record another flush moved on | each step's effect once, never a step backwards |
| legacy uploads (`install/legacyUploadQueue.ts`) | the old store and a migrated flag | migrate | write queue | two tabs migrating while one drains | an upload is moved once |
| signed toolbox (`outbox.ts`, `toolboxSign.ts`) | the last confirmed signature and one snapshot of answers in localStorage, a Map and a cached answer in each tab | sign, confirm, read, gate | clock-in gate, server | two tabs confirming in either order, answers asked earlier, a reload on the other tab's snapshot | an open gate stays open, a later confirmation is never replaced by an earlier one |
| values reviews (`outboxStore.ts`, `values/`) | draft, request, acknowledgment in one store | put draft, acknowledge | write queue | edit while the previous draft is sent | no edit lost to an acknowledgment |
| clock screens (`clockQueueView.ts`, `clockOneTap.ts`, `timeclock.ts`) | the server's shift folded with queued punches | tap, read | write queue, server | a view behind the store, an intent formed before a GPS wait | no second clock-in, no clock-out of another shift |
| clock on the server (`20261028000000_clock_integrity.sql`, `20261031000000_new_front_door.sql`, the roster and the office) | `time_shifts`, the ledger of one-time ids | clock_in, clock_out, breaks, corrections, approval | phones, roster, office | repeats and backdated taps in any order, doors that share no lock | no hour paid twice, the punches of a shift fit, approved time stands |
| toolbox signing on the server (`20261033000000_offline_toolbox_signing.sql`) | `toolbox_completions` | sign, gate | phones, the clock | phones ahead of the server, midnight | a signature opens its own day only |
| unit sessions and summons (`20260820000000_unit_sessions.sql` and its triggers, `summons`) | open rows of work, calls, seats, points | start, finish, block, break, call, answer, back out, expire | the clock, field work, sweeps | rows of several tables kept in step by triggers; a sweep over yesterday's calls | one thing at a time, a clock-out ends it all, seats and status and points agree |
| work capture journal (`workCapture/journal.ts`) | a command journal with leases | append, claim, settle | nothing yet | leases across tabs | a command is applied once, in order |
| custom work and servicing queues (`customWork`, `servicing`) | revisions of a unit, a visit and its media | save, send | server | an edit during a send | the last edit reaches the server |
| app update (`pwa/*`, `sw.ts`) | waiting worker, holds | check, hold, take over, reload | every queue | a reload with unsent or unsaved work | no reload over unsaved work, an update is not held for ever |
| offline PIN, offline session (`offlinePin.ts`, `offlineSession.ts`) | attempts, lock, remembered account | enter, lock, change account | write queue | an account change mid-flight | a lock holds across reloads |
| daily logs (`aiDailyLogs`, `dailyLogMerge.ts`) | drafts with revisions | edit, merge, save | server | two editors of one day | no edit overwritten unseen |
| AI spend guard (`spendGuard.ts`, `20260729230000_ai_spend_limits.sql`) | booked and spent amounts a month, calls a person and day, notices | reserve, settle, release, set limits | functions | bursts, row locks taken in two orders, a verdict that is lost | the quota holds in a burst, the meter is the sum of what stands, told once |
| crew invites (`crewInvites.ts`, `20260730010000_crew_invites.sql`) | invites, logins | create, redeem, revoke | auth | redeemed twice at once, half-made login | redeemed once |
| pipeline, trash, GC link, points, warehouse, sweeps | rows on the server | CRUD and stage changes | server | few interleavings of their own | |
| costing, overtime, bank, studio, fit view, knowledge, text | none | pure functions and rendering | | | results equal a definition |

`PROJECT.json` lists each of them with its files, and every hazard at its line.

## Modules

| module | what it is |
|---|---|
| `Outbox` | the queue, the drain of each tab, the people, the server as seen through keyed requests; properties; the inductive invariant |
| `OutboxProofs` | its theorems, proved with TLAPS |
| `WriteLedger` | what the queue owes whoever puts a write in it: a ledger with no drains, tabs, retries or messages |
| `OutboxLedger` | the mapping that makes the queue's state a ledger, and the two invariants the proof needs |
| `OutboxLedgerProofs` | that `Outbox` implements `WriteLedger`, and the action properties |
| `MCOutbox` | the instances TLC checks |
| `DrainScheduler` | when a tab drains: `runDrain` with its three flags; properties; the inductive invariant |
| `DrainProofs` | its theorems |
| `InstallOutbox` | the hand-in of an opening: the record, the flush of each tab stage by stage, the person at the sheet and at the stuck list, `finish_unit` and the award on the server; properties |
| `InstallProofs` | its inductive invariant and theorems |
| `MCInstall` | the instances TLC checks |
| `ServerClock`, `MCServerClock` | one person's time card on the server: the clock RPCs, the older overloads, the roster, the office's corrections |
| `ToolboxDay`, `MCToolboxDay` | one person's toolbox signatures: on the phone, filed, confirmed back to two tabs, and read by the gates in front of a clock-in |
| `SpendGuard`, `MCSpendGuard` | the meter of the paid AI calls: reserve, settle, release, the ceiling and its notices |
| `CallLedger`, `SpendLedger` | what the meter comes to once its rows and transactions are taken away, and how its state maps there |
| `UnitSessions` | what each person on the clock is working on, and what a break, a clock-out or a finish does to it |
| `Summons`, `MCSummons` | calls for hands; extends `UnitSessions`, whose rows an answer starts and an ending stops |
| `SummonProofs` | the theorems of `UnitSessions` with `Summons` |
| `ClockProofs`, `ToolboxProofs`, `SpendProofs` | the theorems of `ServerClock`, `ToolboxDay` and `SpendGuard` |

`DrainScheduler` is what `Outbox` takes for granted of a tab, that `StartDrain` happens
only when its drain is idle: a pass of the first is one run of `drainUntilSettled`,
all the steps from `StartDrain` to `EndDrain` of the second.

`Outbox` and `InstallOutbox` share no store. They meet at one call, `enqueueUpload`:
`HandOver` of the second is an `Enqueue` of the first, of photos that depend on
nothing, under ids the record carries; handing over again is the repeated
`Enqueue` that `Outbox` allows a photo.

### `Outbox`

One action is one IndexedDB transaction or one message. A tab's JavaScript between
two awaits touches nothing shared and belongs to the action before it.

| action | code |
|---|---|
| `StartDrain`, `NextPass`, `EndDrain` | `drainUntilSettled`: passes while something was sent, up to `MAX_DRAIN_PASSES`; `Snapshot` is `store.getAll` with `dueEntries` |
| `LookForPunches` | the re-read before an entry outside the clock lanes |
| `Attempt` | the swap to "sending"; the entry is skipped when the row is no longer what the pass read |
| `Send`, `Hold` | the handler: session read once, owner checked, request out under that session; `HeldForOwnerError` puts the row back |
| `Confirm`, `FailSend`, `Refuse` | the swap that ends an attempt: delete, retry later or dead letter |
| `Cascade`, `Strand`, `EndCascade` | the second read after a dead letter, and one transaction for each entry it strands |
| `Crash` | the tab is killed at any await |
| `RecoverPhoto` | the start of a tab, or a sign-in: `recoverPhotoUpload`, `recoverFailedTransportPhotos` |
| `Enqueue` | `enqueue` with the dependency the clock screens give a punch |
| `listFailed`, `retryFailed`, `RetryPut`, `discardFailed` | the stuck-writes screen |
| `Land`, `LateReply` | the server: a keyed request is recorded once, whenever it arrives; its reply may come after the watchdog gave up |
| `SignIn`, `Tick` | the account and the clock |

Every read of a row goes through `deserializeEntry`, which turns a "sending" mark
back into the queued entry it marked; `swap` is the compare-and-swap of
`outboxStore.ts`, which compares rows after that same step. So what else a start does
to the rows, `requeueStranded`, changes nothing a read tells apart. An abandoned send may
later mark or fail a row only through `swap`, which is why a late handler needs no
state of its own beyond the request on the `wire`.

What is abstracted: payloads (an id fixes the op, the owner and what the punch refers
to), the texts of errors (three classes), wall-clock time (a counter that saturates at
`Horizon`), the attempt count (saturates at `MAX_ATTEMPTS`; only a photo counts past it
and nothing depends on how far). A failed row keeps no error text, so `RecoverPhoto` may
take any failed photo of the person signed in; the code takes those whose error reads as
one of the signal, or of an index since repaired. An `issue_photo_upload` is a photo
like any other; the receipt's photo (`receipt_upload`) is recovered for the index only
and otherwise fails as other writes do. The screens show the current store: that their
copy lags a refresh behind is listed as a hazard and planned. That `enqueueClockIn`
reads the pending signature a moment before it writes is in `ToolboxDay`.

### `WriteLedger` and `OutboxLedger`

The ledger says what the queue comes to once the machinery is taken away. A write is
accepted, then open; it is filed by the server once, as its owner's, after what it
waited on; it leaves the phone when it is filed, or when a person throws it away; it
may be given up on, and then only a person who asked for it brings it back, unless it
is a photo.

| ledger | queue |
|---|---|
| `open`, `dead` | rows present, rows failed |
| `tapped` | the records a "Try again" tap in some tab has still to put |
| `accepted`, `filed`, `thrownAway` | the same |
| `Accept` | `Enqueue` |
| `File` | `Land` of a request not recorded before |
| `Settle` | `Confirm`, when its swap finds what it marked |
| `GiveUp` | a failure that is the last, or `Strand` |
| `Tap`, `Revive`, `Forget` | `retryFailed`, `RetryPut`, `Crash` |
| `Recover` | `RecoverPhoto` |
| `ThrowAway` | `discardFailed` |

Everything else (snapshots, marks, backoff, holds, late replies, sign-ins) is no
step of the ledger.

### `DrainScheduler`

One action is one turn of a tab's event loop. `phase` holds the invocations of
`runDrain` in hand: one on the queue, any number in the cleanup that awaits a refresh.

| action | code |
|---|---|
| `drain`, `sendNow` | a request, from a write, focus, the interval, a sign-in or the start; a "Send now" tap |
| `Reconnected` | the "online" event, a moment after `navigator.onLine` changed |
| `PassEnds`, `PassThrows` | `drainUntilSettled` returns, and the loop goes round or not; or it throws |
| `CleanupEnds` | after `finally`'s refresh: forget offline, carry a request into a fresh invocation, or leave |
| `GoOffline`, `GoOnline` | the signal |

A tab that is killed starts over from `Init`, so a kill is not an action. The history
variables `owed`, `taps` and `forcedPasses` are not in the code.

### `InstallOutbox`

One action is one IndexedDB transaction, one answer, or one message. The records
are written with a plain put, so a pass works on `curRec`, the copy it took when it
read the store, and what another tab recorded meanwhile is overwritten. Passes of
one tab follow each other (`flushChain`); those of two tabs do not.

| action | code |
|---|---|
| `BeginPass`, `EndPass` | `flushInstallOutbox`, `runFlushPass`: one read of the store; `own` marks the pass the open sheet waits for |
| `Skip`, `Take` | `installSender`: the session read for each record; the record goes on from the step it is at |
| `RpcDone`, `PointsDone`, `HandOver`, `MediaDone`, `Drop` | the three stages; after each the record is put at its next step, and the delete is a transaction of its own |
| `FailStage` | the catch: `applyInstallFailure`, the put, and a refusal on the first try parked for its submitter |
| `Crash` | the tab is killed at any await; refusals it had parked go with it |
| `Submit`, `Tell` | `submitInstallViaOutbox`: the record, a pass, then what the person is told |
| `listMyInstalls`, `retryFailedInstall`, `sendInstallsNow`, `PutBack`, `discardFailedInstall` | the stuck list: the read and the put are two steps |
| `WaitOver` | `nextAttemptAt` passes |
| `FinishUnit` | `finish_unit`: an install event for each call that arrives, whenever it does |
| `Award`, `resolve_install_points` | the award of the newest event, once or again after a void; QC's void |
| `SignIn` | the account changes |

What is abstracted: the payload (an install and its submitter), the photos of an
install (handed over together), the length of a wait (a flag that goes down at some
moment), counts beyond one more than the first (`filings` and `paid` are 0, 1 or 2),
and two awards of one install on their way at once (they are one). A finish_unit
call whose tab no longer listens is on the wire without an addressee. A write to
IndexedDB succeeds and a row it returns can be read. A callback of QC is one per
install.

### `ServerClock`

One action is one RPC, that is one transaction, where it locks the row of the shift it
writes. A clock-in has no row yet, so it is two actions, what it read and what it
commits; the keyed overload holds a lock of the person's and runs alone among its
kind, the others do not. `clock_out_for`, `finish_shift_at` and `close_shift_as_no_work`
look with no lock and then write by the row's id alone, so they may land on a row
another call has written since: their guards ask only that the row was open, or had no
finish, at some moment of this hour (`wasOpen`, `wasUnended`). A refused call changes
nothing and is not an action.

| action | code |
|---|---|
| `Tap` | a punch made on a phone, on the shift its screen shows (`mergeClockQueue`, `oneTapFits`), with the time of the tap; on some phones that time may not be used |
| `BeginClockIn`, `CommitClockIn` | `clock_in` in its overloads and `clock_in_for`; `CloseDangling`, `PreviousEnd` and `StartOf` are what it does to the shift before and where it starts |
| `ClockOut`, `StartBreak`, `EndBreak` | the keyed RPCs; `PickTime` chooses between the tap and the arrival, `Record` is the ledger a repeat is answered from |
| `LegacyClockOut`, `LegacyStartBreak`, `LegacyEndBreak` | the signatures old bundles call |
| `ClockOutFor` | the roster |
| `Void`, `Restore`, `Reject`, `FinishAt`, `EditShift`, `CloseAsNoWork`, `ApproveWeek`, `Unapprove` | the office |

The order in which a phone's punches are sent is `Outbox`; here they arrive in any
order, once or again, or never, so nothing that holds depends on the phone's care.
A clock-out carries the break total the phone shows at its tap (`PhoneBreak`), or none,
and then the row's counts. What the phone shows (`Shown`, `applyQueued` of
`clockQueueView.ts`) is the row with the phone's own queued punches folded over it in
the order of their taps. `crossed` is a history variable: the pairs of rows whose
clock-ins ran at once. So is `mixed`: the shifts a break punch
reached before one tapped earlier, or whose break an old bundle moved. There the row
may have counted a break the phone counts again, and `PunchesFit` says nothing of the
total; see `BreakCountsOnce` under Findings.

### `ToolboxDay`

One action is one RPC, one answer, or what a tab does between two awaits.

| action | code |
|---|---|
| `Sign`, `TryAgain` | `signToolboxTalk`, and Try again on a refused one |
| `Send` | `sign_toolbox_talk`: `SignedAt` is the time the signature counts for, `WrongDaysTalk` the one refusal |
| `Confirm` | the handler's answer: `recordConfirmedSignature` and the listener of `useToolboxToday` |
| `AskForge`, `Hear` | a read of today's signature, and its answer some time later |
| `Look` | the Map of a tab filled on first use |
| `Save`, `Reload` | the persister of `queryClient.ts`: a tab writes all its answers over the one snapshot the tabs share; the page opened again starts from it |
| `TapIn`, `Put`, `SendIn` | `enqueueClockIn`: the read of the signature to follow, then the put; then the queue and the gate of `clock_in` |
| `Repoint` | `assignTalk`: the day's talk deleted before anybody signed it, another in its place |

The phone's clock may run ahead of the server's by `MaxAhead` throughout. What the
queue does to a row is in `Outbox`; the two actions that concern it are that a
signature is sent until it is confirmed or refused, and that a clock-in waits while
the signature it follows is on the phone. The gate is the one that asks for a
signature before the clock (`paid_time_from_start_day_on` not reached).

The snapshot is whole and written at most once a second, so a reload may bring back the
other tab's older answer, or lose a read. A tab that says signed from Forge's row, read
before that row's confirmation, may then say so no longer; but until the confirmation
comes the signature is on the phone and keeps the gate open, and after it the phone's
own record does. This is what `GateStaysOpen` says, and why it speaks of the gate and
not of one tab's answer. Its exceptions are of a signature leaving the phone: it was
filed for another day, or another tab heard its confirmation while this one remembers an
older one until the queue has been read again. The gate's view of the queue is taken as
current; rows filed for the person from elsewhere (a group sign-in, another phone) are
not modelled. A talk is replaced at once and at most once a day.

### `SpendGuard`

Rows stay locked to the end of a transaction, so what it writes is shown when it
commits. A reservation takes the person's day row and then the month row; a
settlement, and a release that hands the count back, take the month row and then the
day row.

| action | code |
|---|---|
| `BeginReserve`, `FinishReserve` | `ai_spend_reserve` up to its first row, and from there to its verdict; `Heard` is `reserveAiSpend`, which lets a call through when no verdict comes |
| `BeginFinish`, `Finish` | `ai_spend_settle` and `ai_spend_release` |
| `Deadlock` | Postgres ends one of two transactions that wait for each other |
| `SetLimits` | `ai_spend_set_limits`, the ceiling changed or another setting |

A month stands for a day too: the days of one month differ in nothing the meter reads.

The limit and the ceiling are tested in the `ON CONFLICT DO UPDATE` of the two upserts,
so where the row is not there yet it is inserted untested (`HasDayRow`, `HasMonthRow`):
the first question of a day and the first call of a month pass whatever the limit, and
both may be zero. The daily limit is any of `Limits` and stays as it is. A call that was
denied and went out all the same, its verdict lost, is `unheard`; one whose reservation
the database ended is `unmetered`.

`CallLedger` says what this comes to: an entry for each call that was let through on a
verdict, admitted in one step as the first of its day and month, or below the limit and
below a ceiling by what stands in the ledger, and closed once. `SpendLedger` maps a call
to its entry from the commit of its reservation (`entries`); the counters, the locks,
the halves of transactions and the deadlocks are no part of it, and neither is a call
that went out with no verdict (`unheard`, `unmetered`). Any of the ceilings the owner
may set will do for an admission: the guard reads the settings before it takes a row.

### `UnitSessions` and `Summons`

One action is one RPC with every trigger it fires. `running` is the set of open rows
of a person in `unit_sessions` and in the tables of field work that exclude them.

| action | code |
|---|---|
| `StartUnit`, `StartField`, `Reattribute`, `FinishUnit`, `BlockUnit`, `PressRedo` | the RPCs of the unit sheet; a finish or a block may start the next unit (`Chain`) |
| `StartBreak`, `EndBreak`, `ClockOut`, `Void`, `ClockIn` | the shift, as `unit_sessions_follow_shift`, `service_follow_shift` and `custom_work_follow_shift` see it |
| `BeginSummon`, `CreateSummon` | `create_summon` and `create_job_summon`: a look for a live call with no lock, and the insert |
| `AnswerSummon`, `CancelHelp`, `CompleteHelp`, `CloseSummon` | the RPCs, with the trigger that starts or stops the helper's row |
| `Age`, `ExpireSummon` | a day passes; the sweep |

`start_unit_session` and `answer_summon` look for an open shift with no lock and insert
the row of work later, and a finish or a block that chains does both; a clock-out
through another door may commit in between. Whether it does is chosen at the clock-out,
which puts the person in `late`; their next start, chain or answer may then be the one that
looked before. Field work takes the shift's row, and on a break is accepted only with
the time of a tap made before it and where nothing has been recorded since.

`paused` keeps what the code reads again of the rows that ended: how many breaks ago one
last took a person off an opening. The toolbox gate and the flashing gate, which only
refuse, are left out.

## Runs

| run | instance | checks |
|---|---|---|
| `outbox_two_tabs` | clock-in and clock-out, two tabs, backoff and a second pass, one event | `NothingLost`, `FiledInOrder`, `AttemptsCount`, `KeepsLedger` |
| `outbox_shared_phone` | two people, one photo handed over again under its own id, time, two events, fairness | `TypeOK`, `FiledAsOwner`, `EventuallySettled` |
| `outbox_killed_mid_cascade` | violated: a kill between dead letter and cascade | `NoneQueuedBehindADeadLetter` |
| `drain_one_tab` | three invocations in hand, three taps, any number of requests and outages, fairness | `OnePassAtATime`, `NothingLeftOver`, `ForcedOncePerTap`, `AskRemembered`, `EveryAskIsFollowed` |
| `install_two_tabs` | one install, two tabs, two attempts, one event | `TypeOK`, `InstallKept`, `StagesInOrder`, `PaidOnce` |
| `install_two_people` | an install each of two people, one tab, two events, fairness | `FiledAsSubmitter`, `VerdictHeard`, `EventuallyReceived` |
| `install_killed_before_drop` | violated: a kill between the last put and the delete | `HandedOverIsDropped` |
| `server_clock` | a phone's clock-in, break and clock-out, the clock-out perhaps from a clock that is off; two other calls, two clock-ins at once; two shifts, three moments | `TypeOK`, `NoHourPaidTwice`, `PunchesFit`, `ApprovedTimeStands` |
| `clock_two_doors` | violated: two clock-ins through different doors overlap | `OneActivePunch` |
| `toolbox_day` | two signatures, two tabs, one clock-in, a phone up to one moment ahead, the end of a day | `TypeOK`, `OwnDayOnly`, `GateStaysOpen`, `ConfirmationIsNewest`, `FollowerIsNotSpent` |
| `spend_guard` | three calls, one person and none, two months, a limit and ceilings that may be zero, one save of the settings, one lost verdict | `TypeOK`, `BookedIsTheSum`, `QuotaHolds`, `ToldOnce`, `KeepsAccount` |
| `summons` | two people, two openings, two calls of up to two helpers, four steps of `UnitSessions` | `TypeOK`, `OneThingAtATime`, `OffTheClock`, `SeatsMatchStatus`, `PointsFollowSeats`, `BreakGivesBack`, `EndedCallStopsItsOwn` |

`VerdictHeard` is asked of one tab. With two it would not hold: a refusal the other
tab's flush meets is parked in that tab's memory, and the person who submitted is told
"queued" and finds the install on the stuck list.

Bounds of the phone. Two writes are what makes an order; the theorems say the same of
any number. Two attempts reach both the retry and the dead letter; two passes reach the
ceiling. `MaxEvents` bounds sign-ins, kills, photos recovered and taps on the stuck list
together, one unit each: two let a tap follow a kill. With `Horizon` 0 every backoff is
already over, so a run that does not ask about time explores the orders a drain may take
with no waiting in them; the runs about backoff have a horizon of 1 or 2.
`outbox_two_tabs` spends its states on backoff and second passes rather than on a second
event; what it checks is also proved for any number. Tabs are interchangeable, so
`outbox_two_tabs` uses symmetry, as does `install_two_tabs`. For the hand-in, two tabs
are what makes copies diverge; installs touch only their own record, so one is enough
where the question is about one, and two are used where people differ. Two attempts
reach a retry and the giving up. `MaxEvents` there bounds sign-ins, kills, taps on the
stuck list and callbacks together; the runs that are violated use the smallest that
shows it. In `DrainScheduler` only the invocations in hand and the taps are bounded: two
overlap when a cleanup meets a new drain, and the third lets two cleanups meet one.

Bounds of the server. `ServerClock` has three moments and a cap of one, so a tap is
on time, late, or too old to be used; two shifts, since an overlap is of two; and
`MaxOther` 2, enough for a shift to be closed and approved by other hands before the
phone's clock-out arrives. `MaxTxn` 2 lets two clock-ins overlap, and any other call fall
between the halves of one; the two rows they leave are the finding of `clock_two_doors`,
and `NoHourPaidTwice` asks of every other pair. `Unchecked` is the clock-out alone: a
clock-in or a break of this run falls back to its arrival when it was held past the cap.
`ToolboxDay` has a day of two moments and ends on the second day; the third
signature, tab or day meets no case the second does not. `SpendGuard` has daily
limits of none and one question, a ceiling of nothing and one that two calls fill (its
double, for content, takes three), and costs of nothing and above the estimate; three
calls let two wait for each other while a third settles.
In `Summons`, `MaxActs` bounds the steps of `UnitSessions`: four are a clock-in, a
start, a break and its end, with any of a call's steps between. People, openings and
calls are interchangeable, as are tabs, signatures and calls elsewhere, and the runs use
the symmetry. `summons` and `toolbox_day` also tell states apart only by what is read
again (a VIEW, `Matters` of their MC modules): who asked for a call nobody can answer
any more, a clock-in whose day is over, and the like, make no other state. These five
have no liveness: nothing there retries by itself.

Fairness. A tab looks at the queue every 30 seconds (`initOutboxAutoFlush`), so a drain
that can start does; each step of a drain is bounded by the watchdog
(`SEND_TIMEOUT_MS`); requests arrive; time passes. A photo is retried without end
when the signal fails, so its sends are strongly fair: that says the signal comes
back, which the code cannot promise and no other op needs. The hand-in is weakly fair
throughout: a pass begins every 30 seconds, a stage ends or fails, a tap's put is
done, a wait is over. Neither the arrival of a request nor its success is assumed:
`EventuallyReceived` holds because tries are counted and the last one shows on the
stuck list. `DrainScheduler` assumes that a pass and a refresh end and that the
"online" event is delivered, not that anybody asks again: the interval would hide a
lost request behind half a minute of waiting.

## What is proved

`OutboxProofs` proves for every set of writes, tabs and people, any attempt limit,
backoff and number of passes, from `OutboxConstants` alone:

- `TypeCorrect`: `TypeOK`, which includes that no drain exceeds its passes;
- `NeverLost`: `NothingLost`;
- `NeverAhead`: `FiledInOrder`;
- `NeverAsAnother`: `FiledAsOwner`.

None of the four is inductive alone. `IInv` adds that everything anywhere was once
queued (`OnlyAccepted`), that rows wait only on ids that were
(`DependenciesAccepted`), that what a pass took up waits on nothing open
(`TakenUpIsClear`), that every request on the wire is its owner's and clear to land
(`RequestsAreClear`) and that the phone only knows shifts the server has
(`ShiftsAreFiled`). The heart of it: `dueEntries` takes up an entry when its
dependency is no longer in the store; the dependency was queued once, and by
`NothingLost` what was queued and is gone is filed or thrown away. Filed and thrown
away never shrink, so a request stays clear however late it lands. TLC checked
`IInv` on the instances first.

`OutboxLedgerProofs` proves, again for every value of the constants:

- `LedgerKept`: `KeepsLedger`, that is `Spec => Ledger!Spec`;
- `RevivedByAPerson`: `OnlyAPersonRevives`, and `AttemptsKept`: `AttemptsCount`;
- `CascadeTakesTheChain`: what `waitingOn` returns, for any rows, is what waits on the
  root, directly or through others, and not failed yet: the least such set.

A swap over a row that reads back as queued either changes nothing or writes one row
that nobody has given up on (`SwapOverQueued`). Two further invariants make every swap
of a drain such a swap: `CopiesAreQueued` (what a pass took up, marked or found stranded
was queued when it was read) and `TapsAreQueued` (a tap's copies are queued again), and
a photo the phone takes up again is one row written in one transaction. So a step opens,
settles or gives up at most one write however stale the snapshot behind it. The guards
of the ledger's `File` and `Settle` are what `IInv` says of requests and of rows
confirmed. The two action properties follow from one lemma, `RowsStep`, on how any step
may change a row; `OnlyAPersonRevives` is also what the ledger's `Accept` and `Revive`
say, so no run asks for it beside `KeepsLedger`.

The cascade goes as many rounds as there are writes. Each round that adds something
makes the set larger (`RoundsGrow`), and there are only so many writes, so some round
adds nothing and no later one does (`RoundsStop`, `RoundsSuffice`). That the rounds are
well defined, and each fact about all of them, is by least counterexample.

`DrainProofs` proves for any number of invocations:

- `NeverTwoPasses`: `OnePassAtATime`;
- `NoOldTaps`: `NothingLeftOver`;
- `AsksRemembered`: `AskRemembered`;
- `OneForcedPassPerTap`: `ForcedOncePerTap`.

Its `IInv` ties the flags to the invocations (`draining` exactly when one is passing,
`forceNextDrain` only with `drainAgain`) and counts a pending force as a pass.

`InstallProofs` proves for every set of installs, tabs and people, any number of
attempts and events, from `InstallConstants` alone:

- `HandInTypes`: `TypeOK`;
- `HandInNeverLost`: `InstallKept`;
- `HandInOrdered`: `StagesInOrder`;
- `HandInAsSubmitter`: `FiledAsSubmitter`;
- `HandInPaidOnce`: `PaidOnce`;
- `RefusalIsHeard`: `VerdictHeard`, where there is one tab and more than one try.

Since every write is a blind put, no invariant can speak of the stored record alone:
any tab may put any older copy back at any time. `IInv` therefore says the same of
every copy there is, in the store, in a pass's list, in the hands of a pass and
behind a tap (`CopiesEarned`: a copy past "queued" belongs to a filed install, one
at "media_done" to one whose photos are queued), with `DueIsPending` (what a pass
has still to take was submitted and pending), `CurrentEarned` (what the pass is
doing agrees with its copy's step) and `WireKnown` (a filing or award on its way is
of a submitted install, under its submitter). Filed, handed over and thrown away
never shrink, so a copy's claim stays true however old it is.

`RefusalIsHeard` rests on `RefusalParked`: while a sheet waits over an install that
failed for good at its first try, the refusal is parked in the sheet's own tab, the
only one that could have met it. What a tap puts back is pending
(`RevivedIsPending`), so no tap brings a refused record back. The code allows eight
tries (`outbox-core.ts:228`); with one, a first try that fails on the network would be
given up with nothing parked.

`SummonProofs` proves for any crew, openings, calls and seats, from `SummonConstants`
(the crew is finite) and `UnitConstants` (field work and "nothing" are no openings):

- `SummonTypes`: `TypeOK`;
- `OneThingHolds`: `OneThingAtATime`, and `OffTheClockHolds`: `OffTheClock`;
- `SeatsHoldStatus`: `SeatsMatchStatus`, and `PointsHold`: `PointsFollowSeats`;
- `EndingHolds`: `EndedCallStopsItsOwn`;
- `BreakReturns`: `BreakGivesBack`.

Two invariants do most of it, since the rows of work and the seats of a call meet only
where an answer starts a row. `WorkInv` says that at most one row of a person runs:
every trigger replaces a person's rows by at most one, or by none when the shift ends.
`OffTheClock` is then a fact about steps: a person off the clock gets a row only from
a start or an answer that had read their shift while it was open (`late`), which each
such call can do once.
`SeatInv` speaks of one call: an action moves one person's place in it, so the seats
taken go up or down by one, and the status written with it is the one the new count
asks for. That the count is right after the step is a lemma on cardinalities for each
kind of move. `UnitInv` adds `BreakRemembered`: the opening the running break took a
person off is the one, and the only one, a break took them off most recently. The
unit the trigger finds again (`HeldUnit`, of the least age among those not installed)
is then that one, unless it was installed.

`ClockProofs` proves for any phones, caps, bounds and number of shifts:

- `ApprovedHolds`: `ApprovedTimeStands`;
- `HoursHold`: `NoHourPaidTwice`, with any number of clock-ins at once: no two shifts
  share an hour unless their own clock-ins crossed (`crossed`), which is what
  `clock_two_doors` shows of two that do;
- `PunchesHold`: `PunchesFit`;
- `ClockTypes`: `TypeOK`.

They assume `ClockBounds` and `ClockIds`: the bounds are numbers, the punches are
finitely many, and a clock-in or a clock-out is no other punch. All four rest on
`RowStep`, what any step may do to a row that is there: a row no hand has touched keeps
its start, is opened or counted again by nothing, and keeps its end once it has one; a
row that stays approved keeps its times, unless a close as no work that looked before
the row had its finish writes it off (`WroteOff`). One lemma per action says so.
`CardInv` adds that all times are past and that what the office may pay has a finish.
For the hours, `HoursInv` says that every clock-in under way has seen each untouched
open row that was there when it looked (`SeenOpen`), so closes it, and that of two
untouched rows whose clock-ins did not cross the one made first ended before the other
starts (`InOrder`). A row made while a clock-in was under way crossed it, so what the
clock-in has not seen is excused, and nothing else is. A new row starts at or after the
latest end (`StartIsFree`), which is why a late punch falls back to its arrival.

For the breaks, `PunchInv` ties what the phones still hold to the rows. Taps are
numbered in the order of their times (`TapsInOrder`), and a punch names a row or a
clock-in tapped before it (`RefsKnown`). A break punch on its way to a row that is not
`mixed` was tapped after the row's last punch (`FloorInv`), so it is counted from its
tap, where the row's count ended. `TotalsInv` is what a total on its way promises: it is
no longer than the shift it will close, on the row or, before the clock-in has landed,
from its tap. At the tap this is a fact about the fold of the queued punches
(`ShownFits`): after each of them the breaks counted fit between the clock-in and
whatever comes next. `TallyRows` says the same of the row's own count. `Bounded` has the
bounds `TypeOK` adds.

`ToolboxProofs` proves for any signatures, clock-ins and tabs, any length of day and
distance of the clocks, from `ToolboxConstants` alone:

- `TypesHold`: `TypeOK`;
- `OwnDayHolds`: `OwnDayOnly`;
- `NewestHolds`: `ConfirmationIsNewest`;
- `GateHolds`: `GateStaysOpen`;
- `FollowerHolds`: `FollowerIsNotSpent`.

`IInv` says where every copy of the server's word came from: the phone's confirmation,
the answers saved for all tabs, a tab's memory, its cache and an answer in the air are
each one of the rows filed, and no tab remembers a later one than the phone
(`HeardIsFiled`); a row is never of the future (`FiledIsPast`). So what is of today's
day or later is of today. The gate is open by one of three: a signature still on the
phone, the confirmation kept there, or the tab's cache. The first two carry the proof of
`GateHolds`, since a reload may take the third back: a signature counts from no later
than the phone said (`TimesInOrder`), and what has left the phone is kept there as
confirmed, or a later one is (`SentIsKept`). `ReadingIsFresh` is what keeps a screen
from going back short of a reload: an answer asked for before a tab knew of the
signature is dropped or says signed too. `PunchFollows` is the clock-in's side: one that
follows nothing was tapped when a row of its day was filed. That the answer to a read is
the last row of the day is by well-founded descent over the rows.

`SpendProofs` proves for any number of calls and people, any limit, ceilings and
prices, nothing included, from `SpendConstants` alone:

- `AccountKept`: `KeepsAccount`, that is `Spec => Account!Spec`;
- `MeterTypes`: `TypeOK`;
- `BooksHold`: `BookedIsTheSum`;
- `QuotaIsKept`: `QuotaHolds`;
- `OwnerIsToldOnce`: `ToldOnce`.

`QuotaHolds` needs the locks: `DayRowsAreHeld` says that one reservation at a time holds
a person's day row, and that a question which passed the limit's test still finds the
count below it when it commits. Where the test is skipped there was no row of the day,
so no call that counts (`NoRowNoCount`), and the count comes to one. `ToldOnce` needs
`NoticesStand`: whoever told the owner left the alert the next call looks for.
`BookedIsTheSum` speaks of a sum, a fold the library defines. Its lemmas say that the
fold exists for finitely many calls (`FoldExists`), that it takes off any call, not only
the one it picks (`FoldTakesAny`), and so that a call's cost is added when the call
joins (`CostOfOneMore`). Each is by least counterexample (on the number of calls, or on
the set), since the library's induction theorems cannot be used. `CallsAreWhole` is the
strengthening: a call being released carries no cost. `AccountKept` needs all of it:
that the counter a reservation tested is the number of entries (`QuotaHolds`), that
nobody else has bumped it since (`DayRowsAreHeld`), and that the month's booking is the
sum of the entries (`BookedIsTheSum`), so the verdict is the one the ledger would give
(`CountersAgree`); a call whose insert goes untested is the first entry of its day or
month in the ledger too.

Only model-checked: the liveness properties (`EventuallySettled`, `EventuallyReceived`,
`EveryAskIsFollowed`), which are out of the prover's reach. Every invariant and every
action property of a passing run is a theorem.

## Findings

1. `outbox-core.ts:1020`: the dead letter and its cascade are separate transactions;
   a kill between them leaves what waits on it queued for ever, and no later start
   cascades again (`outbox_killed_mid_cascade`).
2. `installOutbox.ts:790`: a kill between the put of `media_done` and the delete
   leaves a record no pass will ever take up again, counted as pending
   (`install_killed_before_drop`).
3. `20260985000000_clock_the_crew.sql:308`: only the phone's keyed `clock_in` takes
   the person's lock. `clock_in_for` and the older overloads look for an open shift
   and insert without one, so two clock-ins that overlap leave two open shifts, and
   both count (`clock_two_doors`).

Further disagreements the models show. Each is a definition of the module named; it
fails on small instances of the module and is in no run.

- `Outbox!RetryTakesTheWholeChain` (`outbox.ts:1829`): Try again revives direct
  dependents only, though the cascade failed the whole chain.
- `Outbox!PunchesGoInTapOrder` (`outbox-core.ts:465`): a punch in backoff is
  overtaken by a later one on the same server shift.
- `InstallOutbox!StepNeverGoesBack` (`installOutbox.ts:812`): a put of an older copy
  takes a recorded step back; the stage is repeated.
- `InstallOutbox!VoidedStaysVoided` (`20260991000000_points_cap.sql:531`): a duplicate
  filing that lands late makes a repeated award look like a redo, and points QC
  voided are paid again. Behind it: `finish_unit` carries no key of the record.
- `ServerClock!LunchIsDeducted` (`20260945000000_time_autoclose_reason.sql:32-68`): a
  shift closed by the next clock-in, or by a supervisor's move, keeps its break
  running and the break is not deducted; `clock_out_for`
  (`20260985000000_clock_the_crew.sql:398`) folds it in so that a person clocked out
  at lunch is not paid for the lunch.
- `ServerClock!BreakCountsOnce` (`outbox-core.ts:450`: "Order AMONG punches is still tap
  order"): a break punch in backoff is overtaken by the next one, the server's row
  counts time between punches of two different breaks, and the phone, which folds the
  punches still queued over that row, counts some of it again. `clock_out` takes the
  total the phone sends as it comes, so more break than shift may be deducted, with
  nothing marked for review. Two breaks of one phone are enough, with no other call; so
  are a break of an old bundle and a queued one.
- `ServerClock!OneActivePunch` also fails when a voided shift with no clock-out is
  restored beside an open one (`20260944000000_time_void_restore.sql`).
- `ServerClock`, the stale closes (`20260731010000_close_shift_as_no_work.sql:46`,
  `20260985000000_clock_the_crew.sql:422`): a close as no work that looked before a
  shift got its finish writes the shift off though it was approved meanwhile, and a
  roster clock-out closes again, at a later time, a shift that was closed after its
  look. `ApprovedTimeStands` excuses the first, and a roster close of a closed row marks
  it as one a hand has touched.
- `ToolboxDay!NeverRefused` (`20261033000000_offline_toolbox_signing.sql:172`): a phone
  ahead of the server near midnight signs tomorrow's talk, and the signature, brought
  back to the hour it arrived, is refused, where :32 says what falls outside the
  bounds never is.
- `SpendGuard` (`20260729230000_ai_spend_limits.sql:293-296`, `:333-334`): each
  caller "tests the limit", says the first comment, and the second that "the ceiling
  holds under a burst too", but only the update path of each counter tests. With a
  limit of 0 the first question of a day is admitted, and with a ceiling of 0 the first
  call of a month; both are settings the owner may save (`:647`, `:649`). `QuotaHolds`
  and `CallLedger` state what is then true.
- `SpendGuard!BurstIsMetered` (`20260729230000_ai_spend_limits.sql:14`): reserve and
  settle lock the day row and the month row in opposite orders; the reservation the
  database ends goes out unmetered.
- `UnitSessions!NothingRunsOffTheClock` (`20261031000000_new_front_door.sql:744`: "clock in
  before starting a task"): `start_unit_session` and `answer_summon` look for the open
  shift with no lock and insert later; a clock-out between the two leaves the row
  running off the clock until the next one ends it.
- `UnitSessions!EndOfBreakIsTaken` (`20261017000000_servicing_visits.sql:455`): a person
  who started a unit while on a break cannot end the break, `unit_sessions_one_open`
  refuses the resumed row and the whole call with it.
- `UnitSessions!BreakStartsNothing` (same, :447): a break that stopped nothing resumes
  the unit of some earlier break.
- `Summons!OneLiveCall` (`20260972000000_job_summons.sql`): two calls made at once are
  both live; `Summons!BackedOutStaysOut` (`20260818000000_summons.sql:138`): a helper who
  backed out may still be stamped complete.

## Not modelled

Of the parts that are modelled: the payloads of the queue's ops and the acknowledgment
of values reviews; the adoption of an old version's photo uploads at a start;
`lead_add_shift`, prep time and the timecard's requests; the group sign-in of a
supervisor and the toolbox rows of other phones; the spend guard's kill switch, role
floor and changes of the daily limit; the minutes a finish counts, install phases, and
the declines and the warning of a call. The sweep's two statements are one step. A
screen is taken to show the store as it is.

Of the parts that are not: most of what remains is screens, geometry (`modelstudio`,
`fitview`), reports and text, where no state is shared and no order matters; they are
listed in `PROJECT.json` each with its reason. The ones with state of their own that a
later module could take are in the plan.

## Plan

Done: `Outbox` with its ledger, `DrainScheduler`, `InstallOutbox`, `ServerClock`,
`ToolboxDay`, `SpendGuard`, `UnitSessions` with `Summons`. Next, in this order:

1. Proofs: an abstract hand-in that `InstallOutbox` implements, as `Outbox` implements
   its ledger.
2. `UpdateHold` (when a waiting service worker may reload a tab), `ValuesDraft`,
   `LegacyMigration`, `WorkJournal`, `OfflinePin`, `CustomWorkQueue`, `CrewInvites`.
3. `ClockScreens`: the lag of the screens behind the queue.
