---------------------------- MODULE OutboxLedger ----------------------------
(***************************************************************************)
(* Outbox keeps the ledger of WriteLedger: its rows are what is open, its  *)
(* failed rows what is dead, the records behind a "Try again" tap what a   *)
(* person asked for.                                                       *)
(***************************************************************************)
EXTENDS Outbox

openRows == Present(store)
deadRows == {i \in Ids : store[i].status = "failed"}
askedAgain == {i \in Ids : \E t \in Tabs : i \in Present(retry[t])}

\* A punch on a queued clock-in needs that clock-in; a switch only waits for it.
needs == [i \in Ids |-> IF Op[i] = "clock_in" THEN NoId ELSE ShiftRef[i]]

photos == {i \in Ids : isPhoto(i)}

Ledger == INSTANCE WriteLedger WITH
    Needs <- needs, Photos <- photos, open <- openRows, dead <- deadRows, tapped <- askedAgain

\* Every step of the drains, the tabs, the person and the server is one step of
\* the ledger or none: a write is taken on once, filed once and in order as its
\* owner's, leaves the phone when filed or thrown away, is given up on where a
\* person sees it, and comes back when that person asks for it, or, a photo,
\* when the phone tries it again.
KeepsLedger == Ledger!Spec

\* What a pass takes up, attempts or fails behind a dead letter was read as a
\* queued row; what a swap over it finds was not given up on.  What a tap puts
\* back is queued again.
CopiesAreQueued ==
    \A t \in Tabs :
        /\ \A i \in Ids : {due[t][i].status, stranded[t][i].status} \subseteq {"queued", "absent"}
        /\ pc[t] \in {"marked", "awaiting"} => curEntry[t].status = "queued"

TapsAreQueued == \A t \in Tabs, i \in Ids : retry[t][i].status \in {"queued", "absent"}
=============================================================================
