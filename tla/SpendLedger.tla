---------------------------- MODULE SpendLedger ----------------------------
(***************************************************************************)
(* SpendGuard keeps the ledger of CallLedger.  A call has its entry from   *)
(* the commit of its reservation; a settlement that waits for a row, or    *)
(* that failed, leaves the entry open.                                     *)
(***************************************************************************)
EXTENDS SpendGuard

StateOf(stage) ==
    IF stage \in {"allowed", "stranded", "settling"} THEN "open"
    ELSE IF stage \in {"settled", "released", "refunded"} THEN stage ELSE "none"

Row(state, u, kind, m, cost) == [state |-> state, user |-> u, kind |-> kind, month |-> m, cost |-> cost]
NoEntry == Row("none", NoUser, "question", 0, 0)

EntryOf(r) ==
    IF StateOf(r.stage) = "none" THEN NoEntry
    ELSE Row(StateOf(r.stage), r.user, r.kind, r.month, IF r.stage = "settled" THEN r.cost ELSE 0)

entries == [c \in Calls |-> EntryOf(call[c])]

Account == INSTANCE CallLedger WITH entry <- entries

\* A BURST IS DECIDED ONE CALL AT A TIME: the two halves of a reservation and of
\* a settlement, with the rows they wait for and the deadlocks between them, are
\* one step of the ledger or none; what a verdict reads off the counters is
\* what stands in the ledger at that moment, and no entry is closed twice.
KeepsAccount == Account!Spec
=============================================================================
