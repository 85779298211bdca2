---------------------------- MODULE CallLedger -----------------------------
(***************************************************************************)
(* What the spend guard promises of the calls that go out on a verdict,    *)
(* with no rows, locks, counters or transactions: a ledger with one entry  *)
(* for each call that was let through, decided in one step on what stands  *)
(* in the ledger, and closed once.                                         *)
(***************************************************************************)
EXTENDS Integers, FiniteSets, FiniteSetsExt

CONSTANTS Calls, Users, NoUser,
          Caps,       \* the ceilings the owner may set
          Multiplier, \* how far content may go past one
          Estimate,   \* what an open entry stands for
          Costs, MaxMonth

VARIABLES entry,
          limit       \* questions of a person and day

Months == 1..MaxMonth
Row(state, u, kind, m, cost) == [state |-> state, user |-> u, kind |-> kind, month |-> m, cost |-> cost]
NoEntry == Row("none", NoUser, "question", 0, 0)

In(m, states) == {c \in Calls : entry[c].month = m /\ entry[c].state \in states}

\* What the month's entries come to, and how many count towards a person's day.
Total(m) == MapThenSumSet(LAMBDA c : entry[c].cost, In(m, {"settled"}))
            + Estimate * Cardinality(In(m, {"open"}))
CountOf(u, m) == Cardinality({c \in In(m, {"open", "settled", "released"}) : entry[c].user = u})

\* What has an entry, open or closed: the first of a day or of a month is
\* entered untested.
Entered(m) == In(m, {"open", "settled", "released", "refunded"})
First(u, m) == \A c \in Entered(m) : entry[c].user # u

Init == entry = [c \in Calls |-> NoEntry] /\ limit \in Nat

\* A call is let through below the limit and below a ceiling.
Admit(c, u, kind, m) ==
    /\ entry[c] = NoEntry
    /\ entry' = [entry EXCEPT ![c] = Row("open", u, kind, m, 0)]
    /\ kind = "question" /\ u # NoUser => First(u, m) \/ CountOf(u, m) < limit
    /\ Entered(m) = {} \/ \E cap \in Caps : Total(m) < IF kind = "content" THEN cap * Multiplier ELSE cap

\* It is closed once: settled at its cost, released, or handed back.
Close(c, how, cost) ==
    /\ entry[c].state = "open"
    /\ how # "settled" => cost = 0
    /\ entry' = [entry EXCEPT ![c] = Row(how, @.user, @.kind, @.month, cost)]

Next ==
    /\ UNCHANGED limit
    /\ \E c \in Calls :
          \/ \E u \in Users \cup {NoUser}, kind \in {"question", "content"}, m \in Months : Admit(c, u, kind, m)
          \/ \E how \in {"settled", "released", "refunded"}, cost \in Costs \cup {0} : Close(c, how, cost)

Spec == Init /\ [][Next]_<<entry, limit>>
=============================================================================
