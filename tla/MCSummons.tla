----------------------------- MODULE MCSummons -----------------------------
(* Small instances of Summons: people, openings and calls are alike.       *)
EXTENDS Summons, TLC
Alike == Permutations(People) \cup Permutations(Openings) \cup Permutations(Calls)

\* Who called, and the seats, are read again only by an answer, which needs a
\* young live call; its age of a live call; the window of a call that has ended
\* only by a helper who had backed out; refused by no action.  Two states that
\* differ in the rest go on alike, and no property of the run tells them apart.
Over(c) == call[c].stage = "closed" /\ Cardinality(Seated(c)) <= call[c].needed
BackedOut(c) == \E p \in People : help[c][p] = "canceled"
ReadAgain(c) ==
    [call[c] EXCEPT !.by = IF call[c].old \/ Over(c) THEN Nothing ELSE @,
                    !.at = IF Over(c) /\ ~BackedOut(c) THEN Nothing ELSE @,
                    !.needed = IF Over(c) THEN 0 ELSE @,
                    !.old = @ /\ ~Over(c)]
Matters == <<shift, running, paused, stopped, installed, redo, late,
             [c \in Calls |-> ReadAgain(c)], help, points, acts>>
=============================================================================
