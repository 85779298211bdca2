---------------------------- MODULE MCToolboxDay ----------------------------
(* Small instances of ToolboxDay: the signatures are alike, and the tabs.  *)
EXTENDS ToolboxDay, TLC
Alike == Permutations(Sigs) \cup Permutations(Tabs)

\* Nothing is read again of the talk of a signature that is gone, nor of its time
\* on the phone once it has left; and nothing more can come of a clock-in that was
\* answered, or whose day is over.  Two states that differ in these alone go on
\* alike, and no property of the run tells them apart.
Done(p) ==
    \/ punch[p].stage \in {"in", "refused"}
    \/ punch[p] # NoPunch /\ punch[p].day < Day(hour)
ReadAgain(s) ==
    [sig[s] EXCEPT !.at = IF sig[s].stage = "sent" THEN None ELSE @,
                   !.talk = IF sig[s].gone THEN None ELSE @]
Matters == <<hour, ahead, noTalk, repointed, filed, stored, memory, cache, saved, reading,
             [s \in Sigs |-> ReadAgain(s)],
             [p \in Punches |-> IF Done(p) THEN [NoPunch EXCEPT !.stage = "in"] ELSE punch[p]]>>
=============================================================================
