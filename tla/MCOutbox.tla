------------------------------ MODULE MCOutbox ------------------------------
(***************************************************************************)
(* Small instances of Outbox: which writes there are, whose, and what they *)
(* wait on.                                                                *)
(***************************************************************************)
EXTENDS OutboxLedger, TLC

CONSTANTS sig, in1, out1, in2, break1, photo, ana, ben, tab1, tab2

Kinds == sig :> "toolbox_sign" @@ in1 :> "clock_in" @@ in2 :> "clock_in" @@
         out1 :> "clock_out" @@ break1 :> "break_start" @@ photo :> "photo_upload"

MCOp == [i \in Ids |-> Kinds[i]]

\* One person's writes; or the photo is Ben's, on Ana's phone.
AnaOwns == [i \in Ids |-> ana]
BenOwnsPhoto == [i \in Ids |-> IF i = photo THEN ben ELSE ana]

NoRef == [i \in Ids |-> NoId]

\* The clock-out names the clock-in still on the phone.
OutBehindIn == [i \in Ids |-> IF i = out1 THEN in1 ELSE NoId]

\* A switch of job: the second clock-in follows the first, the clock-out ends
\* the second.
Switch == [i \in Ids |-> CASE i = in2 -> in1 [] i = out1 -> in2 [] OTHER -> NoId]

\* The day's first clock-in follows the toolbox talk signature.
Signed == [i \in Ids |-> IF i = in1 THEN sig ELSE NoId]

TabSymmetry == Permutations(Tabs)
=============================================================================
