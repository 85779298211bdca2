------------------------------ MODULE MCInstall ------------------------------
(***************************************************************************)
(* Small instances of InstallOutbox.                                       *)
(***************************************************************************)
EXTENDS InstallOutbox, TLC

CONSTANTS door, window, ana, ben, tab1, tab2

AnaOwns == [i \in Installs |-> ana]
EachTheirOwn == [i \in Installs |-> IF i = door THEN ana ELSE ben]

TabSymmetry == Permutations(Tabs)
=============================================================================
