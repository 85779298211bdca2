---------------------------- MODULE MCSpendGuard ----------------------------
(* Small instances of SpendGuard: the calls are alike.                     *)
EXTENDS SpendLedger, TLC
Alike == Permutations(Calls)
=============================================================================
