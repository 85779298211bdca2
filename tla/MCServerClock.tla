--------------------------- MODULE MCServerClock ---------------------------
(* Small instances of ServerClock.                                         *)
EXTENDS ServerClock, TLC
CONSTANTS in1, in2, out1, brk1, end1
=============================================================================
