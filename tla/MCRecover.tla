----------------------------- MODULE MCRecover -----------------------------
(***************************************************************************)
(* A small instance of Recover: thresholds 0 to 3 and one that overflows   *)
(* an int (IntHalf + 2 is read as a negative number), periods that are     *)
(* disabled, shorter and longer than the distance of the failures.         *)
(***************************************************************************)
EXTENDS Recover

MCIntHalf == 8

MCFailureArgs == {NoNumber, 0, 1, 2, 3, MCIntHalf + 2}

MCPeriodArgs == {NoNumber, 1, 2, -1}
=============================================================================
