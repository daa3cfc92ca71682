------------------------------ MODULE MCTimer ------------------------------
(* Flags of three values, an int that overflows soon after the slowest      *)
(* period, and two lengths of instruction.                                  *)
EXTENDS Timer

MCTickCounts == {16, 32}
MCValues == {0, 2}
=============================================================================
