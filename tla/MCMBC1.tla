------------------------------- MODULE MCMBC1 -------------------------------
(* Every byte a game can write to the registers; two values in RAM.         *)
EXTENDS MBC1

MCByte == 0 .. 255

MCRamValues == {0, 1}
=============================================================================
