----------------------------- MODULE BankSelect -----------------------------
(***************************************************************************)
(* What mbc.h says an MBC1's registers are: five lower bits, two upper bits *)
(* and a mode, each written on its own; the upper bits select the RAM bank  *)
(* in RAM mode and extend the number of the ROM bank in ROM mode.  Writing  *)
(* zero to the lower bits is translated to writing one.                     *)
(***************************************************************************)
EXTENDS Naturals

CONSTANT RamValues

VARIABLES lower, upper, ramMode, enabled, ram

vars == <<lower, upper, ramMode, enabled, ram>>

RomBank == IF ramMode THEN lower ELSE 32 * upper + lower

RamBank == IF ramMode THEN upper ELSE 0

Init ==
  /\ lower = 0
  /\ upper = 0
  /\ ramMode = FALSE
  /\ enabled = TRUE
  /\ ram \in [0 .. 3 -> RamValues]

WriteLower ==
  /\ lower' \in 1 .. 31
  /\ UNCHANGED <<upper, ramMode, enabled, ram>>

WriteUpper ==
  /\ upper' \in 0 .. 3
  /\ UNCHANGED <<lower, ramMode, enabled, ram>>

WriteMode ==
  /\ ramMode' \in BOOLEAN
  /\ UNCHANGED <<lower, upper, enabled, ram>>

Enable ==
  /\ enabled' \in BOOLEAN
  /\ UNCHANGED <<lower, upper, ramMode, ram>>

WriteRam ==
  /\ enabled
  /\ \E v \in RamValues : ram' = [ram EXCEPT ![RamBank] = v]
  /\ UNCHANGED <<lower, upper, ramMode, enabled>>

Next ==
  WriteLower \/ WriteUpper \/ WriteMode \/ Enable \/ WriteRam

Spec == Init /\ [][Next]_vars
=============================================================================
