-------------------------------- MODULE MBC1 --------------------------------
(***************************************************************************)
(* The MBC1 bank controller (cc/backend/memory/mbc): games write its       *)
(* registers by storing to ROM addresses.  The contents of a RAM bank are  *)
(* one cell; those of ROM are the number of the 16 KiB chunk of the file   *)
(* they were read from.                                                    *)
(***************************************************************************)
EXTENDS Naturals, FiniteSets

CONSTANTS
  LowerValues, UpperValues, ModeValues, EnableValues,
                 \* bytes the game writes to each range of addresses
  RamValues

ASSUME ValuesAssumption ==
  LowerValues \union UpperValues \union ModeValues \union EnableValues
    \subseteq 0 .. 255

VARIABLES
  register_, is_ram_mode_,   \* BankModeRegister
  ram_enabled_,
  ram,                       \* ram_bank_n_
  selected                   \* history: the lower bits have been written

mbcvars == <<register_, is_ram_mode_, ram_enabled_, ram, selected>>

MBCInit ==
  /\ register_ = 0
  /\ is_ram_mode_ = FALSE
  /\ ram_enabled_ = TRUE
  /\ ram \in [0 .. 3 -> RamValues]
  /\ selected = FALSE

-----------------------------------------------------------------------------
GetRAMBank == IF is_ram_mode_ THEN (register_ \div 32) % 4 ELSE 0

GetROMBank == IF is_ram_mode_ THEN register_ % 32 ELSE register_ % 128

(* The index into banks_, an unsigned char: bank 0 gives 255.               *)
BankIndex(bank) ==
  CASE bank > 96 -> bank - 4
    [] bank > 64 /\ bank <= 96 -> bank - 3
    [] bank > 32 /\ bank <= 64 -> bank - 2
    [] OTHER -> (bank + 255) % 256

ComputeROMBank == BankIndex(GetROMBank)

(* CreateROMBanks fills banks_ with the chunks of the file, in order.       *)
Chunk(index) == index + 1

-----------------------------------------------------------------------------
(* Write, for each range of addresses.                                      *)
SetRAMEnabled ==
  /\ \E value \in EnableValues : ram_enabled_' = (value % 16 = 10)
  /\ UNCHANGED <<register_, is_ram_mode_, ram, selected>>

(* Mutants: zero is not translated; the upper bits are never kept.          *)
LowerBits_Zero(reg, value) == 32 * (reg \div 32) + (value % 32)

LowerBits_Alone(reg, value) == IF value % 32 = 0 THEN 1 ELSE value % 32

LowerBits(reg, value) ==
  IF value % 32 = 0 THEN 1 ELSE 32 * (reg \div 32) + (value % 32)

SetLowerBits(value) ==
  /\ register_' = LowerBits(register_, value)
  /\ selected' = TRUE
  /\ UNCHANGED <<is_ram_mode_, ram_enabled_, ram>>

UpperBits(reg, value) == (reg % 32) + 32 * (value % 4)

SetUpperBits ==
  /\ \E value \in UpperValues : register_' = UpperBits(register_, value)
  /\ UNCHANGED <<is_ram_mode_, ram_enabled_, ram, selected>>

SetIsRAMMode ==
  /\ \E value \in ModeValues : is_ram_mode_' = (value % 2 = 1)
  /\ UNCHANGED <<register_, ram_enabled_, ram, selected>>

WriteRAM ==
  /\ ram_enabled_
  /\ \E value \in RamValues : ram' = [ram EXCEPT ![GetRAMBank] = value]
  /\ UNCHANGED <<register_, is_ram_mode_, ram_enabled_, selected>>

MBCNext ==
  \/ SetRAMEnabled
  \/ \E value \in LowerValues : SetLowerBits(value)
  \/ SetUpperBits
  \/ SetIsRAMMode
  \/ WriteRAM

MBCSpec == MBCInit /\ [][MBCNext]_mbcvars

-----------------------------------------------------------------------------
MBCTypeOK ==
  /\ register_ \in 0 .. 127
  /\ is_ram_mode_ \in BOOLEAN
  /\ ram_enabled_ \in BOOLEAN
  /\ ram \in [0 .. 3 -> RamValues]
  /\ selected \in BOOLEAN

(* Whatever bytes are written in whatever order, the one packed register    *)
(* behaves as BankSelect's separate ones, with one exception: mbc.cc:163    *)
(* assigns the whole register when zero is written to the lower bits, and   *)
(* upper bits that are set are lost.                                        *)
Abstract == INSTANCE BankSelect
  WITH lower <- register_ % 32, upper <- register_ \div 32,
       ramMode <- is_ram_mode_, enabled <- ram_enabled_

ZeroClearsUpper ==
  /\ register_ >= 32
  /\ \E value \in LowerValues : value % 32 = 0 /\ SetLowerBits(value)
  /\ \A value \in LowerValues : SetLowerBits(value) => value % 32 = 0

ImplementsBankSelect ==
  Abstract!Init /\ [][Abstract!Next \/ ZeroClearsUpper]_(Abstract!vars)

(* Once a game has selected a bank, no order of writes to the three         *)
(* registers selects one of the banks an MBC1 skips, and the index computed *)
(* is the rank of the selected bank among the others: bank numbers and      *)
(* indices correspond one to one.                                           *)
Skipped(bank) == bank % 32 = 0

IndexIsRank ==
  LET bank == Abstract!RomBank
  IN  selected =>
        /\ ~Skipped(bank)
        /\ ComputeROMBank = Cardinality({b \in 1 .. bank - 1 : ~Skipped(b)})

(* What CreateROMBanks and SetLowerBits log: "Created ROM n" of the n-th    *)
(* chunk, "ROM bank n was selected" when it is to be read.                  *)
SelectedBankIsRead ==
  selected => Chunk(ComputeROMBank) = GetROMBank
=============================================================================
