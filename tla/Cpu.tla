-------------------------------- MODULE Cpu --------------------------------
(***************************************************************************)
(* The registers of the CPU and the handlers that compute on them:         *)
(* opcode_handlers.cc without its jumps, which OpcodeExecutor models.      *)
(*                                                                         *)
(* A step of the emulation is two steps here.  Fetch turns the bytes at    *)
(* rPC into an Instruction and looks its handler up; then the handler      *)
(* runs, one action for each.  Nothing else runs in between: the split     *)
(* only lets the properties speak of the instruction, ir.                  *)
(*                                                                         *)
(* Handlers that come in three copies, for a register, for the byte that   *)
(* HL points at and for a literal, are one action that reads its operand   *)
(* as the copy that was dispatched does.                                   *)
(***************************************************************************)
EXTENDS Bytes, OpcodeMap

CONSTANTS
  Programs,       \* sequences of bytes: the code that runs
  Registers,      \* values of A to L when it starts
  Flags,          \* and of Z, N, H and C
  Stacks,         \* and of rSP
  Memories,       \* and the bytes at Ram
  Ram             \* addresses that hold what is written to them

Register8Bit == {"A", "B", "C", "D", "E", "H", "L"}
Register16Bit == {"AF", "BC", "DE", "HL", "SP"}

RegisterFile == [A : Byte, B : Byte, C : Byte, D : Byte, E : Byte, H : Byte, L : Byte]
FlagBits == [Z : 0 .. 1, N : 0 .. 1, H : 0 .. 1, C : 0 .. 1]

ASSUME WidthsAssumption ==
  /\ Programs \subseteq Seq(Byte)
  /\ Registers \subseteq RegisterFile
  /\ Flags \subseteq FlagBits
  /\ Stacks \subseteq Word
  /\ Ram \subseteq Word
  /\ Memories \subseteq [Ram -> Byte]

VARIABLES
  code,           \* the program; rPC is an offset into it
  start,          \* what the registers held when it started
  reg,            \* A, B, C, D, E, H, L
  flag,           \* the bit fields of rF
  pad,            \* the other twelve bits that rAF shares with rF
  sp, pc,         \* rSP, rPC
  mem,            \* what memory_mapper holds at Ram
  ime, halted,    \* interrupt_master_enable_, halted_
  ir, handler     \* the instruction fetched and its handler, or None

vars == <<code, start, reg, flag, pad, sp, pc, mem, ime, halted, ir, handler>>

None == [name |-> "none", form |-> "none"]
NoInstruction == [opcode |-> "none"]

Init ==
  /\ code \in Programs
  /\ reg \in Registers
  /\ flag \in Flags
  /\ pad = 0
  /\ sp \in Stacks
  /\ pc = 0
  /\ mem \in Memories
  /\ ime = FALSE /\ halted = FALSE
  /\ ir = NoInstruction /\ handler = None
  /\ start = [reg |-> reg, flag |-> flag, sp |-> sp]

(***************************************************************************)
(* Reading registers and memory.                                           *)
(***************************************************************************)
Read(a) == IF a \in Ram THEN mem[a] ELSE 0
Written(a, v) == IF a \in Ram THEN [mem EXCEPT ![a] = Wrap8(v)] ELSE mem

(* rA is not one of the two bytes that rAF overlaps: rF takes four. *)
rAF == flag.Z + 2 * flag.N + 4 * flag.H + 8 * flag.C + 16 * pad
rBC == 256 * reg.B + reg.C
rDE == 256 * reg.D + reg.E
rHL == 256 * reg.H + reg.L

GetRegisterValue16Bit(r) ==
  CASE r \in Register8Bit -> reg[r]
    [] r = "AF" -> rAF [] r = "BC" -> rBC [] r = "DE" -> rDE
    [] r = "HL" -> rHL [] r = "SP" -> sp

GetParameterValue16Bit(arg) ==
  IF arg.type = "REGISTER" THEN GetRegisterValue16Bit(arg.reg) ELSE arg.val

GetParameterValue8Bit(arg) == Wrap8(GetParameterValue16Bit(arg))

(* What a pair of registers becomes when it is assigned through a pointer. *)
RegWith(p, v) ==
  CASE p = "BC" -> [reg EXCEPT !.B = High(v), !.C = Low(v)]
    [] p = "DE" -> [reg EXCEPT !.D = High(v), !.E = Low(v)]
    [] p = "HL" -> [reg EXCEPT !.H = High(v), !.L = Low(v)]
    [] OTHER -> reg
FlagWith(p, v) ==
  IF p = "AF"
  THEN [Z |-> NthBit(v, 1), N |-> NthBit(v, 2), H |-> NthBit(v, 4), C |-> NthBit(v, 8)]
  ELSE flag
PadWith(p, v) == IF p = "AF" THEN v \div 16 ELSE pad

(***************************************************************************)
(* ReadInstruction: fetch, advance rPC, look the handler up.  The decoder   *)
(* hands out no instruction whose opcode it does not know, and dies of one *)
(* that is longer than the code that is left.                              *)
(***************************************************************************)
Fetch ==
  /\ ir = NoInstruction /\ ~halted
  /\ pc < Len(code)
  /\ OpcodeAt(code, pc + 1) \in DOMAIN CreateInstructionMap
  /\ LET factory == CreateInstructionMap[OpcodeAt(code, pc + 1)]
         raw == SubSeq(code, pc + 1, pc + TotalWidth(factory))
     IN  /\ pc + TotalWidth(factory) <= Len(code)
         /\ ir' = Build(factory, raw)
         /\ handler' = CreateOpcodeMap[factory.instruction]
         /\ pc' = Wrap16(pc + TotalWidth(factory))
  /\ UNCHANGED <<code, start, reg, flag, pad, sp, mem, ime, halted>>

(* The handlers that ask for a pointer to the register an argument names.  *)
(* A pointer to one that is not there, or not that wide, is LOG(FATAL):    *)
(* the handler does not run.                                               *)
Shifts == {"RLC", "RL", "RRC", "RR", "SLA", "SRA", "SRL", "Swap"}
PointsAtFirst8 ==
  {Handler(n, "Plain") : n \in {"LoadN", "LoadRR8Bit", "LoadRR8BitAddress", "LoadNA",
                           "Inc8Bit", "Dec8Bit"} \cup Shifts}
PointsAtFirst16 == {Handler(n, "Plain") : n \in {"LoadNN", "Inc16Bit", "Dec16Bit", "Push", "Pop"}}
PointsAtSecond8 == {Handler("Bit", "Plain")}

Pointer(arg, registers) == arg.type = "REGISTER" /\ arg.reg \in registers

PointersExist ==
  /\ handler \in PointsAtFirst8 => Pointer(ir.arg1, Register8Bit)
  /\ handler \in PointsAtFirst16 => Pointer(ir.arg1, Register16Bit)
  /\ handler \in PointsAtSecond8 => Pointer(ir.arg2, Register8Bit)
  /\ handler.name \in {"Set", "Res"} => ir.arg2.is_pointer \/ Pointer(ir.arg2, Register8Bit)

Dispatched(name) ==
  /\ handler.name = name /\ PointersExist
  /\ ir' = NoInstruction /\ handler' = None
  /\ UNCHANGED <<code, start, pc>>

(***************************************************************************)
(* Shapes of handlers.  SetFlags gives Z, N, H and C in this order.        *)
(***************************************************************************)
SetFlags(z, n, h, c) == flag' = [Z |-> z, N |-> n, H |-> h, C |-> c]
ControlKept == UNCHANGED <<ime, halted>>

(* The operand of a handler, read as the copy that was dispatched does. *)
Operand(arg) ==
  IF handler.form = "Address" THEN Read(GetParameterValue16Bit(arg))
  ELSE GetParameterValue8Bit(arg)

(* A becomes result. *)
Accumulate(name, result, n, h, c) ==
  /\ Dispatched(name)
  /\ reg' = [reg EXCEPT !.A = result]
  /\ SetFlags(IsZero(result), n, h, c)
  /\ UNCHANGED <<pad, sp, mem>> /\ ControlKept

(* The register of an argument, or the byte it points at, becomes v. *)
Store(arg, in_memory, v) ==
  /\ reg' = IF in_memory THEN reg ELSE [reg EXCEPT ![arg.reg] = v]
  /\ mem' = IF in_memory THEN Written(GetParameterValue16Bit(arg), v) ELSE mem

Modify(name, result, n, h, c) ==
  /\ Dispatched(name)
  /\ Store(ir.arg1, handler.form = "Address", result)
  /\ SetFlags(IsZero(result), n, h, c)
  /\ UNCHANGED <<pad, sp>> /\ ControlKept

LoadRegister(name, r, v) ==
  /\ Dispatched(name)
  /\ reg' = [reg EXCEPT ![r] = Wrap8(v)]
  /\ UNCHANGED <<flag, pad, sp, mem>> /\ ControlKept

WriteMemory(name, a, v) ==
  /\ Dispatched(name)
  /\ mem' = Written(a, v)
  /\ UNCHANGED <<reg, flag, pad, sp>> /\ ControlKept

(***************************************************************************)
(* The ALU.                                                                *)
(***************************************************************************)
Add8Bit ==
  LET v == Operand(ir.arg2)
  IN  Accumulate("Add8Bit", Wrap8(reg.A + v), 0,
                 Flag(DoesHalfCarry8(reg.A, v)), Flag(DoesCarry8(reg.A, v)))

(* Mutant: the carry of the lower byte is left out. *)
ADC8Bit_NoCarry ==
  LET v == Operand(ir.arg2)
  IN  Accumulate("ADC8Bit", Wrap8(reg.A + v), 0,
                 Flag(DoesHalfCarry8(reg.A, v)), Flag(DoesCarry8(reg.A, v)))

(* value + carry is made a byte again before it is tested for a carry. *)
ADC8Bit ==
  LET v == Operand(ir.arg2) + flag.C
  IN  Accumulate("ADC8Bit", Wrap8(reg.A + v), 0,
                 Flag(DoesHalfCarry8(reg.A, v)), Flag(DoesCarry8(reg.A, v)))

(* C and H are set where there is no borrow. *)
Sub8Bit ==
  LET v == Operand(ir.arg2)
  IN  Accumulate("Sub8Bit", Wrap8(reg.A - v), 1,
                 Flag(~DoesHalfBorrow8(reg.A, v)), Flag(~DoesBorrow8(reg.A, v)))

SBC8Bit ==
  LET v == Operand(ir.arg2) + flag.C
  IN  Accumulate("SBC8Bit", Wrap8(reg.A - v), 1,
                 Flag(~DoesHalfBorrow8(reg.A, v)), Flag(~DoesBorrow8(reg.A, v)))

And8Bit == Accumulate("And8Bit", And(reg.A, Operand(ir.arg2)), 0, 1, 0)
Or8Bit  == Accumulate("Or8Bit", Or(reg.A, Operand(ir.arg2)), 0, 0, 0)
Xor8Bit == Accumulate("Xor8Bit", Xor(reg.A, Operand(ir.arg2)), 0, 0, 0)

Cp8Bit ==
  LET v == Operand(ir.arg2)
  IN  /\ Dispatched("Cp8Bit")
      /\ SetFlags(IsZero(Wrap8(reg.A - v)), 1,
                  Flag(~DoesHalfBorrow8(reg.A, v)), Flag(~DoesBorrow8(reg.A, v)))
      /\ UNCHANGED <<reg, pad, sp, mem>> /\ ControlKept

Inc8Bit ==
  LET v == Operand(ir.arg1)
  IN  Modify("Inc8Bit", Wrap8(v + 1), 0, Flag(DoesHalfCarry8(v, 1)), flag.C)

Dec8Bit ==
  LET v == Operand(ir.arg1)
  IN  Modify("Dec8Bit", Wrap8(v - 1), 1, Flag(DoesHalfBorrow8(v, 1)), flag.C)

Add16Bit ==
  LET v == GetParameterValue16Bit(ir.arg2)
  IN  /\ Dispatched("Add16Bit")
      /\ reg' = RegWith("HL", Wrap16(rHL + v))
      /\ SetFlags(flag.Z, 0, Flag(DoesHalfCarry16(rHL, v)), Flag(DoesCarry16(rHL, v)))
      /\ UNCHANGED <<pad, sp, mem>> /\ ControlKept

AddSPLiteral ==
  LET v == Signed(GetParameterValue8Bit(ir.arg2))
  IN  /\ Dispatched("AddSPLiteral")
      /\ sp' = Wrap16(sp + v)
      /\ IF v < 0
         THEN SetFlags(0, 0, Flag(DoesHalfBorrow16(sp, v)), Flag(DoesBorrow16(sp, v)))
         ELSE SetFlags(0, 0, Flag(DoesHalfCarry16(sp, v)), Flag(DoesCarry16(sp, v)))
      /\ UNCHANGED <<reg, pad, mem>> /\ ControlKept

(* The pair that the first argument names becomes v. *)
AssignPair(name, v) ==
  LET p == ir.arg1.reg
  IN  /\ Dispatched(name)
      /\ reg' = RegWith(p, v) /\ flag' = FlagWith(p, v) /\ pad' = PadWith(p, v)
      /\ sp' = IF p = "SP" THEN v ELSE sp
      /\ UNCHANGED mem /\ ControlKept

Inc16Bit == AssignPair("Inc16Bit", Wrap16(GetRegisterValue16Bit(ir.arg1.reg) + 1))
Dec16Bit == AssignPair("Dec16Bit", Wrap16(GetRegisterValue16Bit(ir.arg1.reg) - 1))

(***************************************************************************)
(* Swaps, decimal adjustment, the single flags, and control.               *)
(***************************************************************************)
Swap ==
  LET v == Operand(ir.arg1)
  IN  Modify("Swap", Wrap8(16 * v) + v \div 16, 0, 0, 0)

(* Mutant: the hundreds are added to an int and kept. *)
Adjusted_Wide(a) == a + 6 * (a \div 10) + 6 * 15 * (a \div 100)

(* The loop over the digits of rA, of which a byte has at most three. *)
Adjusted(a) == Wrap8(a + 6 * (a \div 10) + Wrap8(6 * 15) * (a \div 100))

DAA ==
  /\ Dispatched("DAA")
  /\ reg' = [reg EXCEPT !.A = Adjusted(reg.A)]
  /\ SetFlags(IsZero(Adjusted(reg.A)), flag.N, 0, Flag(reg.A > 100))
  /\ UNCHANGED <<pad, sp, mem>> /\ ControlKept

CPL ==
  /\ Dispatched("CPL")
  /\ reg' = [reg EXCEPT !.A = 255 - reg.A]
  /\ SetFlags(flag.Z, 1, 1, flag.C)
  /\ UNCHANGED <<pad, sp, mem>> /\ ControlKept

CCF ==
  /\ Dispatched("CCF")
  /\ reg' = [reg EXCEPT !.A = 255 - reg.A]
  /\ SetFlags(flag.Z, 0, 0, 1 - flag.C)
  /\ UNCHANGED <<pad, sp, mem>> /\ ControlKept

SCF ==
  /\ Dispatched("SCF")
  /\ SetFlags(flag.Z, 0, 0, 1)
  /\ UNCHANGED <<reg, pad, sp, mem>> /\ ControlKept

NOP == Dispatched("NOP") /\ UNCHANGED <<reg, flag, pad, sp, mem>> /\ ControlKept
Stop == Dispatched("Stop") /\ UNCHANGED <<reg, flag, pad, sp, mem>> /\ ControlKept

Control(name, ime_, halted_) ==
  /\ Dispatched(name)
  /\ ime' = ime_ /\ halted' = halted_
  /\ UNCHANGED <<reg, flag, pad, sp, mem>>

Halt == Control("Halt", ime, TRUE)
DI == Control("DI", FALSE, halted)
EI == Control("EI", TRUE, halted)

(***************************************************************************)
(* Rotations and shifts: what a value becomes, with the carry before it.   *)
(***************************************************************************)
RotateLeft(v) == Wrap8(2 * v) + NthBit(v, 128)
RotateRight(v) == v \div 2 + 128 * NthBit(v, 1)

(* Mutant: the carry goes into the bit it came from. *)
LeftThroughCarry_Swapped(v, c) == Wrap8(2 * v) + NthBit(v, 128)

LeftThroughCarry(v, c) == Wrap8(2 * v) + c
RightThroughCarry(v, c) == v \div 2 + 128 * c

Rotate(name, result, carry) ==
  Accumulate(name, result, 0, 0, carry)

RLCA == Rotate("RLCA", RotateLeft(reg.A), NthBit(reg.A, 128))
RLA  == Rotate("RLA", LeftThroughCarry(reg.A, flag.C), NthBit(reg.A, 128))
RRCA == Rotate("RRCA", RotateRight(reg.A), NthBit(reg.A, 1))
RRA  == Rotate("RRA", RightThroughCarry(reg.A, flag.C), NthBit(reg.A, 1))

Left(name, result) == Modify(name, result, 0, 0, NthBit(Operand(ir.arg1), 128))
Right(name, result) == Modify(name, result, 0, 0, NthBit(Operand(ir.arg1), 1))

RLC == Left("RLC", RotateLeft(Operand(ir.arg1)))
RL  == Left("RL", LeftThroughCarry(Operand(ir.arg1), flag.C))
RRC == Right("RRC", RotateRight(Operand(ir.arg1)))
RR  == Right("RR", RightThroughCarry(Operand(ir.arg1), flag.C))
SLA == Left("SLA", Wrap8(2 * Operand(ir.arg1)))
SRA == Right("SRA", Operand(ir.arg1) \div 2 + 128 * NthBit(Operand(ir.arg1), 128))
SRL == Right("SRL", Operand(ir.arg1) \div 2)

(***************************************************************************)
(* Single bits.                                                            *)
(***************************************************************************)
Weight == <<1, 2, 4, 8, 16, 32, 64, 128>>[GetParameterValue8Bit(ir.arg1) + 1]

Bit ==
  LET v == IF handler.form = "Address" THEN Read(rHL) ELSE reg[ir.arg2.reg]
  IN  /\ Dispatched("Bit")
      /\ SetFlags(IsZero(NthBit(v, Weight)), 0, 1, flag.C)
      /\ UNCHANGED <<reg, pad, sp, mem>> /\ ControlKept

(* Set and Res look at the argument itself for where the byte is. *)
BitOperand ==
  IF ir.arg2.is_pointer THEN Read(GetParameterValue16Bit(ir.arg2)) ELSE reg[ir.arg2.reg]

Set ==
  /\ Dispatched("Set")
  /\ Store(ir.arg2, ir.arg2.is_pointer, Or(BitOperand, Weight))
  /\ UNCHANGED <<flag, pad, sp>> /\ ControlKept

Res ==
  /\ Dispatched("Res")
  /\ Store(ir.arg2, ir.arg2.is_pointer, And(BitOperand, 255 - Weight))
  /\ UNCHANGED <<flag, pad, sp>> /\ ControlKept

(***************************************************************************)
(* Loads.                                                                  *)
(***************************************************************************)
LoadN == LoadRegister("LoadN", ir.arg1.reg, GetParameterValue8Bit(ir.arg2))
LoadRR8Bit == LoadRegister("LoadRR8Bit", ir.arg1.reg, GetParameterValue8Bit(ir.arg2))
LoadRR8BitAddress ==
  LoadRegister("LoadRR8BitAddress", ir.arg1.reg, Read(GetParameterValue16Bit(ir.arg2)))
LoadRR8BitIntoAddress ==
  WriteMemory("LoadRR8BitIntoAddress", GetParameterValue16Bit(ir.arg1),
              GetParameterValue8Bit(ir.arg2))
Load8BitLiteral ==
  WriteMemory("Load8BitLiteral", GetParameterValue16Bit(ir.arg1), GetParameterValue8Bit(ir.arg2))

LoadAN == LoadRegister("LoadAN", "A", Read(GetParameterValue16Bit(ir.arg2)))
LoadAN16BitLiteral ==
  LoadRegister("LoadAN16BitLiteral", "A", Read(GetParameterValue16Bit(ir.arg2)))
LoadAN8BitLiteral == LoadRegister("LoadAN8BitLiteral", "A", GetParameterValue8Bit(ir.arg2))
LoadNA == LoadRegister("LoadNA", ir.arg1.reg, reg.A)
LoadNAAddress == WriteMemory("LoadNAAddress", GetParameterValue16Bit(ir.arg1), reg.A)
LoadNA16BitLiteral ==
  WriteMemory("LoadNA16BitLiteral", GetParameterValue16Bit(ir.arg1), reg.A)

HighMemory == 255 * 256
LoadAC == LoadRegister("LoadAC", "A", Read(HighMemory + reg.C))
LoadCA == WriteMemory("LoadCA", HighMemory + reg.C, reg.A)
LoadHNA == WriteMemory("LoadHNA", HighMemory + GetParameterValue8Bit(ir.arg1), reg.A)
LoadHAN == LoadRegister("LoadHAN", "A", Read(HighMemory + GetParameterValue8Bit(ir.arg2)))

(* A and the byte at HL, which moves on by step. *)
LoadAndStep(name, step) ==
  /\ Dispatched(name)
  /\ reg' = [RegWith("HL", Wrap16(rHL + step)) EXCEPT !.A = Read(rHL)]
  /\ UNCHANGED <<flag, pad, sp, mem>> /\ ControlKept
StoreAndStep(name, step) ==
  /\ Dispatched(name)
  /\ mem' = Written(rHL, reg.A)
  /\ reg' = RegWith("HL", Wrap16(rHL + step))
  /\ UNCHANGED <<flag, pad, sp>> /\ ControlKept

LoadDecAHL == LoadAndStep("LoadDecAHL", -1)
LoadDecHLA == StoreAndStep("LoadDecHLA", -1)
LoadIncAHL == LoadAndStep("LoadIncAHL", 1)
LoadIncHLA == StoreAndStep("LoadIncHLA", 1)

LoadNN == AssignPair("LoadNN", GetParameterValue16Bit(ir.arg2))

LoadSPHL ==
  /\ Dispatched("LoadSPHL")
  /\ sp' = rHL
  /\ UNCHANGED <<reg, flag, pad, mem>> /\ ControlKept

(* The flags come from the lower byte of rSP. *)
LoadHLSP ==
  LET v == Signed(GetParameterValue8Bit(ir.arg2))
  IN  /\ Dispatched("LoadHLSP")
      /\ reg' = RegWith("HL", Wrap16(sp + v))
      /\ IF v < 0
         THEN SetFlags(0, 0, Flag(DoesHalfBorrow8(sp, v)), Flag(DoesBorrow8(sp, v)))
         ELSE SetFlags(0, 0, Flag(DoesHalfCarry8(sp, v)), Flag(DoesCarry8(sp, v)))
      /\ UNCHANGED <<pad, sp, mem>> /\ ControlKept

WrittenTwice(a, v, b, w) ==
  [x \in Ram |-> IF x = b THEN w ELSE IF x = a THEN v ELSE mem[x]]

LoadNNSP ==
  LET a == GetParameterValue16Bit(ir.arg1)
  IN  /\ Dispatched("LoadNNSP")
      /\ mem' = WrittenTwice(a, Low(sp), Wrap16(a + 1), High(sp))
      /\ UNCHANGED <<reg, flag, pad, sp>> /\ ControlKept

(***************************************************************************)
(* The stack: the lower byte above the higher one.                         *)
(***************************************************************************)
Push ==
  LET v == GetRegisterValue16Bit(ir.arg1.reg)
  IN  /\ Dispatched("Push")
      /\ mem' = WrittenTwice(Wrap16(sp - 1), Low(v), Wrap16(sp - 2), High(v))
      /\ sp' = Wrap16(sp - 2)
      /\ UNCHANGED <<reg, flag, pad>> /\ ControlKept

(* Mutant: the bytes are popped in the order in which they were pushed. *)
PollRegister_Swapped == 256 * Read(Wrap16(sp + 1)) + Read(sp)

PollRegister == 256 * Read(sp) + Read(Wrap16(sp + 1))

Pop ==
  LET p == ir.arg1.reg
  IN  /\ Dispatched("Pop")
      /\ reg' = RegWith(p, PollRegister)
      /\ flag' = FlagWith(p, PollRegister) /\ pad' = PadWith(p, PollRegister)
      /\ sp' = Wrap16(sp + 2)
      /\ UNCHANGED mem /\ ControlKept

-----------------------------------------------------------------------------
AluStep ==
  Add8Bit \/ ADC8Bit \/ Sub8Bit \/ SBC8Bit \/ And8Bit \/ Or8Bit \/ Xor8Bit \/ Cp8Bit
  \/ Inc8Bit \/ Dec8Bit \/ Add16Bit \/ AddSPLiteral \/ Inc16Bit \/ Dec16Bit
ControlStep ==
  Swap \/ DAA \/ CPL \/ CCF \/ SCF \/ NOP \/ Stop \/ Halt \/ DI \/ EI
ShiftStep ==
  RLCA \/ RLA \/ RRCA \/ RRA \/ RLC \/ RL \/ RRC \/ RR \/ SLA \/ SRA \/ SRL
BitStep == Bit \/ Set \/ Res
LoadStep ==
  LoadN \/ LoadRR8Bit \/ LoadRR8BitAddress \/ LoadRR8BitIntoAddress \/ Load8BitLiteral
  \/ LoadAN \/ LoadAN16BitLiteral \/ LoadAN8BitLiteral \/ LoadNA \/ LoadNAAddress
  \/ LoadNA16BitLiteral \/ LoadAC \/ LoadCA \/ LoadHNA \/ LoadHAN
  \/ LoadDecAHL \/ LoadDecHLA \/ LoadIncAHL \/ LoadIncHLA
  \/ LoadNN \/ LoadSPHL \/ LoadHLSP \/ LoadNNSP \/ Push \/ Pop

Next == Fetch \/ AluStep \/ ControlStep \/ ShiftStep \/ BitStep \/ LoadStep

Spec == Init /\ [][Next]_vars

(***************************************************************************)
(* Properties.                                                             *)
(***************************************************************************)

(* Every register keeps its width, whatever the handlers compute. *)
TypeOK ==
  /\ reg \in RegisterFile
  /\ flag \in FlagBits
  /\ pad \in 0 .. 4095 /\ sp \in Word
  /\ pc \in 0 .. Len(code)
  /\ mem \in [Ram -> Byte]
  /\ ime \in BOOLEAN /\ halted \in BOOLEAN
  /\ ir = NoInstruction <=> handler = None

(* The two tables, kept by hand in two files, agree: every instruction that *)
(* can be fetched has arguments its handler can use, none lacks a handler   *)
(* and no opcode is listed twice.                                           *)
Executable ==
  /\ handler # None => PointersExist
  /\ DOMAIN CreateOpcodeMap = DOMAIN CreateInstructionMap
  /\ Repeated = {}

(* Additions and subtractions compute what they do on integers, with C and  *)
(* H as their carries, though the code looks at single bits.  Where value   *)
(* and carry no longer fit a byte, ADC and SBC lose C, and H where the      *)
(* lower digits no longer fit; the flags of a subtraction mean no borrow.   *)
(* DAA turns a number below 100 into its two decimal digits.                *)
Adding == {"Add8Bit", "ADC8Bit"}
Subtracting == {"Sub8Bit", "SBC8Bit", "Cp8Bit"}
CarryIn == IF handler.name \in {"ADC8Bit", "SBC8Bit"} THEN flag.C ELSE 0

SumExact(v, c) ==
  /\ reg'.A = (reg.A + v + c) % 256
  /\ v + c <= 255 => (flag'.C = 1 <=> reg.A + v + c > 255)
  /\ (v % 16) + c <= 15 => (flag'.H = 1 <=> (reg.A % 16) + (v % 16) + c > 15)

DifferenceExact(v, c) ==
  /\ reg'.A = IF handler.name = "Cp8Bit" THEN reg.A ELSE (reg.A - v - c) % 256
  /\ flag'.Z = 1 <=> (reg.A - v - c) % 256 = 0
  /\ v + c <= 255 => (flag'.C = 1 <=> reg.A >= v + c)
  /\ (v % 16) + c <= 15 => (flag'.H = 1 <=> reg.A % 16 >= (v % 16) + c)

ExactStep ==
  /\ handler.name \in Adding => SumExact(Operand(ir.arg2), CarryIn)
  /\ handler.name \in Subtracting => DifferenceExact(Operand(ir.arg2), CarryIn)
  /\ handler.name = "Add16Bit" =>
       65536 * flag'.C + rHL' = rHL + GetParameterValue16Bit(ir.arg2)
  /\ handler.name = "DAA" /\ reg.A < 100 =>
       reg'.A = 16 * (reg.A \div 10) + (reg.A % 10)

(* Every step of the arithmetic handlers is exact in this sense.            *)
ArithmeticExact == [][ExactStep]_<<handler, reg, flag>>

(* Rotations move bits and lose none: through the carry the ones of value   *)
(* and carry are as many as before, in a circle those of the value are.     *)
Ones(v) ==
  NthBit(v, 1) + NthBit(v, 2) + NthBit(v, 4) + NthBit(v, 8)
  + NthBit(v, 16) + NthBit(v, 32) + NthBit(v, 64) + NthBit(v, 128)

(* The ones of all registers and, where a handler works on it, of the byte  *)
(* that HL points at.                                                       *)
OnesHeld(r, m) ==
  Ones(r.A) + Ones(r.B) + Ones(r.C) + Ones(r.D) + Ones(r.E) + Ones(r.H) + Ones(r.L)
  + (IF handler.form = "Address" /\ rHL \in Ram THEN Ones(m[rHL]) ELSE 0)

KeepsOnes ==
  handler.form # "Address" \/ rHL \in Ram =>
    /\ handler.name \in {"RL", "RR", "RLA", "RRA"} =>
         OnesHeld(reg', mem') + flag'.C = OnesHeld(reg, mem) + flag.C
    /\ handler.name \in {"SLA", "SRL"} => OnesHeld(reg', mem') + flag'.C = OnesHeld(reg, mem)
    /\ handler.name \in {"RLC", "RRC", "RLCA", "RRCA", "Swap"} =>
         OnesHeld(reg', mem') = OnesHeld(reg, mem)

(* No step of a rotation or a shift loses a bit.                            *)
BitsConserved == [][KeepsOnes]_<<handler, reg, mem, flag>>

(***************************************************************************)
(* Short programs, run to their end.                                       *)
(***************************************************************************)
Over == pc = Len(code) /\ handler = None

(* LD A,L; ADD A,C; LD L,A; LD A,H; ADC A,B; LD H,A, and with SUB and SBC. *)
SumOfPairs == <<125, 129, 111, 124, 136, 103>>
DifferenceOfPairs == <<125, 145, 111, 124, 152, 103>>
LoadBoth(x, y) == <<1, Low(x), High(x), 33, Low(y), High(y)>>
Loaded(at) == code[at] + 256 * code[at + 1]

(* A sum of two bytes each, with ADD and ADC, is exact.  A difference with  *)
(* SUB and SBC never is: SUB sets C where there is no borrow and SBC takes  *)
(* C for a borrow, so that the upper byte is one too low or one too high.   *)
LoadsBoth == Len(code) = 12 /\ code[1] = 1 /\ code[4] = 33

WideArithmetic ==
  Over /\ LoadsBoth =>
    LET borrow == code[5] < code[2] IN
    /\ SubSeq(code, 7, 12) = SumOfPairs => rHL = Wrap16(Loaded(5) + Loaded(2))
    /\ SubSeq(code, 7, 12) = DifferenceOfPairs =>
         rHL = Wrap16(Loaded(5) - Loaded(2) + (IF borrow THEN 256 ELSE -256))

(* PUSH of two pairs and POP of two, where the stack has room in RAM: each  *)
(* pair popped holds what was pushed last, the stack is as it was, and A,   *)
(* which PUSH AF does not save, is what it was.                             *)
PushOf(p) == 16 * p + 197
PopOf(p) == 16 * p + 193
StartValue(p) ==
  LET r == start.reg  f == start.flag IN
  CASE p = "BC" -> 256 * r.B + r.C [] p = "DE" -> 256 * r.D + r.E
    [] p = "HL" -> 256 * r.H + r.L
    [] p = "AF" -> f.Z + 2 * f.N + 4 * f.H + 8 * f.C

StackHasRoom == \A k \in 1 .. 4 : Wrap16(start.sp - k) \in Ram

StackMovesPairs ==
  Over /\ Len(code) = 4 /\ StackHasRoom => \A p, q, r, s \in 0 .. 3 :
    code = <<PushOf(p), PushOf(q), PopOf(r), PopOf(s)>> =>
      /\ GetRegisterValue16Bit(Pair(s, "AF")) = StartValue(Pair(p, "AF"))
      /\ r # s => GetRegisterValue16Bit(Pair(r, "AF")) = StartValue(Pair(q, "AF"))
      /\ sp = start.sp /\ reg.A = start.reg.A
============================================================================
