--------------------------- MODULE InstructionMap ---------------------------
(***************************************************************************)
(* How bytes become instructions: the table of instruction_map.cc, the     *)
(* parameter factories that read the bytes after the opcode, and the       *)
(* opcode that ROMReader makes of the first two bytes.                     *)
(*                                                                         *)
(* The source lists one row for each opcode.  Here a row stands for the    *)
(* family of opcodes that differ in a register, a pair or a condition,     *)
(* whose number is part of the opcode.                                     *)
(***************************************************************************)
EXTENDS Integers, Sequences, FiniteSets

(* Parameters.  Only a VALUE has a width: the bytes of it in the program.  *)
param(type, name, val, width, is_pointer) ==
  [type |-> type, reg |-> name, val |-> val, width |-> width,
   is_pointer |-> is_pointer]

val(name) == param("REGISTER", name, 0, 0, FALSE)
ptr(name) == param("REGISTER", name, 0, 0, TRUE)
literal(width) == param("VALUE", "none", 0, width, FALSE)
address(width) == param("VALUE", "none", 0, width, TRUE)
bit == param("BIT", "none", 0, 0, FALSE)
con(value) == param("CONSTANT", "none", value, 0, FALSE)
empty == param("EMPTY", "none", 0, 0, FALSE)

row(opcode, instruction, clock_cycles, left, right, is_jump, width) ==
  [opcode |-> opcode, instruction |-> instruction, clock_cycles |-> clock_cycles,
   left |-> left, right |-> right, is_jump |-> is_jump, width |-> width]

instr(opcode, instruction, clock_cycles, left, right) ==
  row(opcode, instruction, clock_cycles, left, right, FALSE, 1)
wide(opcode, instruction, clock_cycles, left, right) ==
  row(opcode, instruction, clock_cycles, left, right, FALSE, 2)
jump(opcode, instruction, clock_cycles, left, right) ==
  row(opcode, instruction, clock_cycles, left, right, TRUE, 1)

(* The numbers the opcodes give to registers, pairs and conditions.  The   *)
(* sixth register is the byte that HL points at.                           *)
M == 6
Register8 == <<"B", "C", "D", "E", "H", "L", "HL", "A">>
operand(r) == IF r = M THEN ptr("HL") ELSE val(Register8[r + 1])
Pair(p, last) == IF p = 3 THEN last ELSE <<"BC", "DE", "HL">>[p + 1]
Condition == <<"ZN", "ZF", "CN", "CF">>
Alu == <<"ADD", "ADC", "SUB", "SBC", "AND", "XOR", "OR", "CP">>
Shift == <<"RLC", "RRC", "RL", "RR", "SLA", "SRA", "SWAP", "SRL">>

(* 4 clock cycles, or as many more as a byte of memory takes. *)
Slow(r, fast, slow) == IF r = M THEN slow ELSE fast

LoadRows ==
  {instr("LD", 8 * r + 6, Slow(r, 8, 12), operand(r), literal(1)) : r \in 0 .. 7}
  \cup {instr("LD", 64 + 8 * w[1] + w[2], IF M \in {w[1], w[2]} THEN 8 ELSE 4,
              operand(w[1]), operand(w[2])) : w \in (0 .. 7) \X (0 .. 7) \ {<<M, M>>}}
  \cup {instr("LD", 16 * p + 10, 8, val("A"), ptr(Pair(p, "SP"))) : p \in 0 .. 1}
  \cup {instr("LD", 16 * p + 2, 8, ptr(Pair(p, "SP")), val("A")) : p \in 0 .. 1}
  \cup {instr("LD", 250, 16, val("A"), address(2)), instr("LD", 234, 16, address(2), val("A")),
        instr("LD", 242, 8, val("A"), ptr("C")), instr("LD", 226, 8, ptr("C"), val("A"))}

WideLoadRows ==
  {instr("LDD", 58, 8, val("A"), ptr("HL")), instr("LDD", 50, 8, ptr("HL"), val("A")),
   instr("LDI", 42, 8, val("A"), ptr("HL")), instr("LDI", 34, 8, ptr("HL"), val("A")),
   instr("LD", 224, 12, address(1), val("A")), instr("LD", 240, 12, val("A"), address(1)),
   instr("LD", 249, 8, val("SP"), val("HL")), instr("LDHL", 248, 12, val("SP"), literal(1)),
   instr("LD", 8, 20, address(2), val("SP"))}
  \cup {instr("LD", 16 * p + 1, 12, val(Pair(p, "SP")), literal(2)) : p \in 0 .. 3}

StackRows ==
  {instr("PUSH", 16 * p + 197, 16, val(Pair(p, "AF")), empty) : p \in 0 .. 3}
  \cup {instr("POP", 16 * p + 193, 12, val(Pair(p, "AF")), empty) : p \in 0 .. 3}

AluRows ==
  {instr(Alu[o + 1], 128 + 8 * o + r, Slow(r, 4, 8), val("A"), operand(r)) :
     o \in 0 .. 7, r \in 0 .. 7}
  \cup {instr(Alu[o + 1], 198 + 8 * o, 8, val("A"), literal(1)) : o \in 0 .. 7}

CountRows ==
  {instr("INC", 8 * r + 4, Slow(r, 4, 12), operand(r), empty) : r \in 0 .. 7}
  \cup {instr("DEC", 8 * r + 5, Slow(r, 4, 12), operand(r), empty) : r \in 0 .. 7}
  \cup {instr("ADD", 16 * p + 9, 8, val("HL"), val(Pair(p, "SP"))) : p \in 0 .. 3}
  \cup {instr("ADD", 232, 16, val("SP"), literal(1))}
  \cup {instr("INC", 16 * p + 3, 8, val(Pair(p, "SP")), empty) : p \in 0 .. 3}
  \cup {instr("DEC", 16 * p + 11, 8, val(Pair(p, "SP")), empty) : p \in 0 .. 3}

ControlRows ==
  {instr(w[1], w[2], 4, empty, empty) :
     w \in {<<"DAA", 39>>, <<"CPL", 47>>, <<"CCF", 63>>, <<"SCF", 55>>, <<"NOP", 0>>,
            <<"HALT", 118>>, <<"DI", 243>>, <<"EI", 251>>, <<"RLCA", 7>>, <<"RLA", 23>>,
            <<"RRCA", 15>>, <<"RRA", 31>>}}
  \cup {wide("STOP", 4096, 4, empty, empty)}

CB == 203 * 256

ShiftRows ==
  {wide(Shift[s + 1], CB + 8 * s + r, Slow(r, 8, 16), operand(r), empty) :
     s \in 0 .. 7, r \in 0 .. 7}

BitRows ==
  {wide(w[1], CB + w[2] + r, Slow(r, 8, 16), bit, operand(r)) :
     w \in {<<"BIT", 64>>, <<"RES", 128>>, <<"SET", 192>>}, r \in 0 .. 7}

JumpRows ==
  {jump("JP", 195, 12, literal(2), empty), jump("JP", 233, 4, ptr("HL"), empty),
   jump("JR", 24, 8, literal(1), empty), jump("CALL", 205, 12, literal(2), empty),
   jump("RET", 201, 8, empty, empty), jump("RETI", 217, 8, empty, empty)}
  \cup {jump("JP", 8 * c + 194, 12, val(Condition[c + 1]), literal(2)) : c \in 0 .. 3}
  \cup {jump("JR", 8 * c + 32, 8, val(Condition[c + 1]), literal(1)) : c \in 0 .. 3}
  \cup {jump("CALL", 8 * c + 196, 12, val(Condition[c + 1]), literal(2)) : c \in 0 .. 3}
  \cup {jump("RET", 8 * c + 192, 8, val(Condition[c + 1]), empty) : c \in 0 .. 3}
  \cup {jump("RST", 8 * n + 199, 32, con(8 * n), empty) : n \in 0 .. 7}

FactoryList ==
  LoadRows \cup WideLoadRows \cup StackRows \cup AluRows \cup CountRows
  \cup ControlRows \cup ShiftRows \cup BitRows \cup JumpRows

(* LOG(FATAL) of CreateInstructionMap: an opcode listed twice. *)
Repeated == {r \in FactoryList : \E s \in FactoryList : s # r /\ s.instruction = r.instruction}

CreateInstructionMap ==
  [o \in {r.instruction : r \in FactoryList} |->
     CHOOSE r \in FactoryList : r.instruction = o]

(***************************************************************************)
(* Reading an instruction at the start of a sequence of bytes.             *)
(***************************************************************************)
OpcodeValue(first, second) ==
  CASE first = 203 /\ second >= 64 -> CB + 64 * (second \div 64) + (second % 8)
    [] first = 203 /\ second < 64 -> CB + second
    [] first = 0 /\ second = 16 -> second * 256 + first
    [] OTHER -> first

(* The opcode at address, which must be a byte of the program. *)
OpcodeAt(bytes, at) ==
  IF at = Len(bytes) THEN bytes[at] ELSE OpcodeValue(bytes[at], bytes[at + 1])

TotalWidth(factory) == factory.width + factory.left.width + factory.right.width

(* RawInstruction: the parameter is what its last bytes say, low byte first. *)
RawParam(raw, width) ==
  IF width = 2 THEN raw[Len(raw)] * 256 + raw[Len(raw) - 1] ELSE raw[Len(raw)]

BuildParameter(factory, raw) ==
  [type |-> IF factory.type \in {"BIT", "CONSTANT"} THEN "VALUE" ELSE factory.type,
   reg |-> factory.reg,
   val |-> CASE factory.type = "VALUE" -> RawParam(raw, factory.width)
             [] factory.type = "BIT" -> (raw[2] \div 8) % 8
             [] OTHER -> factory.val,
   is_pointer |-> factory.is_pointer]

Build(factory, raw) ==
  [opcode |-> factory.opcode, instruction |-> factory.instruction,
   clock_cycles |-> factory.clock_cycles,
   arg1 |-> BuildParameter(factory.left, raw), arg2 |-> BuildParameter(factory.right, raw),
   is_jump |-> factory.is_jump, instruction_width_bytes |-> TotalWidth(factory)]
============================================================================
