----------------------------- MODULE OpcodeMap -----------------------------
(***************************************************************************)
(* The table of opcode_map.cc, which gives each opcode its handler.  It is *)
(* kept by hand beside the table of instruction_map.cc, which gives the    *)
(* same opcode its arguments.                                              *)
(*                                                                         *)
(* Handlers that differ only in where their operand comes from share a     *)
(* name here: Add8Bit, Add8BitAddress and Add8BitLiteral are "Add8Bit" of  *)
(* the forms "Plain", "Address" and "Literal".                             *)
(***************************************************************************)
EXTENDS InstructionMap

(* Entries are <<opcode, name, form>>.  The copies for a register and for   *)
(* the byte at HL are listed under the number r of the operand.             *)
entries(opcodes, name) == {<<o, name, "Plain">> : o \in opcodes}
copy(r) == IF r = M THEN "Address" ELSE "Plain"

Registers8 == (0 .. 7) \ {M}
IsA == 7

LoadEntries ==
  entries({8 * r + 6 : r \in Registers8 \ {IsA}}, "LoadN")
  \cup entries({64 + 8 * r + s : r \in Registers8 \ {IsA}, s \in Registers8 \ {IsA}}
               \cup {64 + 8 * IsA + r : r \in Registers8}, "LoadRR8Bit")
  \cup entries({64 + 8 * r + M : r \in Registers8}, "LoadRR8BitAddress")
  \cup entries({64 + 8 * M + r : r \in Registers8 \ {IsA}}, "LoadRR8BitIntoAddress")
  \cup entries({54}, "Load8BitLiteral")
  \cup entries({10, 26}, "LoadAN")
  \cup entries({250}, "LoadAN16BitLiteral")
  \cup entries({62}, "LoadAN8BitLiteral")
  \cup entries({64 + 8 * r + IsA : r \in Registers8 \ {IsA}}, "LoadNA")
  \cup entries({2, 18, 119}, "LoadNAAddress")
  \cup entries({234}, "LoadNA16BitLiteral")
  \cup entries({242}, "LoadAC") \cup entries({226}, "LoadCA")

WideLoadEntries ==
  entries({58}, "LoadDecAHL") \cup entries({50}, "LoadDecHLA")
  \cup entries({42}, "LoadIncAHL") \cup entries({34}, "LoadIncHLA")
  \cup entries({224}, "LoadHNA") \cup entries({240}, "LoadHAN")
  \cup entries({16 * p + 1 : p \in 0 .. 3}, "LoadNN")
  \cup entries({249}, "LoadSPHL") \cup entries({248}, "LoadHLSP")
  \cup entries({8}, "LoadNNSP")

StackEntries ==
  entries({16 * p + 197 : p \in 0 .. 3}, "Push")
  \cup entries({16 * p + 193 : p \in 0 .. 3}, "Pop")

AluHandler ==
  <<"Add8Bit", "ADC8Bit", "Sub8Bit", "SBC8Bit", "And8Bit", "Xor8Bit", "Or8Bit", "Cp8Bit">>

AluEntries ==
  {<<128 + 8 * o + r, AluHandler[o + 1], copy(r)>> : o \in 0 .. 7, r \in 0 .. 7}
  \cup {<<198 + 8 * o, AluHandler[o + 1], "Literal">> : o \in 0 .. 7}

CountEntries ==
  {<<8 * r + 4, "Inc8Bit", copy(r)>> : r \in 0 .. 7}
  \cup {<<8 * r + 5, "Dec8Bit", copy(r)>> : r \in 0 .. 7}
  \cup entries({16 * p + 9 : p \in 0 .. 3}, "Add16Bit") \cup entries({232}, "AddSPLiteral")
  \cup entries({16 * p + 3 : p \in 0 .. 3}, "Inc16Bit")
  \cup entries({16 * p + 11 : p \in 0 .. 3}, "Dec16Bit")

ControlEntries ==
  entries({39}, "DAA") \cup entries({47}, "CPL") \cup entries({63}, "CCF")
  \cup entries({55}, "SCF") \cup entries({0}, "NOP") \cup entries({118}, "Halt")
  \cup entries({4096}, "Stop") \cup entries({243}, "DI") \cup entries({251}, "EI")
  \cup entries({7}, "RLCA") \cup entries({23}, "RLA") \cup entries({15}, "RRCA")
  \cup entries({31}, "RRA")

ShiftHandler == <<"RLC", "RRC", "RL", "RR", "SLA", "SRA", "Swap", "SRL">>

ShiftEntries ==
  {<<CB + 8 * s + r, ShiftHandler[s + 1], copy(r)>> : s \in 0 .. 7, r \in 0 .. 7}

(* Mutant: BIT b, (HL) shares the handler of the registers. *)
BitEntries_NoAddress ==
  entries({CB + 64 + r : r \in 0 .. 7}, "Bit")
  \cup entries({CB + 192 + r : r \in 0 .. 7}, "Set")
  \cup entries({CB + 128 + r : r \in 0 .. 7}, "Res")

BitEntries ==
  {<<CB + 64 + r, "Bit", copy(r)>> : r \in 0 .. 7}
  \cup entries({CB + 192 + r : r \in 0 .. 7}, "Set")
  \cup entries({CB + 128 + r : r \in 0 .. 7}, "Res")

JumpEntries ==
  entries({195}, "Jump") \cup entries({8 * c + 194 : c \in 0 .. 3}, "JumpConditional")
  \cup entries({233}, "JumpHL") \cup entries({24}, "JumpRelative")
  \cup entries({8 * c + 32 : c \in 0 .. 3}, "JumpRelativeConditional")
  \cup entries({205}, "Call") \cup entries({8 * c + 196 : c \in 0 .. 3}, "CallConditional")
  \cup entries({8 * n + 199 : n \in 0 .. 7}, "Restart")
  \cup entries({201}, "Return") \cup entries({8 * c + 192 : c \in 0 .. 3}, "ReturnConditional")
  \cup entries({217}, "ReturnInterrupt")

Entries ==
  LoadEntries \cup WideLoadEntries \cup StackEntries \cup AluEntries \cup CountEntries
  \cup ControlEntries \cup ShiftEntries \cup BitEntries \cup JumpEntries

Handler(name, form) == [name |-> name, form |-> form]

CreateOpcodeMap ==
  [o \in {e[1] : e \in Entries} |->
     LET e == CHOOSE e \in Entries : e[1] = o IN Handler(e[2], e[3])]
============================================================================
