---------------------------- MODULE Instructions ----------------------------
(***************************************************************************)
(* What the decompiler, the opcode parser and the executor each read out   *)
(* of an Instruction (cc/backend/decompiler/instruction.h).  Instructions  *)
(* that differ only in the data they compute are one kind, "plain"; every  *)
(* way of changing the program counter is a kind of its own.  The three    *)
(* components compute the address a jump goes to in three different ways.  *)
(***************************************************************************)
EXTENDS Integers

CONSTANTS
  AddressSpace,   \* number of addresses: 2^16 in the emulator
  Restart20       \* the target of RST 0x20

ASSUME AddressSpaceAssumption == AddressSpace \in Nat \ {0, 1}

Address == 0 .. AddressSpace - 1

(* uint16_t arithmetic.                                                     *)
Wrap(n) == n % AddressSpace

(* "jp" JP NN, "jpcc" JP CC,NN, "jphl" JP (HL), "jr" JR N, "jrcc" JR CC,N,  *)
(* "call" CALL NN, "callcc" CALL CC,NN, "rst" RST N, "ret" RET, "retcc"     *)
(* RET CC, "reti" RETI; "ldsp" loads SP, "store" writes one byte, "illegal" *)
(* is an opcode the instruction map lacks, "plain" any other instruction.   *)
Conditional == {"jpcc", "jrcc", "callcc", "retcc"}
Relative == {"jr", "jrcc"}
Absolute == {"jp", "jpcc", "call", "callcc", "rst"}
Returning == {"ret", "retcc", "reti"}
Calling == {"call", "callcc", "rst"}

Jumping == Relative \union Absolute \union Returning \union {"jphl"}

Straight == {"plain", "ei", "di", "halt", "ldsp", "store"}

InstructionKind == Jumping \union Straight \union {"illegal"}

(* arg is the absolute address, or the signed 8-bit offset of a JR.         *)
Instruction == [width : 1 .. 3, kind : InstructionKind, arg : Int]

-----------------------------------------------------------------------------
(* The decompiler: returns and JP (HL) cannot be resolved statically; a JR  *)
(* counts from the following instruction.                                   *)
HasStaticTarget(i) == i.kind \in Relative \union Absolute

StaticTarget(a, i) ==
  IF i.kind \in Relative THEN Wrap(a + i.width + i.arg) ELSE Wrap(i.arg)

(* The decompiler goes on after an instruction that is no jump, or is       *)
(* conditional, or is a CALL.  An RST has one argument and another opcode   *)
(* than CALL, so for it the answer is no.                                   *)
(* Mutant: no CALL is told from a jump.                                     *)
GoesOn_NotCalls(i) == i.kind \in Straight \union Conditional

GoesOn(i) == i.kind \in Straight \union {"call"} \union Conditional

-----------------------------------------------------------------------------
(* The opcode parser, which looks where a jump at address a may go before   *)
(* it is executed: ret is the word on top of the stack, hl the register.    *)
(* It counts a JR from the JR itself, and its case for RST 0x20 breaks out  *)
(* before it assigns, leaving whatever the variable held.                   *)
(* Mutant: returns are not resolved.                                        *)
ParserTargets_NoReturns(a, i, ret, hl) ==
  CASE i.kind \in Relative -> {Wrap(a + i.arg)}
    [] i.kind = "jphl" -> {hl}
    [] i.kind = "rst" /\ i.arg = Restart20 -> Address
    [] OTHER -> {Wrap(i.arg)}

ParserTargets(a, i, ret, hl) ==
  CASE i.kind \in Relative -> {Wrap(a + i.arg)}
    [] i.kind \in Returning -> {ret}
    [] i.kind = "jphl" -> {hl}
    [] i.kind = "rst" /\ i.arg = Restart20 -> Address
    [] OTHER -> {Wrap(i.arg)}
=============================================================================
