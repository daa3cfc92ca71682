----------------------------- MODULE CpuProofs -----------------------------
(***************************************************************************)
(* The instructions that change registers, flags and memory, for every     *)
(* program, every start and every set of addresses that hold memory.       *)
(*                                                                         *)
(* The argument begins with the two tables.  Their rows and entries fall   *)
(* into families, one for each comprehension that builds them; a row is    *)
(* described by what its family says of it, and so is an entry.  From the  *)
(* descriptions it follows that no opcode has two rows or two entries,     *)
(* that every row has an entry, and that the arguments of the row are the  *)
(* ones its handler asks pointers for.  The inductive invariant IInv says  *)
(* that the registers keep their widths (Typed) and that the instruction   *)
(* in hand has a handler that can run it (Fetched).  What a step computes  *)
(* is then a matter of arithmetic: the tests for carry and borrow are      *)
(* compared with the sums they stand for, and a byte with its eight bits.  *)
(***************************************************************************)
EXTENDS Cpu, SequenceTheorems, TLAPS

(***************************************************************************)
(* The rows of the instruction table and the entries of the handler table, family by family.*)
(***************************************************************************)

(* A row keeps the opcode it is listed under.                               *)
LEMMA RowOpcode ==
  ASSUME NEW o, NEW i, NEW c, NEW l, NEW r
  PROVE  /\ instr(o, i, c, l, r).instruction = i
         /\ wide(o, i, c, l, r).instruction = i
         /\ jump(o, i, c, l, r).instruction = i
  BY DEF instr, wide, jump, row

MoveRow(r) ==
  \E x, y \in 0 .. 7 :
    /\ x # M \/ y # M
    /\ r = instr("LD", 64 + 8 * x + y, IF M \in {x, y} THEN 8 ELSE 4, operand(x), operand(y))

LoadRow(r) ==
  \/ \E x \in 0 .. 7 : r = instr("LD", 8 * x + 6, Slow(x, 8, 12), operand(x), literal(1))
  \/ MoveRow(r)
  \/ \E p \in 0 .. 1 : r = instr("LD", 16 * p + 10, 8, val("A"), ptr(Pair(p, "SP")))
  \/ \E p \in 0 .. 1 : r = instr("LD", 16 * p + 2, 8, ptr(Pair(p, "SP")), val("A"))
  \/ r = instr("LD", 250, 16, val("A"), address(2))
  \/ r = instr("LD", 234, 16, address(2), val("A"))
  \/ r = instr("LD", 242, 8, val("A"), ptr("C"))
  \/ r = instr("LD", 226, 8, ptr("C"), val("A"))

WideLoadRow(r) ==
  \/ r = instr("LDD", 58, 8, val("A"), ptr("HL"))
  \/ r = instr("LDD", 50, 8, ptr("HL"), val("A"))
  \/ r = instr("LDI", 42, 8, val("A"), ptr("HL"))
  \/ r = instr("LDI", 34, 8, ptr("HL"), val("A"))
  \/ r = instr("LD", 224, 12, address(1), val("A"))
  \/ r = instr("LD", 240, 12, val("A"), address(1))
  \/ r = instr("LD", 249, 8, val("SP"), val("HL"))
  \/ r = instr("LDHL", 248, 12, val("SP"), literal(1))
  \/ r = instr("LD", 8, 20, address(2), val("SP"))
  \/ \E p \in 0 .. 3 : r = instr("LD", 16 * p + 1, 12, val(Pair(p, "SP")), literal(2))

StackRow(r) ==
  \/ \E p \in 0 .. 3 : r = instr("PUSH", 16 * p + 197, 16, val(Pair(p, "AF")), empty)
  \/ \E p \in 0 .. 3 : r = instr("POP", 16 * p + 193, 12, val(Pair(p, "AF")), empty)

AluRow(r) ==
  \/ \E x, y \in 0 .. 7 :
       r = instr(Alu[x + 1], 128 + 8 * x + y, Slow(y, 4, 8), val("A"), operand(y))
  \/ \E x \in 0 .. 7 : r = instr(Alu[x + 1], 198 + 8 * x, 8, val("A"), literal(1))

CountRow(r) ==
  \/ \E x \in 0 .. 7 : r = instr("INC", 8 * x + 4, Slow(x, 4, 12), operand(x), empty)
  \/ \E x \in 0 .. 7 : r = instr("DEC", 8 * x + 5, Slow(x, 4, 12), operand(x), empty)
  \/ \E p \in 0 .. 3 : r = instr("ADD", 16 * p + 9, 8, val("HL"), val(Pair(p, "SP")))
  \/ r = instr("ADD", 232, 16, val("SP"), literal(1))
  \/ \E p \in 0 .. 3 : r = instr("INC", 16 * p + 3, 8, val(Pair(p, "SP")), empty)
  \/ \E p \in 0 .. 3 : r = instr("DEC", 16 * p + 11, 8, val(Pair(p, "SP")), empty)

Plain == {<<"DAA", 39>>, <<"CPL", 47>>, <<"CCF", 63>>, <<"SCF", 55>>, <<"NOP", 0>>,
          <<"HALT", 118>>, <<"DI", 243>>, <<"EI", 251>>, <<"RLCA", 7>>, <<"RLA", 23>>,
          <<"RRCA", 15>>, <<"RRA", 31>>}
ControlRow(r) ==
  \/ \E w \in Plain : r = instr(w[1], w[2], 4, empty, empty)
  \/ r = wide("STOP", 4096, 4, empty, empty)

ShiftRow(r) ==
  \E x, y \in 0 .. 7 :
    r = wide(Shift[x + 1], CB + 8 * x + y, Slow(y, 8, 16), operand(y), empty)

BitRow(r) ==
  \E w \in {<<"BIT", 64>>, <<"RES", 128>>, <<"SET", 192>>} : \E y \in 0 .. 7 :
    r = wide(w[1], CB + w[2] + y, Slow(y, 8, 16), bit, operand(y))

JumpRow(r) ==
  \/ r = jump("JP", 195, 12, literal(2), empty)
  \/ r = jump("JP", 233, 4, ptr("HL"), empty)
  \/ r = jump("JR", 24, 8, literal(1), empty)
  \/ r = jump("CALL", 205, 12, literal(2), empty)
  \/ r = jump("RET", 201, 8, empty, empty)
  \/ r = jump("RETI", 217, 8, empty, empty)
  \/ \E c \in 0 .. 3 : r = jump("JP", 8 * c + 194, 12, val(Condition[c + 1]), literal(2))
  \/ \E c \in 0 .. 3 : r = jump("JR", 8 * c + 32, 8, val(Condition[c + 1]), literal(1))
  \/ \E c \in 0 .. 3 : r = jump("CALL", 8 * c + 196, 12, val(Condition[c + 1]), literal(2))
  \/ \E c \in 0 .. 3 : r = jump("RET", 8 * c + 192, 8, val(Condition[c + 1]), empty)
  \/ \E n \in 0 .. 7 : r = jump("RST", 8 * n + 199, 32, con(8 * n), empty)

LEMMA LoadRowsListed == \A r : r \in LoadRows <=> LoadRow(r)
  <1> DEFINE Moves ==
        {instr("LD", 64 + 8 * w[1] + w[2], IF M \in {w[1], w[2]} THEN 8 ELSE 4,
               operand(w[1]), operand(w[2])) : w \in (0 .. 7) \X (0 .. 7) \ {<<M, M>>}}
  <1> SUFFICES ASSUME NEW r PROVE r \in LoadRows <=> LoadRow(r)
    OBVIOUS
  <1>1. ASSUME r \in Moves PROVE MoveRow(r)
    <2>1. PICK w \in (0 .. 7) \X (0 .. 7) \ {<<M, M>>} :
             r = instr("LD", 64 + 8 * w[1] + w[2], IF M \in {w[1], w[2]} THEN 8 ELSE 4,
                       operand(w[1]), operand(w[2]))
      BY <1>1
    <2>2. w[1] \in 0 .. 7 /\ w[2] \in 0 .. 7 /\ (w[1] # M \/ w[2] # M)
      OBVIOUS
    <2> QED
      BY <2>1, <2>2 DEF MoveRow
  <1>2. ASSUME MoveRow(r) PROVE r \in Moves
    <2>1. PICK x \in 0 .. 7, y \in 0 .. 7 :
             /\ x # M \/ y # M
             /\ r = instr("LD", 64 + 8 * x + y, IF M \in {x, y} THEN 8 ELSE 4,
                          operand(x), operand(y))
      BY <1>2 DEF MoveRow
    <2>2. /\ <<x, y>> \in (0 .. 7) \X (0 .. 7) \ {<<M, M>>}
          /\ <<x, y>>[1] = x /\ <<x, y>>[2] = y
      BY <2>1
    <2> QED
      BY <2>1, <2>2
  <1> QED
    BY <1>1, <1>2, ZenonT(60) DEF LoadRows, LoadRow

LEMMA AluRowsListed == \A r : r \in AluRows <=> AluRow(r)
  BY DEF AluRows, AluRow

LEMMA ShiftRowsListed == \A r : r \in ShiftRows <=> ShiftRow(r)
  BY DEF ShiftRows, ShiftRow

LEMMA BitRowsListed == \A r : r \in BitRows <=> BitRow(r)
  BY DEF BitRows, BitRow

LEMMA CountRowsListed == \A r : r \in CountRows <=> CountRow(r)
  BY DEF CountRows, CountRow

LEMMA StackRowsListed == \A r : r \in StackRows <=> StackRow(r)
  BY DEF StackRows, StackRow

LEMMA WideLoadRowsListed == \A r : r \in WideLoadRows <=> WideLoadRow(r)
  BY DEF WideLoadRows, WideLoadRow

LEMMA ControlRowsListed == \A r : r \in ControlRows <=> ControlRow(r)
  BY DEF ControlRows, ControlRow, Plain

LEMMA JumpRowsListed == \A r : r \in JumpRows <=> JumpRow(r)
  BY DEF JumpRows, JumpRow

LoadOpcodes ==
  ((64 .. 127) \ {118}) \cup {2, 6, 10, 14, 18, 22, 26, 30, 38, 46, 54, 62, 226, 234,
   242, 250}
WideLoadOpcodes ==
  {1, 8, 17, 33, 34, 42, 49, 50, 58, 224, 240, 248, 249}
StackOpcodes ==
  {193, 197, 209, 213, 225, 229, 241, 245}
AluOpcodes ==
  (128 .. 191) \cup {198, 206, 214, 222, 230, 238, 246, 254}
CountOpcodes ==
  {3, 4, 5, 9, 11, 12, 13, 19, 20, 21, 25, 27, 28, 29, 35, 36, 37, 41, 43, 44, 45, 51,
   52, 53, 57, 59, 60, 61, 232}
ControlOpcodes ==
  {0, 7, 15, 23, 31, 39, 47, 55, 63, 118, 243, 251, 4096}
ShiftOpcodes ==
  (CB .. CB + 63)
BitOpcodes ==
  (CB + 64 .. CB + 255)
JumpOpcodes ==
  {24, 32, 40, 48, 56, 192, 194, 195, 196, 199, 200, 201, 202, 204, 205, 207, 208, 210,
   212, 215, 216, 217, 218, 220, 223, 231, 233, 239, 247, 255}

LEMMA PartsApart ==
  ASSUME NEW o
  PROVE  /\ o \in LoadOpcodes => o \notin WideLoadOpcodes /\ o \notin StackOpcodes
                  /\ o \notin AluOpcodes /\ o \notin CountOpcodes /\ o \notin ControlOpcodes
                  /\ o \notin ShiftOpcodes /\ o \notin BitOpcodes /\ o \notin JumpOpcodes
         /\ o \in WideLoadOpcodes => o \notin StackOpcodes /\ o \notin AluOpcodes
                  /\ o \notin CountOpcodes /\ o \notin ControlOpcodes /\ o \notin ShiftOpcodes
                  /\ o \notin BitOpcodes /\ o \notin JumpOpcodes
         /\ o \in StackOpcodes => o \notin AluOpcodes /\ o \notin CountOpcodes
                  /\ o \notin ControlOpcodes /\ o \notin ShiftOpcodes /\ o \notin BitOpcodes
                  /\ o \notin JumpOpcodes
         /\ o \in AluOpcodes => o \notin CountOpcodes /\ o \notin ControlOpcodes
                  /\ o \notin ShiftOpcodes /\ o \notin BitOpcodes /\ o \notin JumpOpcodes
         /\ o \in CountOpcodes => o \notin ControlOpcodes /\ o \notin ShiftOpcodes
                  /\ o \notin BitOpcodes /\ o \notin JumpOpcodes
         /\ o \in ControlOpcodes => o \notin ShiftOpcodes /\ o \notin BitOpcodes
                  /\ o \notin JumpOpcodes
         /\ o \in ShiftOpcodes => o \notin BitOpcodes /\ o \notin JumpOpcodes
         /\ o \in BitOpcodes => o \notin JumpOpcodes
  <1>1. o \in LoadOpcodes => o \notin WideLoadOpcodes /\ o \notin StackOpcodes
                    /\ o \notin AluOpcodes /\ o \notin CountOpcodes /\ o \notin ControlOpcodes
                    /\ o \notin ShiftOpcodes /\ o \notin BitOpcodes /\ o \notin JumpOpcodes
    <2>1. o \in (64 .. 127) \ {118} => o \notin WideLoadOpcodes /\ o \notin StackOpcodes
                    /\ o \notin AluOpcodes /\ o \notin CountOpcodes /\ o \notin ControlOpcodes
                    /\ o \notin ShiftOpcodes /\ o \notin BitOpcodes /\ o \notin JumpOpcodes
      BY DEF WideLoadOpcodes, StackOpcodes, AluOpcodes, CountOpcodes, ControlOpcodes, ShiftOpcodes,
         BitOpcodes, JumpOpcodes, CB
    <2>2. o \in LoadOpcodes \ (64 .. 127) => o \notin WideLoadOpcodes /\ o \notin StackOpcodes
                    /\ o \notin AluOpcodes /\ o \notin CountOpcodes /\ o \notin ControlOpcodes
                    /\ o \notin ShiftOpcodes /\ o \notin BitOpcodes /\ o \notin JumpOpcodes
      BY DEF LoadOpcodes, WideLoadOpcodes, StackOpcodes, AluOpcodes, CountOpcodes, ControlOpcodes,
         ShiftOpcodes, BitOpcodes, JumpOpcodes, CB
    <2> QED
      BY <2>1, <2>2 DEF LoadOpcodes
  <1>2. o \in WideLoadOpcodes => o \notin StackOpcodes /\ o \notin AluOpcodes
                    /\ o \notin CountOpcodes /\ o \notin ControlOpcodes /\ o \notin ShiftOpcodes
                    /\ o \notin BitOpcodes /\ o \notin JumpOpcodes
    BY DEF WideLoadOpcodes, StackOpcodes, AluOpcodes, CountOpcodes, ControlOpcodes, ShiftOpcodes,
       BitOpcodes, JumpOpcodes, CB
  <1>3. o \in StackOpcodes => o \notin AluOpcodes /\ o \notin CountOpcodes
                    /\ o \notin ControlOpcodes /\ o \notin ShiftOpcodes /\ o \notin BitOpcodes
                    /\ o \notin JumpOpcodes
    BY DEF StackOpcodes, AluOpcodes, CountOpcodes, ControlOpcodes, ShiftOpcodes, BitOpcodes,
       JumpOpcodes, CB
  <1>4. o \in AluOpcodes => o \notin CountOpcodes /\ o \notin ControlOpcodes
                    /\ o \notin ShiftOpcodes /\ o \notin BitOpcodes /\ o \notin JumpOpcodes
    BY DEF AluOpcodes, CountOpcodes, ControlOpcodes, ShiftOpcodes, BitOpcodes, JumpOpcodes, CB
  <1>5. o \in CountOpcodes => o \notin ControlOpcodes /\ o \notin ShiftOpcodes
                    /\ o \notin BitOpcodes /\ o \notin JumpOpcodes
    BY DEF CountOpcodes, ControlOpcodes, ShiftOpcodes, BitOpcodes, JumpOpcodes, CB
  <1>6. o \in ControlOpcodes => o \notin ShiftOpcodes /\ o \notin BitOpcodes /\ o \notin JumpOpcodes
    BY DEF ControlOpcodes, ShiftOpcodes, BitOpcodes, JumpOpcodes, CB
  <1>7. o \in ShiftOpcodes => o \notin BitOpcodes /\ o \notin JumpOpcodes
    BY DEF ShiftOpcodes, BitOpcodes, JumpOpcodes, CB
  <1>8. o \in BitOpcodes => o \notin JumpOpcodes
    BY DEF BitOpcodes, JumpOpcodes, CB
  <1> QED
    BY <1>1, <1>2, <1>3, <1>4, <1>5, <1>6, <1>7, <1>8

LEMMA LoadPart == \A r \in LoadRows : r.instruction \in LoadOpcodes
  <1> SUFFICES ASSUME NEW r, LoadRow(r) PROVE r.instruction \in LoadOpcodes
    BY LoadRowsListed
  <1>1. \A x \in 0 .. 7 : 8 * x + 6 \in LoadOpcodes
    BY DEF LoadOpcodes
  <1>2. \A x, y \in 0 .. 7 : x # 6 \/ y # 6 => 64 + 8 * x + y \in LoadOpcodes
    BY DEF LoadOpcodes
  <1>3. \A p \in 0 .. 1 : 16 * p + 10 \in LoadOpcodes /\ 16 * p + 2 \in LoadOpcodes
    BY DEF LoadOpcodes
  <1>4. {250, 234, 242, 226} \subseteq LoadOpcodes
    BY DEF LoadOpcodes
  <1>5. CASE \E x \in 0 .. 7 : r = instr("LD", 8 * x + 6, Slow(x, 8, 12), operand(x), literal(1))
    BY <1>1, <1>5, RowOpcode
  <1>6. CASE MoveRow(r)
    BY <1>2, <1>6, RowOpcode DEF M, MoveRow
  <1>7. ASSUME NEW p \in 0 .. 1, r = instr("LD", 16 * p + 10, 8, val("A"), ptr(Pair(p, "SP")))
        PROVE  r.instruction \in LoadOpcodes
    <2>1. r.instruction = 16 * p + 10
      BY <1>7, RowOpcode
    <2> QED
      BY <1>3, <2>1
  <1>8. ASSUME NEW p \in 0 .. 1, r = instr("LD", 16 * p + 2, 8, ptr(Pair(p, "SP")), val("A"))
        PROVE  r.instruction \in LoadOpcodes
    <2>1. r.instruction = 16 * p + 2
      BY <1>8, RowOpcode
    <2> QED
      BY <1>3, <2>1
  <1>9. ASSUME \/ r = instr("LD", 250, 16, val("A"), address(2))
               \/ r = instr("LD", 234, 16, address(2), val("A"))
               \/ r = instr("LD", 242, 8, val("A"), ptr("C"))
               \/ r = instr("LD", 226, 8, ptr("C"), val("A"))
        PROVE  r.instruction \in LoadOpcodes
    BY <1>4, <1>9, RowOpcode
  <1> QED BY <1>5, <1>6, <1>7, <1>8, <1>9, Zenon DEF LoadRow

LEMMA WideLoadPart == \A r \in WideLoadRows : r.instruction \in WideLoadOpcodes
  BY WideLoadRowsListed, RowOpcode DEF WideLoadRow, WideLoadOpcodes, M, CB

LEMMA StackPart == \A r \in StackRows : r.instruction \in StackOpcodes
  BY StackRowsListed, RowOpcode DEF StackRow, StackOpcodes, M, CB

LEMMA AluPart == \A r \in AluRows : r.instruction \in AluOpcodes
  BY AluRowsListed, RowOpcode DEF AluRow, AluOpcodes, M, CB

LEMMA CountPart == \A r \in CountRows : r.instruction \in CountOpcodes
  BY CountRowsListed, RowOpcode DEF CountRow, CountOpcodes, M, CB

LEMMA ControlPart == \A r \in ControlRows : r.instruction \in ControlOpcodes
  BY ControlRowsListed, RowOpcode DEF ControlRow, ControlOpcodes, M, CB, Plain

LEMMA ShiftPart == \A r \in ShiftRows : r.instruction \in ShiftOpcodes
  BY ShiftRowsListed, RowOpcode DEF ShiftRow, ShiftOpcodes, M, CB

LEMMA BitPart == \A r \in BitRows : r.instruction \in BitOpcodes
  BY BitRowsListed, RowOpcode DEF BitRow, BitOpcodes, M, CB

LEMMA JumpPart == \A r \in JumpRows : r.instruction \in JumpOpcodes
  BY JumpRowsListed, RowOpcode DEF JumpRow, JumpOpcodes, M, CB

-----------------------------------------------------------------------------
(* No opcode is listed twice.                                               *)
LEMMA OctalDigits ==
  ASSUME NEW x \in 0 .. 7, NEW y \in 0 .. 7, NEW u \in 0 .. 7, NEW v \in 0 .. 7,
         (8 * x) + y = (8 * u) + v
  PROVE  x = u /\ y = v
  OBVIOUS

LEMMA MoveRowsOnce ==
  ASSUME NEW r, NEW s, MoveRow(r), MoveRow(s), r.instruction = s.instruction
  PROVE  r = s
  <1>1. PICK x \in 0 .. 7, y \in 0 .. 7 :
           r = instr("LD", 64 + 8 * x + y, IF M \in {x, y} THEN 8 ELSE 4, operand(x), operand(y))
    BY DEF MoveRow
  <1>2. PICK u \in 0 .. 7, v \in 0 .. 7 :
           s = instr("LD", 64 + 8 * u + v, IF M \in {u, v} THEN 8 ELSE 4, operand(u), operand(v))
    BY DEF MoveRow
  <1>3. 64 + 8 * x + y = 64 + 8 * u + v
    BY <1>1, <1>2, RowOpcode
  <1>4. x = u /\ y = v
    <2>1. (8 * x) + y = (8 * u) + v
      BY <1>3
    <2> QED
      BY <2>1, OctalDigits
  <1> QED
    BY <1>1, <1>2, <1>4

LEMMA LoadRowsOnce ==
  \A r, s \in LoadRows : r.instruction = s.instruction => r = s
  <1> DEFINE Inner(r) == r.instruction \in 64 .. 127
  <1>1. ASSUME NEW r, MoveRow(r) PROVE Inner(r)
    BY <1>1, RowOpcode DEF MoveRow
  <1>2. ASSUME NEW r, NEW s, LoadRow(r), LoadRow(s), ~MoveRow(r), ~MoveRow(s), r.instruction = s.instruction
        PROVE  r = s
    BY <1>2, RowOpcode, SMTT(60) DEF LoadRow
  <1>3. ASSUME NEW r, LoadRow(r), ~MoveRow(r) PROVE ~Inner(r)
    BY <1>3, RowOpcode DEF LoadRow
  <1> QED
    BY <1>1, <1>2, <1>3, MoveRowsOnce, LoadRowsListed

LEMMA WideLoadRowsOnce ==
  \A r, s \in WideLoadRows : r.instruction = s.instruction => r = s
  BY WideLoadRowsListed, RowOpcode DEF WideLoadRow, CB, M

LEMMA StackRowsOnce ==
  \A r, s \in StackRows : r.instruction = s.instruction => r = s
  BY StackRowsListed, RowOpcode DEF StackRow, CB, M

LEMMA AluRowsOnce ==
  \A r, s \in AluRows : r.instruction = s.instruction => r = s
  <1> DEFINE Of(r, x, y) == r = instr(Alu[x + 1], 128 + 8 * x + y, Slow(y, 4, 8), val("A"), operand(y))
             Literal(r, x) == r = instr(Alu[x + 1], 198 + 8 * x, 8, val("A"), literal(1))
  <1>2. ASSUME NEW r, NEW s, r.instruction = s.instruction, NEW x \in 0 .. 7, Literal(r, x),
               NEW u \in 0 .. 7, Literal(s, u)
        PROVE  r = s
    <2>1. x = u
      BY <1>2, RowOpcode
    <2> QED
      BY <1>2, <2>1
  <1>3. ASSUME NEW r, NEW s, r.instruction = s.instruction, NEW x \in 0 .. 7, NEW y \in 0 .. 7, Of(r, x, y),
               NEW u \in 0 .. 7, Literal(s, u)
        PROVE  FALSE
    BY <1>3, RowOpcode
  <1> SUFFICES ASSUME NEW r, NEW s, AluRow(r), AluRow(s), r.instruction = s.instruction
               PROVE  r = s
    BY AluRowsListed
  <1>4. CASE \E x, y \in 0 .. 7 : Of(r, x, y)
    <2>1. PICK x \in 0 .. 7, y \in 0 .. 7 : Of(r, x, y)
      BY <1>4
    <2>2. ASSUME NEW u \in 0 .. 7, NEW v \in 0 .. 7, Of(s, u, v) PROVE r = s
      <3>1. (8 * x) + y = (8 * u) + v
        BY <2>1, <2>2, RowOpcode
      <3> QED
        BY <2>1, <2>2, <3>1, OctalDigits
    <2>3. ASSUME NEW u \in 0 .. 7, Literal(s, u) PROVE r = s
      <3>1. r.instruction = 128 + 8 * x + y
        BY <2>1, RowOpcode
      <3>2. s.instruction = 198 + 8 * u
        BY <2>3, RowOpcode
      <3>3. 128 + 8 * x + y <= 191 /\ 198 <= 198 + 8 * u
        BY <2>1, <2>3
      <3>4. 128 + 8 * x + y = 198 + 8 * u
        BY <3>1, <3>2, Zenon
      <3> QED
        BY <3>3, <3>4
    <2> QED
      BY <2>2, <2>3, Zenon DEF AluRow
  <1>5. CASE \E x \in 0 .. 7 : Literal(r, x)
    BY <1>2, <1>3, <1>5, Zenon DEF AluRow
  <1> QED
    BY <1>4, <1>5, Zenon DEF AluRow

LEMMA CountRowsOnce ==
  \A r, s \in CountRows : r.instruction = s.instruction => r = s
  BY CountRowsListed, RowOpcode, SMTT(90) DEF CountRow, CB, M

LEMMA ControlRowsOnce ==
  \A r, s \in ControlRows : r.instruction = s.instruction => r = s
  BY ControlRowsListed, RowOpcode DEF ControlRow, CB, M, Plain

LEMMA ShiftRowsOnce ==
  \A r, s \in ShiftRows : r.instruction = s.instruction => r = s
  <1> SUFFICES ASSUME NEW r, NEW s, ShiftRow(r), ShiftRow(s), r.instruction = s.instruction
               PROVE  r = s
    BY ShiftRowsListed
  <1>1. PICK x \in 0 .. 7, y \in 0 .. 7 :
           r = wide(Shift[x + 1], CB + 8 * x + y, Slow(y, 8, 16), operand(y), empty)
    BY DEF ShiftRow
  <1>2. PICK u \in 0 .. 7, v \in 0 .. 7 :
           s = wide(Shift[u + 1], CB + 8 * u + v, Slow(v, 8, 16), operand(v), empty)
    BY DEF ShiftRow
  <1>3. (8 * x) + y = (8 * u) + v
    BY <1>1, <1>2, RowOpcode DEF CB
  <1> QED
    BY <1>1, <1>2, <1>3, OctalDigits

LEMMA BitRowsOnce ==
  \A r, s \in BitRows : r.instruction = s.instruction => r = s
  BY BitRowsListed, RowOpcode, SMTT(90) DEF BitRow, CB, M

LEMMA JumpRowsOnce ==
  \A r, s \in JumpRows : r.instruction = s.instruction => r = s
  BY JumpRowsListed, RowOpcode, SMTT(90) DEF JumpRow, CB, M

LEMMA RowsOnce ==
  ASSUME NEW r \in FactoryList, NEW s \in FactoryList, r.instruction = s.instruction
  PROVE  r = s
  <1>1. CASE r \in LoadRows
    <2>1. s \in LoadRows
      BY <1>1, PartsApart, LoadPart, WideLoadPart, StackPart, AluPart, CountPart, ControlPart,
         ShiftPart, BitPart, JumpPart DEF FactoryList
    <2> QED
      BY <1>1, <2>1, LoadRowsOnce
  <1>2. CASE r \in WideLoadRows
    <2>1. s \in WideLoadRows
      BY <1>2, PartsApart, LoadPart, WideLoadPart, StackPart, AluPart, CountPart, ControlPart,
         ShiftPart, BitPart, JumpPart DEF FactoryList
    <2> QED
      BY <1>2, <2>1, WideLoadRowsOnce
  <1>3. CASE r \in StackRows
    <2>1. s \in StackRows
      BY <1>3, PartsApart, LoadPart, WideLoadPart, StackPart, AluPart, CountPart, ControlPart,
         ShiftPart, BitPart, JumpPart DEF FactoryList
    <2> QED
      BY <1>3, <2>1, StackRowsOnce
  <1>4. CASE r \in AluRows
    <2>1. s \in AluRows
      BY <1>4, PartsApart, LoadPart, WideLoadPart, StackPart, AluPart, CountPart, ControlPart,
         ShiftPart, BitPart, JumpPart DEF FactoryList
    <2> QED
      BY <1>4, <2>1, AluRowsOnce
  <1>5. CASE r \in CountRows
    <2>1. s \in CountRows
      BY <1>5, PartsApart, LoadPart, WideLoadPart, StackPart, AluPart, CountPart, ControlPart,
         ShiftPart, BitPart, JumpPart DEF FactoryList
    <2> QED
      BY <1>5, <2>1, CountRowsOnce
  <1>6. CASE r \in ControlRows
    <2>1. s \in ControlRows
      BY <1>6, PartsApart, LoadPart, WideLoadPart, StackPart, AluPart, CountPart, ControlPart,
         ShiftPart, BitPart, JumpPart DEF FactoryList
    <2> QED
      BY <1>6, <2>1, ControlRowsOnce
  <1>7. CASE r \in ShiftRows
    <2>1. s \in ShiftRows
      BY <1>7, PartsApart, LoadPart, WideLoadPart, StackPart, AluPart, CountPart, ControlPart,
         ShiftPart, BitPart, JumpPart DEF FactoryList
    <2> QED
      BY <1>7, <2>1, ShiftRowsOnce
  <1>8. CASE r \in BitRows
    <2>1. s \in BitRows
      BY <1>8, PartsApart, LoadPart, WideLoadPart, StackPart, AluPart, CountPart, ControlPart,
         ShiftPart, BitPart, JumpPart DEF FactoryList
    <2> QED
      BY <1>8, <2>1, BitRowsOnce
  <1>9. CASE r \in JumpRows
    <2>1. s \in JumpRows
      BY <1>9, PartsApart, LoadPart, WideLoadPart, StackPart, AluPart, CountPart, ControlPart,
         ShiftPart, BitPart, JumpPart DEF FactoryList
    <2> QED
      BY <1>9, <2>1, JumpRowsOnce
  <1> QED BY <1>1, <1>2, <1>3, <1>4, <1>5, <1>6, <1>7, <1>8, <1>9 DEF FactoryList

-----------------------------------------------------------------------------
(* The entries of opcode_map.cc, by opcode, name and form.                  *)
LoadEntry(o, n) ==
  \/ n = "LoadN" /\ \E r \in Registers8 \ {IsA} : o = 8 * r + 6
  \/ n = "LoadRR8Bit" /\ \E r, s \in Registers8 \ {IsA} : o = 64 + 8 * r + s
  \/ n = "LoadRR8Bit" /\ \E r \in Registers8 : o = 64 + 8 * IsA + r
  \/ n = "LoadRR8BitAddress" /\ \E r \in Registers8 : o = 64 + 8 * r + M
  \/ n = "LoadRR8BitIntoAddress" /\ \E r \in Registers8 \ {IsA} : o = 64 + 8 * M + r
  \/ n = "Load8BitLiteral" /\ o = 54
  \/ n = "LoadAN" /\ o \in {10, 26}
  \/ n = "LoadAN16BitLiteral" /\ o = 250
  \/ n = "LoadAN8BitLiteral" /\ o = 62
  \/ n = "LoadNA" /\ \E r \in Registers8 \ {IsA} : o = 64 + 8 * r + IsA
  \/ n = "LoadNAAddress" /\ o \in {2, 18, 119}
  \/ n = "LoadNA16BitLiteral" /\ o = 234
  \/ n = "LoadAC" /\ o = 242
  \/ n = "LoadCA" /\ o = 226

WideLoadEntry(o, n) ==
  \/ n = "LoadDecAHL" /\ o = 58
  \/ n = "LoadDecHLA" /\ o = 50
  \/ n = "LoadIncAHL" /\ o = 42
  \/ n = "LoadIncHLA" /\ o = 34
  \/ n = "LoadHNA" /\ o = 224
  \/ n = "LoadHAN" /\ o = 240
  \/ n = "LoadNN" /\ \E p \in 0 .. 3 : o = 16 * p + 1
  \/ n = "LoadSPHL" /\ o = 249
  \/ n = "LoadHLSP" /\ o = 248
  \/ n = "LoadNNSP" /\ o = 8

StackEntry(o, n) ==
  \/ n = "Push" /\ \E p \in 0 .. 3 : o = 16 * p + 197
  \/ n = "Pop" /\ \E p \in 0 .. 3 : o = 16 * p + 193

AluEntry(o, n, f) ==
  \/ \E x, y \in 0 .. 7 : o = 128 + 8 * x + y /\ n = AluHandler[x + 1] /\ f = copy(y)
  \/ \E x \in 0 .. 7 : o = 198 + 8 * x /\ n = AluHandler[x + 1] /\ f = "Literal"

CountEntry(o, n, f) ==
  \/ n = "Inc8Bit" /\ \E r \in 0 .. 7 : o = 8 * r + 4 /\ f = copy(r)
  \/ n = "Dec8Bit" /\ \E r \in 0 .. 7 : o = 8 * r + 5 /\ f = copy(r)
  \/ n = "Add16Bit" /\ f = "Plain" /\ \E p \in 0 .. 3 : o = 16 * p + 9
  \/ n = "AddSPLiteral" /\ f = "Plain" /\ o = 232
  \/ n = "Inc16Bit" /\ f = "Plain" /\ \E p \in 0 .. 3 : o = 16 * p + 3
  \/ n = "Dec16Bit" /\ f = "Plain" /\ \E p \in 0 .. 3 : o = 16 * p + 11

ControlEntry(o, n) ==
  \/ n = "DAA" /\ o = 39
  \/ n = "CPL" /\ o = 47
  \/ n = "CCF" /\ o = 63
  \/ n = "SCF" /\ o = 55
  \/ n = "NOP" /\ o = 0
  \/ n = "Halt" /\ o = 118
  \/ n = "Stop" /\ o = 4096
  \/ n = "DI" /\ o = 243
  \/ n = "EI" /\ o = 251
  \/ n = "RLCA" /\ o = 7
  \/ n = "RLA" /\ o = 23
  \/ n = "RRCA" /\ o = 15
  \/ n = "RRA" /\ o = 31

ShiftEntry(o, n, f) ==
  \E x, y \in 0 .. 7 : o = CB + 8 * x + y /\ n = ShiftHandler[x + 1] /\ f = copy(y)

BitEntry(o, n, f) ==
  \E y \in 0 .. 7 :
    \/ o = CB + 64 + y /\ n = "Bit" /\ f = copy(y)
    \/ o = CB + 192 + y /\ n = "Set" /\ f = "Plain"
    \/ o = CB + 128 + y /\ n = "Res" /\ f = "Plain"

JumpEntry(o, n) ==
  \/ n = "Jump" /\ o = 195
  \/ n = "JumpConditional" /\ \E c \in 0 .. 3 : o = 8 * c + 194
  \/ n = "JumpHL" /\ o = 233
  \/ n = "JumpRelative" /\ o = 24
  \/ n = "JumpRelativeConditional" /\ \E c \in 0 .. 3 : o = 8 * c + 32
  \/ n = "Call" /\ o = 205
  \/ n = "CallConditional" /\ \E c \in 0 .. 3 : o = 8 * c + 196
  \/ n = "Restart" /\ \E c \in 0 .. 7 : o = 8 * c + 199
  \/ n = "Return" /\ o = 201
  \/ n = "ReturnConditional" /\ \E c \in 0 .. 3 : o = 8 * c + 192
  \/ n = "ReturnInterrupt" /\ o = 217

LEMMA LoadEntriesListed ==
  \A o, n, f : <<o, n, f>> \in LoadEntries <=> f = "Plain" /\ LoadEntry(o, n)
  BY DEF LoadEntries, LoadEntry, entries

LEMMA WideLoadEntriesListed ==
  \A o, n, f : <<o, n, f>> \in WideLoadEntries <=> f = "Plain" /\ WideLoadEntry(o, n)
  BY DEF WideLoadEntries, WideLoadEntry, entries

LEMMA StackEntriesListed ==
  \A o, n, f : <<o, n, f>> \in StackEntries <=> f = "Plain" /\ StackEntry(o, n)
  BY DEF StackEntries, StackEntry, entries

LEMMA AluEntriesListed == \A o, n, f : <<o, n, f>> \in AluEntries <=> AluEntry(o, n, f)
  BY DEF AluEntries, AluEntry, entries

LEMMA CountEntriesListed == \A o, n, f : <<o, n, f>> \in CountEntries <=> CountEntry(o, n, f)
  BY DEF CountEntries, CountEntry, entries

LEMMA ControlEntriesListed ==
  \A o, n, f : <<o, n, f>> \in ControlEntries <=> f = "Plain" /\ ControlEntry(o, n)
  BY DEF ControlEntries, ControlEntry, entries

LEMMA ShiftEntriesListed == \A o, n, f : <<o, n, f>> \in ShiftEntries <=> ShiftEntry(o, n, f)
  BY DEF ShiftEntries, ShiftEntry, entries

LEMMA BitEntriesListed == \A o, n, f : <<o, n, f>> \in BitEntries <=> BitEntry(o, n, f)
  BY DEF BitEntries, BitEntry, entries

LEMMA JumpEntriesListed ==
  \A o, n, f : <<o, n, f>> \in JumpEntries <=> f = "Plain" /\ JumpEntry(o, n)
  BY DEF JumpEntries, JumpEntry, entries

LEMMA EntriesTriples == \A e \in Entries : e = <<e[1], e[2], e[3]>>
  BY DEF Entries, entries, LoadEntries, WideLoadEntries, StackEntries, AluEntries, CountEntries,
     ControlEntries, ShiftEntries, BitEntries, JumpEntries

LEMMA LoadEntryPart == \A o, n : LoadEntry(o, n) => o \in LoadOpcodes
  BY DEF LoadEntry, LoadOpcodes, Registers8, IsA, M, CB

LEMMA WideLoadEntryPart == \A o, n : WideLoadEntry(o, n) => o \in WideLoadOpcodes
  BY DEF WideLoadEntry, WideLoadOpcodes, Registers8, IsA, M, CB

LEMMA StackEntryPart == \A o, n : StackEntry(o, n) => o \in StackOpcodes
  BY DEF StackEntry, StackOpcodes, Registers8, IsA, M, CB

LEMMA AluEntryPart == \A o, n, f : AluEntry(o, n, f) => o \in AluOpcodes
  BY DEF AluEntry, AluOpcodes, Registers8, IsA, M, CB

LEMMA CountEntryPart == \A o, n, f : CountEntry(o, n, f) => o \in CountOpcodes
  BY DEF CountEntry, CountOpcodes, Registers8, IsA, M, CB

LEMMA ControlEntryPart == \A o, n : ControlEntry(o, n) => o \in ControlOpcodes
  BY DEF ControlEntry, ControlOpcodes, Registers8, IsA, M, CB

LEMMA ShiftEntryPart == \A o, n, f : ShiftEntry(o, n, f) => o \in ShiftOpcodes
  BY DEF ShiftEntry, ShiftOpcodes, Registers8, IsA, M, CB

LEMMA BitEntryPart == \A o, n, f : BitEntry(o, n, f) => o \in BitOpcodes
  BY DEF BitEntry, BitOpcodes, Registers8, IsA, M, CB

LEMMA JumpEntryPart == \A o, n : JumpEntry(o, n) => o \in JumpOpcodes
  BY DEF JumpEntry, JumpOpcodes, Registers8, IsA, M, CB

LEMMA LoadEntryOnce == \A o, m, n : LoadEntry(o, m) /\ LoadEntry(o, n) => m = n
  BY SMTT(60) DEF LoadEntry, Registers8, IsA, M, CB

LEMMA WideLoadEntryOnce == \A o, m, n : WideLoadEntry(o, m) /\ WideLoadEntry(o, n) => m = n
  BY SMTT(60) DEF WideLoadEntry, Registers8, IsA, M, CB

LEMMA StackEntryOnce == \A o, m, n : StackEntry(o, m) /\ StackEntry(o, n) => m = n
  BY SMTT(60) DEF StackEntry, Registers8, IsA, M, CB

LEMMA AluEntryOnce ==
  \A o, m, n, f, g : AluEntry(o, m, f) /\ AluEntry(o, n, g) => m = n /\ f = g
  BY SMTT(60) DEF AluEntry, CB

LEMMA CountEntryOnce ==
  \A o, m, n, f, g : CountEntry(o, m, f) /\ CountEntry(o, n, g) => m = n /\ f = g
  BY SMTT(60) DEF CountEntry, CB

LEMMA ControlEntryOnce == \A o, m, n : ControlEntry(o, m) /\ ControlEntry(o, n) => m = n
  BY SMTT(60) DEF ControlEntry, Registers8, IsA, M, CB

LEMMA ShiftEntryOnce ==
  \A o, m, n, f, g : ShiftEntry(o, m, f) /\ ShiftEntry(o, n, g) => m = n /\ f = g
  BY SMTT(60) DEF ShiftEntry, CB

LEMMA BitEntryOnce ==
  \A o, m, n, f, g : BitEntry(o, m, f) /\ BitEntry(o, n, g) => m = n /\ f = g
  BY SMTT(60) DEF BitEntry, CB

LEMMA JumpEntryOnce == \A o, m, n : JumpEntry(o, m) /\ JumpEntry(o, n) => m = n
  BY SMTT(60) DEF JumpEntry, Registers8, IsA, M, CB

-----------------------------------------------------------------------------
(* Every entry has a row whose arguments suit its handler.                  *)
JumpHandlers ==
  {"Jump", "JumpConditional", "JumpHL", "JumpRelative", "JumpRelativeConditional", "Call",
   "CallConditional", "Restart", "Return", "ReturnConditional", "ReturnInterrupt"}

Suits(r, n, f) ==
  /\ n # "none"
  /\ n \in {"Inc8Bit", "Dec8Bit"} \cup Shifts => f \in {"Plain", "Address"}
  /\ n \in {"LoadN", "LoadRR8Bit", "LoadRR8BitAddress", "LoadNA"}
     \/ (n \in {"Inc8Bit", "Dec8Bit"} \cup Shifts /\ f = "Plain")
        => Pointer(r.left, Register8Bit)
  /\ n \in {"Inc8Bit", "Dec8Bit"} \cup Shifts /\ f = "Address" => Pointer(r.left, {"HL"})
  /\ n \in {"LoadNN", "Inc16Bit", "Dec16Bit", "Push", "Pop"} => Pointer(r.left, Register16Bit)
  /\ n = "Bit" /\ f = "Plain" => Pointer(r.right, Register8Bit)
  /\ n \in {"Set", "Res"} => r.right.is_pointer \/ Pointer(r.right, Register8Bit)
  /\ n \in {"Bit", "Set", "Res"} => r.left.type = "BIT"
  /\ r.is_jump <=> n \in JumpHandlers

LEMMA InstrFields ==
  ASSUME NEW o, NEW i, NEW c, NEW l, NEW r
  PROVE  /\ instr(o, i, c, l, r).opcode = o /\ instr(o, i, c, l, r).instruction = i
         /\ instr(o, i, c, l, r).left = l /\ instr(o, i, c, l, r).right = r
         /\ ~instr(o, i, c, l, r).is_jump /\ instr(o, i, c, l, r).width = 1
  BY DEF instr, row

LEMMA WideFields ==
  ASSUME NEW o, NEW i, NEW c, NEW l, NEW r
  PROVE  /\ wide(o, i, c, l, r).opcode = o /\ wide(o, i, c, l, r).instruction = i
         /\ wide(o, i, c, l, r).left = l /\ wide(o, i, c, l, r).right = r
         /\ ~wide(o, i, c, l, r).is_jump /\ wide(o, i, c, l, r).width = 2
  BY DEF wide, row

LEMMA JumpFields ==
  ASSUME NEW o, NEW i, NEW c, NEW l, NEW r
  PROVE  /\ jump(o, i, c, l, r).opcode = o /\ jump(o, i, c, l, r).instruction = i
         /\ jump(o, i, c, l, r).left = l /\ jump(o, i, c, l, r).right = r
         /\ jump(o, i, c, l, r).is_jump /\ jump(o, i, c, l, r).width = 1
  BY DEF jump, row

LEMMA ValFields ==
  ASSUME NEW name
  PROVE  /\ val(name).type = "REGISTER" /\ val(name).reg = name /\ val(name).val = 0
         /\ val(name).width = 0 /\ ~val(name).is_pointer
  BY DEF val, param

LEMMA PtrFields ==
  ASSUME NEW name
  PROVE  /\ ptr(name).type = "REGISTER" /\ ptr(name).reg = name /\ ptr(name).val = 0
         /\ ptr(name).width = 0 /\ ptr(name).is_pointer
  BY DEF ptr, param

LEMMA Operands ==
  ASSUME NEW x \in 0 .. 7
  PROVE  /\ operand(x).type = "REGISTER" /\ operand(x).val = 0 /\ operand(x).width = 0
         /\ x # M => operand(x).reg \in Register8Bit /\ ~operand(x).is_pointer
         /\ x = M => operand(x).reg = "HL" /\ operand(x).is_pointer
  <1>1. x \in {0, 1, 2, 3, 4, 5, 6, 7}
    OBVIOUS
  <1>2. x # M => Register8[x + 1] \in Register8Bit
    BY <1>1 DEF Register8, Register8Bit, M
  <1> QED
    BY <1>2, ValFields, PtrFields DEF operand

LEMMA Pairs ==
  ASSUME NEW p \in 0 .. 3
  PROVE  Pair(p, "SP") \in Register16Bit /\ Pair(p, "AF") \in Register16Bit
  BY DEF Pair, Register16Bit

LEMMA LoadSuits ==
  ASSUME NEW o, NEW n, LoadEntry(o, n)
  PROVE  \E r \in LoadRows : r.instruction = o /\ Suits(r, n, "Plain")
  <1> DEFINE Immediate(x) == instr("LD", 8 * x + 6, Slow(x, 8, 12), operand(x), literal(1))
             Move(x, y) == instr("LD", 64 + 8 * x + y, IF M \in {x, y} THEN 8 ELSE 4,
                                 operand(x), operand(y))
             Indirect(p) == instr("LD", 16 * p + 10, 8, val("A"), ptr(Pair(p, "SP")))
             Into(p) == instr("LD", 16 * p + 2, 8, ptr(Pair(p, "SP")), val("A"))
             Others == {instr("LD", 250, 16, val("A"), address(2)),
                        instr("LD", 234, 16, address(2), val("A")),
                        instr("LD", 242, 8, val("A"), ptr("C")),
                        instr("LD", 226, 8, ptr("C"), val("A"))}
  <1>1. \A x \in 0 .. 7 :
          /\ Immediate(x) \in LoadRows /\ Immediate(x).instruction = 8 * x + 6
          /\ Immediate(x).left = operand(x) /\ ~Immediate(x).is_jump
    <2> TAKE x \in 0 .. 7
    <2>1. LoadRow(Immediate(x))
      BY Zenon DEF LoadRow
    <2> QED
      BY <2>1, LoadRowsListed, InstrFields
  <1>2. \A x, y \in 0 .. 7 : x # M \/ y # M =>
          /\ Move(x, y) \in LoadRows /\ Move(x, y).instruction = 64 + 8 * x + y
          /\ Move(x, y).left = operand(x) /\ ~Move(x, y).is_jump
    <2> TAKE x, y \in 0 .. 7
    <2> HAVE x # M \/ y # M
    <2>1. LoadRow(Move(x, y))
      BY Zenon DEF LoadRow, MoveRow
    <2> QED
      BY <2>1, LoadRowsListed, InstrFields
  <1>3. \A p \in 0 .. 1 :
          /\ Indirect(p) \in LoadRows /\ Indirect(p).instruction = 16 * p + 10
          /\ ~Indirect(p).is_jump
          /\ Into(p) \in LoadRows /\ Into(p).instruction = 16 * p + 2 /\ ~Into(p).is_jump
    <2> TAKE p \in 0 .. 1
    <2>1. LoadRow(Indirect(p)) /\ LoadRow(Into(p))
      BY Zenon DEF LoadRow
    <2> QED
      BY <2>1, LoadRowsListed, InstrFields
  <1>4. /\ \A c \in {226, 234, 242, 250} : \E r \in Others : r.instruction = c
        /\ \A r \in Others : r \in LoadRows /\ ~r.is_jump
    <2>1. \A r \in Others : LoadRow(r)
      BY Zenon DEF LoadRow
    <2> QED
      BY <2>1, LoadRowsListed, InstrFields
  <1> HIDE DEF Immediate, Move, Indirect, Into, Others
  <1>5. \A x \in Registers8 : x \in 0 .. 7 /\ x # M
    BY DEF Registers8
  <1>6. M \in 0 .. 7 /\ IsA \in 0 .. 7 /\ IsA # M /\ M = 6
    BY DEF M, IsA
  <1> USE DEF Suits, Pointer, Shifts, JumpHandlers
  <1>7. CASE n = "LoadN" /\ \E r \in Registers8 \ {IsA} : o = 8 * r + 6
    BY <1>1, <1>5, <1>7, Operands
  <1>8. CASE n = "LoadRR8Bit" /\ \E r, s \in Registers8 \ {IsA} : o = 64 + 8 * r + s
    <2>1. PICK x \in Registers8 \ {IsA}, y \in Registers8 \ {IsA} : o = 64 + 8 * x + y
      BY <1>8
    <2>2. x \in 0 .. 7 /\ x # M /\ y \in 0 .. 7
      BY <1>5
    <2>3. Pointer(Move(x, y).left, Register8Bit) /\ ~Move(x, y).is_jump
      BY <1>2, <2>2, Operands
    <2> QED
      BY <1>2, <1>8, <2>1, <2>2, <2>3
  <1>9. CASE n = "LoadRR8Bit" /\ \E r \in Registers8 : o = 64 + 8 * IsA + r
    <2>1. PICK y \in Registers8 : o = 64 + 8 * IsA + y
      BY <1>9
    <2>2. Pointer(Move(IsA, y).left, Register8Bit) /\ ~Move(IsA, y).is_jump
      BY <1>2, <1>5, <1>6, Operands
    <2> QED
      BY <1>2, <1>5, <1>6, <1>9, <2>1, <2>2
  <1>10. CASE n = "LoadRR8BitAddress" /\ \E r \in Registers8 : o = 64 + 8 * r + M
    BY <1>2, <1>5, <1>6, <1>10, Operands
  <1>11. CASE n = "LoadRR8BitIntoAddress" /\ \E r \in Registers8 \ {IsA} : o = 64 + 8 * M + r
    BY <1>2, <1>5, <1>6, <1>11
  <1>12. CASE n = "Load8BitLiteral" /\ o = 54
    BY <1>1, <1>6, <1>12
  <1>13. CASE n = "LoadAN" /\ o \in {10, 26}
    <2>1. \E p \in 0 .. 1 : o = 16 * p + 10
      BY <1>13
    <2> QED
      BY <1>3, <1>13, <2>1
  <1>14. CASE n = "LoadAN8BitLiteral" /\ o = 62
    <2>1. o = 8 * IsA + 6
      BY <1>14 DEF IsA
    <2> QED
      BY <1>1, <1>6, <1>14, <2>1
  <1>15. CASE n = "LoadNA" /\ \E r \in Registers8 \ {IsA} : o = 64 + 8 * r + IsA
    <2>1. PICK x \in Registers8 \ {IsA} : o = 64 + 8 * x + IsA
      BY <1>15
    <2>2. x \in 0 .. 7 /\ x # M
      BY <1>5
    <2>3. Pointer(Move(x, IsA).left, Register8Bit) /\ ~Move(x, IsA).is_jump
      BY <1>2, <1>6, <2>2, Operands
    <2> QED
      BY <1>2, <1>6, <1>15, <2>1, <2>2, <2>3
  <1>16. CASE n = "LoadNAAddress" /\ o \in {2, 18, 119}
    <2>1. CASE o = 119
      <3>1. o = 64 + 8 * M + IsA
        BY <2>1 DEF M, IsA
      <3> QED
        BY <1>2, <1>6, <1>16, <3>1
    <2>2. CASE o \in {2, 18}
      <3>1. \E p \in 0 .. 1 : o = 16 * p + 2
        BY <2>2
      <3> QED
        BY <1>3, <1>16, <3>1
    <2> QED
      BY <1>16, <2>1, <2>2
  <1>17. CASE n \in {"LoadAN16BitLiteral", "LoadNA16BitLiteral", "LoadAC", "LoadCA"} /\ o \in {226, 234, 242, 250}
    BY <1>4, <1>17
  <1> QED
    BY <1>7, <1>8, <1>9, <1>10, <1>11, <1>12, <1>13, <1>14, <1>15, <1>16, <1>17 DEF LoadEntry

LEMMA WideLoadSuits ==
  ASSUME NEW o, NEW n, WideLoadEntry(o, n)
  PROVE  \E r \in WideLoadRows : r.instruction = o /\ Suits(r, n, "Plain")
  <1> DEFINE Pairwise(p) == instr("LD", 16 * p + 1, 12, val(Pair(p, "SP")), literal(2))
             Others == {instr("LDD", 58, 8, val("A"), ptr("HL")),
                        instr("LDD", 50, 8, ptr("HL"), val("A")),
                        instr("LDI", 42, 8, val("A"), ptr("HL")),
                        instr("LDI", 34, 8, ptr("HL"), val("A")),
                        instr("LD", 224, 12, address(1), val("A")),
                        instr("LD", 240, 12, val("A"), address(1)),
                        instr("LD", 249, 8, val("SP"), val("HL")),
                        instr("LDHL", 248, 12, val("SP"), literal(1)),
                        instr("LD", 8, 20, address(2), val("SP"))}
  <1>1. \A p \in 0 .. 3 :
          /\ Pairwise(p) \in WideLoadRows /\ Pairwise(p).instruction = 16 * p + 1
          /\ Pointer(Pairwise(p).left, Register16Bit) /\ ~Pairwise(p).is_jump
    <2> TAKE p \in 0 .. 3
    <2>1. WideLoadRow(Pairwise(p))
      BY Zenon DEF WideLoadRow
    <2> QED
      BY <2>1, WideLoadRowsListed, InstrFields, ValFields, Pairs DEF Pointer
  <1>2. /\ \A c \in {8, 34, 42, 50, 58, 224, 240, 248, 249} : \E r \in Others : r.instruction = c
        /\ \A r \in Others : r \in WideLoadRows /\ ~r.is_jump
    <2>1. \A r \in Others : WideLoadRow(r)
      BY Zenon DEF WideLoadRow
    <2> QED
      BY <2>1, WideLoadRowsListed, InstrFields
  <1> HIDE DEF Pairwise, Others
  <1>3. CASE n = "LoadNN" /\ \E p \in 0 .. 3 : o = 16 * p + 1
    BY <1>1, <1>3 DEF Suits, Shifts, JumpHandlers
  <1>4. CASE /\ n \in {"LoadDecAHL", "LoadDecHLA", "LoadIncAHL", "LoadIncHLA", "LoadHNA", "LoadHAN",
                      "LoadSPHL", "LoadHLSP", "LoadNNSP"}
             /\ o \in {8, 34, 42, 50, 58, 224, 240, 248, 249}
    BY <1>2, <1>4 DEF Suits, Shifts, JumpHandlers
  <1> QED
    BY <1>3, <1>4 DEF WideLoadEntry

LEMMA StackSuits ==
  ASSUME NEW o, NEW n, StackEntry(o, n)
  PROVE  \E r \in StackRows : r.instruction = o /\ Suits(r, n, "Plain")
  <1> DEFINE Pushing(p) == instr("PUSH", 16 * p + 197, 16, val(Pair(p, "AF")), empty)
             Popping(p) == instr("POP", 16 * p + 193, 12, val(Pair(p, "AF")), empty)
  <1>1. \A p \in 0 .. 3 :
          /\ Pushing(p) \in StackRows /\ Pushing(p).instruction = 16 * p + 197
          /\ Pointer(Pushing(p).left, Register16Bit) /\ ~Pushing(p).is_jump
          /\ Popping(p) \in StackRows /\ Popping(p).instruction = 16 * p + 193
          /\ Pointer(Popping(p).left, Register16Bit) /\ ~Popping(p).is_jump
    <2> TAKE p \in 0 .. 3
    <2>1. StackRow(Pushing(p)) /\ StackRow(Popping(p))
      BY Zenon DEF StackRow
    <2> QED
      BY <2>1, StackRowsListed, InstrFields, ValFields, Pairs DEF Pointer
  <1> HIDE DEF Pushing, Popping
  <1> QED
    BY <1>1 DEF StackEntry, Suits, Shifts, JumpHandlers

LEMMA AluSuits ==
  ASSUME NEW o, NEW n, NEW f, AluEntry(o, n, f)
  PROVE  \E r \in AluRows : r.instruction = o /\ Suits(r, n, f)
  <1> DEFINE Of(x, y) == instr(Alu[x + 1], 128 + 8 * x + y, Slow(y, 4, 8), val("A"), operand(y))
             Literal(x) == instr(Alu[x + 1], 198 + 8 * x, 8, val("A"), literal(1))
  <1>1. \A x, y \in 0 .. 7 :
          /\ Of(x, y) \in AluRows /\ Of(x, y).instruction = 128 + 8 * x + y
          /\ ~Of(x, y).is_jump
    <2> TAKE x, y \in 0 .. 7
    <2>1. AluRow(Of(x, y))
      BY Zenon DEF AluRow
    <2> QED
      BY <2>1, AluRowsListed, InstrFields
  <1>2. \A x \in 0 .. 7 :
          /\ Literal(x) \in AluRows /\ Literal(x).instruction = 198 + 8 * x
          /\ ~Literal(x).is_jump
    <2> TAKE x \in 0 .. 7
    <2>1. AluRow(Literal(x))
      BY Zenon DEF AluRow
    <2> QED
      BY <2>1, AluRowsListed, InstrFields
  <1> HIDE DEF Of, Literal
  <1>3. n \in {"Add8Bit", "ADC8Bit", "Sub8Bit", "SBC8Bit", "And8Bit", "Xor8Bit", "Or8Bit", "Cp8Bit"}
    <2>1. \A x \in 0 .. 7 : AluHandler[x + 1] \in
            {"Add8Bit", "ADC8Bit", "Sub8Bit", "SBC8Bit", "And8Bit", "Xor8Bit", "Or8Bit", "Cp8Bit"}
      <3> TAKE x \in 0 .. 7
      <3>1. x \in {0, 1, 2, 3, 4, 5, 6, 7}
        OBVIOUS
      <3> QED
        BY <3>1 DEF AluHandler
    <2> QED
      BY <2>1 DEF AluEntry
  <1>4. \A r : ~r.is_jump => Suits(r, n, f)
    BY <1>3 DEF Suits, Shifts, JumpHandlers
  <1>5. CASE \E x, y \in 0 .. 7 : o = 128 + 8 * x + y
    BY <1>1, <1>4, <1>5
  <1>6. CASE \E x \in 0 .. 7 : o = 198 + 8 * x
    BY <1>2, <1>4, <1>6
  <1> QED
    BY <1>5, <1>6 DEF AluEntry

LEMMA CountSuits ==
  ASSUME NEW o, NEW n, NEW f, CountEntry(o, n, f)
  PROVE  \E r \in CountRows : r.instruction = o /\ Suits(r, n, f)
  <1> DEFINE Up(x) == instr("INC", 8 * x + 4, Slow(x, 4, 12), operand(x), empty)
             Down(x) == instr("DEC", 8 * x + 5, Slow(x, 4, 12), operand(x), empty)
             Plus(p) == instr("ADD", 16 * p + 9, 8, val("HL"), val(Pair(p, "SP")))
             PlusLiteral == instr("ADD", 232, 16, val("SP"), literal(1))
             WideUp(p) == instr("INC", 16 * p + 3, 8, val(Pair(p, "SP")), empty)
             WideDown(p) == instr("DEC", 16 * p + 11, 8, val(Pair(p, "SP")), empty)
  <1>1. \A x \in 0 .. 7 :
          /\ Up(x) \in CountRows /\ Up(x).instruction = 8 * x + 4
          /\ Up(x).left = operand(x) /\ ~Up(x).is_jump
          /\ Down(x) \in CountRows /\ Down(x).instruction = 8 * x + 5
          /\ Down(x).left = operand(x) /\ ~Down(x).is_jump
    <2> TAKE x \in 0 .. 7
    <2>1. CountRow(Up(x)) /\ CountRow(Down(x))
      BY Zenon DEF CountRow
    <2> QED
      BY <2>1, CountRowsListed, InstrFields
  <1>2. \A p \in 0 .. 3 :
          /\ Plus(p) \in CountRows /\ Plus(p).instruction = 16 * p + 9 /\ ~Plus(p).is_jump
          /\ WideUp(p) \in CountRows /\ WideUp(p).instruction = 16 * p + 3
          /\ Pointer(WideUp(p).left, Register16Bit) /\ ~WideUp(p).is_jump
          /\ WideDown(p) \in CountRows /\ WideDown(p).instruction = 16 * p + 11
          /\ Pointer(WideDown(p).left, Register16Bit) /\ ~WideDown(p).is_jump
    <2> TAKE p \in 0 .. 3
    <2>1. CountRow(Plus(p)) /\ CountRow(WideUp(p)) /\ CountRow(WideDown(p))
      BY Zenon DEF CountRow
    <2> QED
      BY <2>1, CountRowsListed, InstrFields, ValFields, Pairs DEF Pointer
  <1>3. PlusLiteral \in CountRows /\ PlusLiteral.instruction = 232 /\ ~PlusLiteral.is_jump
    <2>1. CountRow(PlusLiteral)
      BY Zenon DEF CountRow
    <2> QED
      BY <2>1, CountRowsListed, InstrFields
  <1> HIDE DEF Up, Down, Plus, PlusLiteral, WideUp, WideDown
  <1>4. \A x \in 0 .. 7 :
          IF copy(x) = "Plain" THEN Pointer(operand(x), Register8Bit)
          ELSE copy(x) = "Address" /\ Pointer(operand(x), {"HL"})
    BY Operands DEF copy, Pointer
  <1> USE DEF Suits, Shifts, JumpHandlers
  <1>5. CASE n = "Inc8Bit" /\ \E x \in 0 .. 7 : o = 8 * x + 4 /\ f = copy(x)
    BY <1>1, <1>4, <1>5
  <1>6. CASE n = "Dec8Bit" /\ \E x \in 0 .. 7 : o = 8 * x + 5 /\ f = copy(x)
    BY <1>1, <1>4, <1>6
  <1>7. CASE n \in {"Add16Bit", "Inc16Bit", "Dec16Bit"}
    BY <1>2, <1>7 DEF CountEntry
  <1>8. CASE n = "AddSPLiteral" /\ o = 232
    BY <1>3, <1>8
  <1> QED
    BY <1>5, <1>6, <1>7, <1>8 DEF CountEntry

LEMMA ControlSuits ==
  ASSUME NEW o, NEW n, ControlEntry(o, n)
  PROVE  \E r \in ControlRows : r.instruction = o /\ Suits(r, n, "Plain")
  <1>1. \A w \in Plain : LET r == instr(w[1], w[2], 4, empty, empty)
                        IN  r \in ControlRows /\ r.instruction = w[2] /\ ~r.is_jump
    BY ControlRowsListed, InstrFields DEF ControlRow
  <1>2. LET r == wide("STOP", 4096, 4, empty, empty)
        IN  r \in ControlRows /\ r.instruction = 4096 /\ ~r.is_jump
    BY ControlRowsListed, WideFields DEF ControlRow
  <1>3. o = 4096 \/ \E w \in Plain : w[2] = o
    BY DEF ControlEntry, Plain
  <1>4. \A r : ~r.is_jump => Suits(r, n, "Plain")
    BY DEF ControlEntry, Suits, Shifts, JumpHandlers
  <1> QED
    BY <1>1, <1>2, <1>3, <1>4

LEMMA ShiftSuits ==
  ASSUME NEW o, NEW n, NEW f, ShiftEntry(o, n, f)
  PROVE  \E r \in ShiftRows : r.instruction = o /\ Suits(r, n, f)
  <1>1. PICK x \in 0 .. 7, y \in 0 .. 7 :
           o = CB + 8 * x + y /\ n = ShiftHandler[x + 1] /\ f = copy(y)
    BY DEF ShiftEntry
  <1> DEFINE r == wide(Shift[x + 1], CB + 8 * x + y, Slow(y, 8, 16), operand(y), empty)
  <1>2. r \in ShiftRows /\ r.instruction = o /\ r.left = operand(y) /\ ~r.is_jump
    <2>1. ShiftRow(r)
      BY Zenon DEF ShiftRow
    <2> QED
      BY <1>1, <2>1, ShiftRowsListed, WideFields
  <1>3. IF f = "Plain" THEN Pointer(operand(y), Register8Bit)
        ELSE f = "Address" /\ Pointer(operand(y), {"HL"})
    BY <1>1, Operands DEF copy, Pointer
  <1>4. n \in Shifts
    <2>1. x \in {0, 1, 2, 3, 4, 5, 6, 7}
      OBVIOUS
    <2> QED
      BY <1>1, <2>1 DEF ShiftHandler, Shifts
  <1> HIDE DEF r
  <1> QED
    BY <1>2, <1>3, <1>4 DEF Suits, Shifts, JumpHandlers

LEMMA BitSuits ==
  ASSUME NEW o, NEW n, NEW f, BitEntry(o, n, f)
  PROVE  \E r \in BitRows : r.instruction = o /\ Suits(r, n, f)
  <1>1. PICK y \in 0 .. 7 :
          \/ o = CB + 64 + y /\ n = "Bit" /\ f = copy(y)
          \/ o = CB + 192 + y /\ n = "Set" /\ f = "Plain"
          \/ o = CB + 128 + y /\ n = "Res" /\ f = "Plain"
    BY DEF BitEntry
  <1> DEFINE Of(name, base) == wide(name, CB + base + y, Slow(y, 8, 16), bit, operand(y))
  <1>2. \A w \in {<<"BIT", 64>>, <<"RES", 128>>, <<"SET", 192>>} :
          /\ Of(w[1], w[2]) \in BitRows /\ Of(w[1], w[2]).instruction = CB + w[2] + y
          /\ Of(w[1], w[2]).left = bit /\ Of(w[1], w[2]).right = operand(y)
          /\ ~Of(w[1], w[2]).is_jump
    BY BitRowsListed, WideFields DEF BitRow
  <1> HIDE DEF Of
  <1>3. \E r \in BitRows : r.instruction = o /\ r.left = bit /\ r.right = operand(y) /\ ~r.is_jump
    BY <1>1, <1>2
  <1>4. /\ operand(y).is_pointer \/ Pointer(operand(y), Register8Bit)
        /\ copy(y) = "Plain" => Pointer(operand(y), Register8Bit)
        /\ bit.type = "BIT"
    BY Operands DEF copy, Pointer, bit, param
  <1> QED
    BY <1>1, <1>3, <1>4 DEF Suits, Shifts, JumpHandlers

LEMMA JumpSuits ==
  ASSUME NEW o, NEW n, JumpEntry(o, n)
  PROVE  \E r \in JumpRows : r.instruction = o /\ Suits(r, n, "Plain")
  <1> DEFINE Others == {jump("JP", 195, 12, literal(2), empty), jump("JP", 233, 4, ptr("HL"), empty),
                        jump("JR", 24, 8, literal(1), empty), jump("CALL", 205, 12, literal(2), empty),
                        jump("RET", 201, 8, empty, empty), jump("RETI", 217, 8, empty, empty)}
             OnCondition(c) ==
               {jump("JP", 8 * c + 194, 12, val(Condition[c + 1]), literal(2)),
                jump("JR", 8 * c + 32, 8, val(Condition[c + 1]), literal(1)),
                jump("CALL", 8 * c + 196, 12, val(Condition[c + 1]), literal(2)),
                jump("RET", 8 * c + 192, 8, val(Condition[c + 1]), empty)}
             Restarting(m) == jump("RST", 8 * m + 199, 32, con(8 * m), empty)
  <1>1. /\ \A c \in {24, 195, 201, 205, 217, 233} : \E r \in Others : r.instruction = c
        /\ \A r \in Others : r \in JumpRows /\ r.is_jump
    <2>1. \A r \in Others : JumpRow(r)
      BY Zenon DEF JumpRow
    <2> QED
      BY <2>1, JumpRowsListed, JumpFields
  <1>2. \A c \in 0 .. 3 :
          /\ \A b \in {32, 192, 194, 196} : \E r \in OnCondition(c) : r.instruction = 8 * c + b
          /\ \A r \in OnCondition(c) : r \in JumpRows /\ r.is_jump
    <2> TAKE c \in 0 .. 3
    <2>1. \A r \in OnCondition(c) : JumpRow(r)
      BY Zenon DEF JumpRow
    <2> QED
      BY <2>1, JumpRowsListed, JumpFields
  <1>3. \A m \in 0 .. 7 : /\ Restarting(m) \in JumpRows /\ Restarting(m).instruction = 8 * m + 199
                         /\ Restarting(m).is_jump
    <2> TAKE m \in 0 .. 7
    <2>1. JumpRow(Restarting(m))
      BY Zenon DEF JumpRow
    <2> QED
      BY <2>1, JumpRowsListed, JumpFields
  <1> HIDE DEF Others, OnCondition, Restarting
  <1>4. \A r : r.is_jump => Suits(r, n, "Plain")
    BY DEF JumpEntry, Suits, Shifts, JumpHandlers
  <1>5. CASE n \in {"Jump", "JumpHL", "JumpRelative", "Call", "Return", "ReturnInterrupt"}
    <2>1. o \in {24, 195, 201, 205, 217, 233}
      BY <1>5 DEF JumpEntry
    <2> QED
      BY <1>1, <1>4, <2>1
  <1>6. CASE n = "Restart"
    BY <1>3, <1>4, <1>6 DEF JumpEntry
  <1>7. CASE n \in {"JumpConditional", "JumpRelativeConditional", "CallConditional", "ReturnConditional"}
    <2>1. \E c \in 0 .. 3 : \E b \in {32, 192, 194, 196} : o = 8 * c + b
      BY <1>7 DEF JumpEntry
    <2> QED
      BY <1>2, <1>4, <2>1
  <1> QED
    BY <1>5, <1>6, <1>7 DEF JumpEntry

(***************************************************************************)
(* Every row has an entry.                                                 *)
(***************************************************************************)

(* Every row has an entry: no instruction lacks a handler.                  *)
Listed(o, E) == \E n, f : <<o, n, f>> \in E

LEMMA LoadHandled == \A r \in LoadRows : Listed(r.instruction, LoadEntries)
  <1> SUFFICES ASSUME NEW r, LoadRow(r) PROVE \E n : LoadEntry(r.instruction, n)
    BY LoadRowsListed, LoadEntriesListed DEF Listed
  <1> USE DEF Registers8, IsA, M
  <1>1. ASSUME NEW x \in 0 .. 7, r.instruction = 8 * x + 6
        PROVE  \E n : LoadEntry(r.instruction, n)
    <2>1. CASE x \in Registers8 \ {IsA}
      <3>1. LoadEntry(r.instruction, "LoadN")
        BY <1>1, <2>1, Zenon DEF LoadEntry
      <3> QED BY <3>1
    <2>2. CASE x = 6
      <3>1. LoadEntry(r.instruction, "Load8BitLiteral")
        BY <1>1, <2>2 DEF LoadEntry
      <3> QED BY <3>1
    <2>3. CASE x = 7
      <3>1. LoadEntry(r.instruction, "LoadAN8BitLiteral")
        BY <1>1, <2>3 DEF LoadEntry
      <3> QED BY <3>1
    <2> QED
      BY <2>1, <2>2, <2>3
  <1>2. ASSUME NEW x \in 0 .. 7, NEW y \in 0 .. 7, x # 6 \/ y # 6,
               r.instruction = 64 + 8 * x + y
        PROVE  \E n : LoadEntry(r.instruction, n)
    <2>1. CASE x \in Registers8 \ {IsA} /\ y \in Registers8 \ {IsA}
      <3>1. LoadEntry(r.instruction, "LoadRR8Bit")
        BY <1>2, <2>1, Zenon DEF LoadEntry
      <3> QED BY <3>1
    <2>2. CASE x \in Registers8 \ {IsA} /\ y = 7
      <3>1. LoadEntry(r.instruction, "LoadNA")
        BY <1>2, <2>2 DEF LoadEntry
      <3> QED BY <3>1
    <2>3. CASE x = 7 /\ y # 6
      <3>1. LoadEntry(r.instruction, "LoadRR8Bit")
        BY <1>2, <2>3 DEF LoadEntry
      <3> QED BY <3>1
    <2>4. CASE x # 6 /\ y = 6
      <3>1. LoadEntry(r.instruction, "LoadRR8BitAddress")
        BY <1>2, <2>4 DEF LoadEntry
      <3> QED BY <3>1
    <2>5. CASE x = 6 /\ y # 7
      <3>1. LoadEntry(r.instruction, "LoadRR8BitIntoAddress")
        BY <1>2, <2>5 DEF LoadEntry
      <3> QED BY <3>1
    <2>6. CASE x = 6 /\ y = 7
      <3>1. LoadEntry(r.instruction, "LoadNAAddress")
        BY <1>2, <2>6 DEF LoadEntry
      <3> QED BY <3>1
    <2> QED
      BY <1>2, <2>1, <2>2, <2>3, <2>4, <2>5, <2>6
  <1>3. ASSUME r.instruction \in {2, 10, 18, 26, 226, 234, 242, 250}
        PROVE  \E n : LoadEntry(r.instruction, n)
    <2>1. \/ LoadEntry(r.instruction, "LoadNAAddress")
          \/ LoadEntry(r.instruction, "LoadAN")
          \/ LoadEntry(r.instruction, "LoadAC")
          \/ LoadEntry(r.instruction, "LoadCA")
          \/ LoadEntry(r.instruction, "LoadAN16BitLiteral")
          \/ LoadEntry(r.instruction, "LoadNA16BitLiteral")
      BY <1>3 DEF LoadEntry
    <2> QED
      BY <2>1
  <1>4. \/ \E x \in 0 .. 7 : r.instruction = 8 * x + 6
        \/ \E x, y \in 0 .. 7 : (x # 6 \/ y # 6) /\ r.instruction = 64 + 8 * x + y
        \/ r.instruction \in {2, 10, 18, 26, 226, 234, 242, 250}
    <2>1. CASE MoveRow(r)
      BY <2>1, RowOpcode DEF MoveRow
    <2>2. ASSUME NEW x \in 0 .. 7, r = instr("LD", 8 * x + 6, Slow(x, 8, 12), operand(x), literal(1))
          PROVE  \E z \in 0 .. 7 : r.instruction = 8 * z + 6
      <3>1. r.instruction = 8 * x + 6
        BY <2>2, RowOpcode
      <3> QED BY <3>1
    <2>3. ASSUME NEW p \in 0 .. 1, \/ r = instr("LD", 16 * p + 10, 8, val("A"), ptr(Pair(p, "SP")))
                                   \/ r = instr("LD", 16 * p + 2, 8, ptr(Pair(p, "SP")), val("A"))
          PROVE  r.instruction \in {2, 10, 18, 26}
      <3>1. r.instruction = 16 * p + 10 \/ r.instruction = 16 * p + 2
        BY <2>3, RowOpcode
      <3> QED BY <3>1
    <2>4. ASSUME \/ r = instr("LD", 250, 16, val("A"), address(2))
                 \/ r = instr("LD", 234, 16, address(2), val("A"))
                 \/ r = instr("LD", 242, 8, val("A"), ptr("C"))
                 \/ r = instr("LD", 226, 8, ptr("C"), val("A"))
          PROVE  r.instruction \in {226, 234, 242, 250}
      BY <2>4, RowOpcode
    <2> QED
      BY <2>1, <2>2, <2>3, <2>4 DEF LoadRow
  <1> QED
    BY <1>1, <1>2, <1>3, <1>4

LEMMA WideLoadHandled == \A r \in WideLoadRows : Listed(r.instruction, WideLoadEntries)
  <1> SUFFICES ASSUME NEW r, WideLoadRow(r) PROVE \E n : WideLoadEntry(r.instruction, n)
    BY WideLoadRowsListed, WideLoadEntriesListed DEF Listed
  <1>1. \/ \E p \in 0 .. 3 : r.instruction = 16 * p + 1
        \/ r.instruction \in {8, 34, 42, 50, 58, 224, 240, 248, 249}
    BY RowOpcode DEF WideLoadRow
  <1>2. ASSUME NEW p \in 0 .. 3, r.instruction = 16 * p + 1
        PROVE  WideLoadEntry(r.instruction, "LoadNN")
    BY <1>2 DEF WideLoadEntry
  <1>3. ASSUME r.instruction \in {8, 34, 42, 50, 58, 224, 240, 248, 249}
        PROVE  \E n : WideLoadEntry(r.instruction, n)
    BY <1>3 DEF WideLoadEntry
  <1> QED
    BY <1>1, <1>2, <1>3

LEMMA StackHandled == \A r \in StackRows : Listed(r.instruction, StackEntries)
  <1> SUFFICES ASSUME NEW r, StackRow(r) PROVE \E n : StackEntry(r.instruction, n)
    BY StackRowsListed, StackEntriesListed DEF Listed
  <1>1. \E p \in 0 .. 3 : r.instruction = 16 * p + 197 \/ r.instruction = 16 * p + 193
    BY RowOpcode DEF StackRow
  <1> QED
    BY <1>1 DEF StackEntry

LEMMA AluHandled == \A r \in AluRows : Listed(r.instruction, AluEntries)
  <1> SUFFICES ASSUME NEW r, AluRow(r) PROVE \E n, f : AluEntry(r.instruction, n, f)
    BY AluRowsListed, AluEntriesListed DEF Listed
  <1>1. \/ \E x, y \in 0 .. 7 : r.instruction = 128 + 8 * x + y
        \/ \E x \in 0 .. 7 : r.instruction = 198 + 8 * x
    BY RowOpcode DEF AluRow
  <1>2. ASSUME NEW x \in 0 .. 7, NEW y \in 0 .. 7, r.instruction = 128 + 8 * x + y
        PROVE  AluEntry(r.instruction, AluHandler[x + 1], copy(y))
    BY <1>2, Zenon DEF AluEntry
  <1>3. ASSUME NEW x \in 0 .. 7, r.instruction = 198 + 8 * x
        PROVE  AluEntry(r.instruction, AluHandler[x + 1], "Literal")
    BY <1>3, Zenon DEF AluEntry
  <1> QED
    BY <1>1, <1>2, <1>3

LEMMA CountHandled == \A r \in CountRows : Listed(r.instruction, CountEntries)
  <1> SUFFICES ASSUME NEW r, CountRow(r) PROVE \E n, f : CountEntry(r.instruction, n, f)
    BY CountRowsListed, CountEntriesListed DEF Listed
  <1>1. \/ \E x \in 0 .. 7 : r.instruction = 8 * x + 4 \/ r.instruction = 8 * x + 5
        \/ r.instruction = 232
        \/ \E p \in 0 .. 3 : r.instruction \in {16 * p + 9, 16 * p + 3, 16 * p + 11}
    BY RowOpcode DEF CountRow
  <1>2. ASSUME NEW x \in 0 .. 7, r.instruction = 8 * x + 4
        PROVE  CountEntry(r.instruction, "Inc8Bit", copy(x))
    BY <1>2, Zenon DEF CountEntry
  <1>3. ASSUME NEW x \in 0 .. 7, r.instruction = 8 * x + 5
        PROVE  CountEntry(r.instruction, "Dec8Bit", copy(x))
    BY <1>3, Zenon DEF CountEntry
  <1>4. ASSUME NEW p \in 0 .. 3, r.instruction \in {16 * p + 9, 16 * p + 3, 16 * p + 11}
        PROVE  \/ CountEntry(r.instruction, "Add16Bit", "Plain")
               \/ CountEntry(r.instruction, "Inc16Bit", "Plain")
               \/ CountEntry(r.instruction, "Dec16Bit", "Plain")
    BY <1>4 DEF CountEntry
  <1>5. ASSUME r.instruction = 232
        PROVE  CountEntry(r.instruction, "AddSPLiteral", "Plain")
    BY <1>5 DEF CountEntry
  <1> QED
    BY <1>1, <1>2, <1>3, <1>4, <1>5

LEMMA ControlHandled == \A r \in ControlRows : Listed(r.instruction, ControlEntries)
  <1> SUFFICES ASSUME NEW r, ControlRow(r) PROVE \E n : ControlEntry(r.instruction, n)
    BY ControlRowsListed, ControlEntriesListed DEF Listed
  <1>1. r.instruction \in {0, 7, 15, 23, 31, 39, 47, 55, 63, 118, 243, 251, 4096}
    BY RowOpcode DEF ControlRow, Plain
  <1> QED
    BY <1>1 DEF ControlEntry

LEMMA ShiftHandled == \A r \in ShiftRows : Listed(r.instruction, ShiftEntries)
  <1> SUFFICES ASSUME NEW r, ShiftRow(r) PROVE \E n, f : ShiftEntry(r.instruction, n, f)
    BY ShiftRowsListed, ShiftEntriesListed DEF Listed
  <1>1. PICK x \in 0 .. 7, y \in 0 .. 7 : r.instruction = CB + 8 * x + y
    BY RowOpcode DEF ShiftRow
  <1>2. ShiftEntry(r.instruction, ShiftHandler[x + 1], copy(y))
    BY <1>1, Zenon DEF ShiftEntry
  <1> QED
    BY <1>2

LEMMA BitHandled == \A r \in BitRows : Listed(r.instruction, BitEntries)
  <1> SUFFICES ASSUME NEW r, BitRow(r) PROVE \E n, f : BitEntry(r.instruction, n, f)
    BY BitRowsListed, BitEntriesListed DEF Listed
  <1>1. PICK y \in 0 .. 7 : \E b \in {64, 128, 192} : r.instruction = CB + b + y
    <2>1. PICK w \in {<<"BIT", 64>>, <<"RES", 128>>, <<"SET", 192>>}, y \in 0 .. 7 :
             r = wide(w[1], CB + w[2] + y, Slow(y, 8, 16), bit, operand(y))
      BY DEF BitRow
    <2>2. r.instruction = CB + w[2] + y /\ w[2] \in {64, 128, 192}
      BY <2>1, RowOpcode
    <2> QED
      BY <2>2
  <1>2. \/ BitEntry(r.instruction, "Bit", copy(y))
        \/ BitEntry(r.instruction, "Set", "Plain")
        \/ BitEntry(r.instruction, "Res", "Plain")
    BY <1>1 DEF BitEntry
  <1> QED
    BY <1>2

LEMMA JumpHandled == \A r \in JumpRows : Listed(r.instruction, JumpEntries)
  <1> SUFFICES ASSUME NEW r, JumpRow(r) PROVE \E n : JumpEntry(r.instruction, n)
    BY JumpRowsListed, JumpEntriesListed DEF Listed
  <1>1. \/ r.instruction \in {24, 195, 201, 205, 217, 233}
        \/ \E c \in 0 .. 3 : r.instruction \in {8 * c + 194, 8 * c + 32, 8 * c + 196, 8 * c + 192}
        \/ \E n \in 0 .. 7 : r.instruction = 8 * n + 199
    BY RowOpcode DEF JumpRow
  <1>2. ASSUME r.instruction \in {24, 195, 201, 205, 217, 233}
        PROVE  \E n : JumpEntry(r.instruction, n)
    BY <1>2 DEF JumpEntry
  <1>3. ASSUME NEW c \in 0 .. 3, r.instruction \in {8 * c + 194, 8 * c + 32, 8 * c + 196, 8 * c + 192}
        PROVE  \/ JumpEntry(r.instruction, "JumpConditional")
               \/ JumpEntry(r.instruction, "JumpRelativeConditional")
               \/ JumpEntry(r.instruction, "CallConditional")
               \/ JumpEntry(r.instruction, "ReturnConditional")
    BY <1>3 DEF JumpEntry
  <1>4. ASSUME NEW m \in 0 .. 7, r.instruction = 8 * m + 199
        PROVE  JumpEntry(r.instruction, "Restart")
    BY <1>4 DEF JumpEntry
  <1> QED
    BY <1>1, <1>2, <1>3, <1>4

(***************************************************************************)
(* Every row has one entry only, and one that suits it.                    *)
(***************************************************************************)

(* The handler table: no opcode has two entries, so that which of two would *)
(* be found never matters.                                                  *)
THEOREM EntriesOnce ==
  ASSUME NEW d \in Entries, NEW e \in Entries, d[1] = e[1]
  PROVE  d = e
  <1> DEFINE o == d[1]
  <1>1. d = <<o, d[2], d[3]>> /\ e = <<o, e[2], e[3]>>
    BY EntriesTriples
  <1>2. \A n, f : /\ <<o, n, f>> \in LoadEntries => o \in LoadOpcodes
                  /\ <<o, n, f>> \in WideLoadEntries => o \in WideLoadOpcodes
                  /\ <<o, n, f>> \in StackEntries => o \in StackOpcodes
                  /\ <<o, n, f>> \in AluEntries => o \in AluOpcodes
                  /\ <<o, n, f>> \in CountEntries => o \in CountOpcodes
                  /\ <<o, n, f>> \in ControlEntries => o \in ControlOpcodes
                  /\ <<o, n, f>> \in ShiftEntries => o \in ShiftOpcodes
                  /\ <<o, n, f>> \in BitEntries => o \in BitOpcodes
                  /\ <<o, n, f>> \in JumpEntries => o \in JumpOpcodes
    BY LoadEntriesListed, LoadEntryPart, WideLoadEntriesListed, WideLoadEntryPart,
       StackEntriesListed, StackEntryPart, AluEntriesListed, AluEntryPart,
       CountEntriesListed, CountEntryPart, ControlEntriesListed, ControlEntryPart,
       ShiftEntriesListed, ShiftEntryPart, BitEntriesListed, BitEntryPart,
       JumpEntriesListed, JumpEntryPart
  <1> HIDE DEF o
  <1>3. CASE <<o, d[2], d[3]>> \in LoadEntries
    <2>1. <<o, e[2], e[3]>> \in LoadEntries
      BY <1>1, <1>2, <1>3, PartsApart DEF Entries
    <2> QED
      BY <1>1, <1>3, <2>1, LoadEntriesListed, LoadEntryOnce
  <1>4. CASE <<o, d[2], d[3]>> \in WideLoadEntries
    <2>1. <<o, e[2], e[3]>> \in WideLoadEntries
      BY <1>1, <1>2, <1>4, PartsApart DEF Entries
    <2> QED
      BY <1>1, <1>4, <2>1, WideLoadEntriesListed, WideLoadEntryOnce
  <1>5. CASE <<o, d[2], d[3]>> \in StackEntries
    <2>1. <<o, e[2], e[3]>> \in StackEntries
      BY <1>1, <1>2, <1>5, PartsApart DEF Entries
    <2> QED
      BY <1>1, <1>5, <2>1, StackEntriesListed, StackEntryOnce
  <1>6. CASE <<o, d[2], d[3]>> \in AluEntries
    <2>1. <<o, e[2], e[3]>> \in AluEntries
      BY <1>1, <1>2, <1>6, PartsApart DEF Entries
    <2> QED
      BY <1>1, <1>6, <2>1, AluEntriesListed, AluEntryOnce
  <1>7. CASE <<o, d[2], d[3]>> \in CountEntries
    <2>1. <<o, e[2], e[3]>> \in CountEntries
      BY <1>1, <1>2, <1>7, PartsApart DEF Entries
    <2> QED
      BY <1>1, <1>7, <2>1, CountEntriesListed, CountEntryOnce
  <1>8. CASE <<o, d[2], d[3]>> \in ControlEntries
    <2>1. <<o, e[2], e[3]>> \in ControlEntries
      BY <1>1, <1>2, <1>8, PartsApart DEF Entries
    <2> QED
      BY <1>1, <1>8, <2>1, ControlEntriesListed, ControlEntryOnce
  <1>9. CASE <<o, d[2], d[3]>> \in ShiftEntries
    <2>1. <<o, e[2], e[3]>> \in ShiftEntries
      BY <1>1, <1>2, <1>9, PartsApart DEF Entries
    <2> QED
      BY <1>1, <1>9, <2>1, ShiftEntriesListed, ShiftEntryOnce
  <1>10. CASE <<o, d[2], d[3]>> \in BitEntries
    <2>1. <<o, e[2], e[3]>> \in BitEntries
      BY <1>1, <1>2, <1>10, PartsApart DEF Entries
    <2> QED
      BY <1>1, <1>10, <2>1, BitEntriesListed, BitEntryOnce
  <1>11. CASE <<o, d[2], d[3]>> \in JumpEntries
    <2>1. <<o, e[2], e[3]>> \in JumpEntries
      BY <1>1, <1>2, <1>11, PartsApart DEF Entries
    <2> QED
      BY <1>1, <1>11, <2>1, JumpEntriesListed, JumpEntryOnce
  <1> QED
    BY <1>1, <1>3, <1>4, <1>5, <1>6, <1>7, <1>8, <1>9, <1>10, <1>11 DEF Entries

(* Every entry has a row that suits it, and that is the only row.           *)
LEMMA EntrySuits ==
  ASSUME NEW o, NEW n, NEW f, <<o, n, f>> \in Entries
  PROVE  \E r \in FactoryList : r.instruction = o /\ Suits(r, n, f)
  <1>1. CASE <<o, n, f>> \in LoadEntries
    BY <1>1, LoadEntriesListed, LoadSuits DEF FactoryList
  <1>2. CASE <<o, n, f>> \in WideLoadEntries
    BY <1>2, WideLoadEntriesListed, WideLoadSuits DEF FactoryList
  <1>3. CASE <<o, n, f>> \in StackEntries
    BY <1>3, StackEntriesListed, StackSuits DEF FactoryList
  <1>4. CASE <<o, n, f>> \in AluEntries
    BY <1>4, AluEntriesListed, AluSuits DEF FactoryList
  <1>5. CASE <<o, n, f>> \in CountEntries
    BY <1>5, CountEntriesListed, CountSuits DEF FactoryList
  <1>6. CASE <<o, n, f>> \in ControlEntries
    BY <1>6, ControlEntriesListed, ControlSuits DEF FactoryList
  <1>7. CASE <<o, n, f>> \in ShiftEntries
    BY <1>7, ShiftEntriesListed, ShiftSuits DEF FactoryList
  <1>8. CASE <<o, n, f>> \in BitEntries
    BY <1>8, BitEntriesListed, BitSuits DEF FactoryList
  <1>9. CASE <<o, n, f>> \in JumpEntries
    BY <1>9, JumpEntriesListed, JumpSuits DEF FactoryList
  <1> QED
    BY <1>1, <1>2, <1>3, <1>4, <1>5, <1>6, <1>7, <1>8, <1>9 DEF Entries

(* The instruction table: no instruction the decoder knows lacks a handler. *)
THEOREM RowHandled == \A r \in FactoryList : Listed(r.instruction, Entries)
  BY LoadHandled, WideLoadHandled, StackHandled, AluHandled, CountHandled, ControlHandled,
     ShiftHandled, BitHandled, JumpHandled DEF FactoryList, Entries, Listed

LEMMA NoneRepeated == Repeated = {}
  BY RowsOnce DEF Repeated

LEMMA SameOpcodes == DOMAIN CreateOpcodeMap = DOMAIN CreateInstructionMap
  <1>1. \A e \in Entries : \E r \in FactoryList : r.instruction = e[1]
    BY EntriesTriples, EntrySuits
  <1>2. \A r \in FactoryList : \E e \in Entries : e[1] = r.instruction
    <2> TAKE r \in FactoryList
    <2>1. PICK n, f : <<r.instruction, n, f>> \in Entries
      BY RowHandled DEF Listed
    <2> QED
      BY <2>1
  <1>3. DOMAIN CreateOpcodeMap = {e[1] : e \in Entries}
    BY Zenon DEF CreateOpcodeMap
  <1>4. DOMAIN CreateInstructionMap = {r.instruction : r \in FactoryList}
    BY Zenon DEF CreateInstructionMap
  <1>5. {e[1] : e \in Entries} = {r.instruction : r \in FactoryList}
    BY <1>1, <1>2
  <1> QED
    BY <1>3, <1>4, <1>5

LEMMA MapsSuit ==
  ASSUME NEW o \in DOMAIN CreateInstructionMap
  PROVE  /\ CreateInstructionMap[o] \in FactoryList
         /\ CreateInstructionMap[o].instruction = o
         /\ \E n, f : /\ <<o, n, f>> \in Entries
                      /\ CreateOpcodeMap[o] = [name |-> n, form |-> f]
                      /\ Suits(CreateInstructionMap[o], n, f)
  <1> DEFINE r == CHOOSE r \in FactoryList : r.instruction = o
             e == CHOOSE e \in Entries : e[1] = o
  <1>1. CreateInstructionMap[o] = r /\ r \in FactoryList /\ r.instruction = o
    BY Zenon DEF CreateInstructionMap
  <1>2. o \in DOMAIN CreateOpcodeMap
    BY SameOpcodes
  <1>3. /\ CreateOpcodeMap[o] = [name |-> e[2], form |-> e[3]]
        /\ e \in Entries /\ e[1] = o
    BY <1>2, Zenon DEF CreateOpcodeMap, Handler
  <1> HIDE DEF r, e
  <1>4. <<o, e[2], e[3]>> \in Entries
    BY <1>3, EntriesTriples
  <1>5. Suits(r, e[2], e[3])
    BY <1>1, <1>4, EntrySuits, RowsOnce
  <1> QED
    BY <1>1, <1>3, <1>4, <1>5

(***************************************************************************)
(* What the decoder builds from a row and the bytes of the code.           *)
(***************************************************************************)

(* What holds of the rows: their widths, and the registers they name.       *)
Sized(p) == p.val \in Word /\ p.width \in 0 .. 2 /\ (p.type = "VALUE" => p.width \in 1 .. 2)
Named(p) == p.type = "REGISTER" => p.reg \in Register8Bit \cup Register16Bit

WellBuilt(r) ==
  /\ r.opcode # "none" /\ r.width \in 1 .. 2
  /\ Sized(r.left) /\ Sized(r.right)
  /\ r.left.type = "BIT" \/ r.right.type = "BIT" => r.width = 2
  /\ ~r.is_jump => Named(r.left) /\ Named(r.right)

LEMMA Interval ==
  ASSUME NEW n \in Int, NEW x
  PROVE  x \in 0 .. n <=> (x \in Int /\ 0 <= x /\ x <= n)
  OBVIOUS

(* Bytes, words and the bits above F, which the provers would enumerate.    *)
LEMMA ByteBounds ==
  \A x : x \in Byte <=> (x \in Int /\ 0 <= x /\ x <= 255)
  <1> DEFINE last == 255
  <1>1. Byte = 0 .. last
    BY DEF Byte
  <1>2. last \in Int
    OBVIOUS
  <1>3. \A x : x <= last <=> x <= 255
    OBVIOUS
  <1> HIDE DEF last
  <1>4. \A x : x \in 0 .. last <=> (x \in Int /\ 0 <= x /\ x <= last)
    BY <1>2, Interval
  <1> QED
    BY <1>1, <1>3, <1>4

LEMMA WordBounds ==
  \A x : x \in Word <=> (x \in Int /\ 0 <= x /\ x <= 65535)
  <1> DEFINE last == 65535
  <1>1. Word = 0 .. last
    BY DEF Word
  <1>2. last \in Int
    OBVIOUS
  <1>3. \A x : x <= last <=> x <= 65535
    OBVIOUS
  <1> HIDE DEF last
  <1>4. \A x : x \in 0 .. last <=> (x \in Int /\ 0 <= x /\ x <= last)
    BY <1>2, Interval
  <1> QED
    BY <1>1, <1>3, <1>4

PadBits == 0 .. 4095

LEMMA PadBounds ==
  \A x : x \in PadBits <=> (x \in Int /\ 0 <= x /\ x <= 4095)
  <1> DEFINE last == 4095
  <1>1. PadBits = 0 .. last
    BY DEF PadBits
  <1>2. last \in Int
    OBVIOUS
  <1>3. \A x : x <= last <=> x <= 4095
    OBVIOUS
  <1> HIDE DEF last
  <1>4. \A x : x \in 0 .. last <=> (x \in Int /\ 0 <= x /\ x <= last)
    BY <1>2, Interval
  <1> QED
    BY <1>1, <1>3, <1>4

LEMMA Bounds ==
  /\ \A x : x \in Byte <=> (x \in Int /\ 0 <= x /\ x <= 255)
  /\ \A x : x \in Word <=> (x \in Int /\ 0 <= x /\ x <= 65535)
  BY ByteBounds, WordBounds

LEMMA Widths ==
  0 \in Word /\ 0 \in 0 .. 2 /\ 1 .. 2 \subseteq 0 .. 2 /\ "REGISTER" # "VALUE"
  BY Bounds

LEMMA RegisterParams ==
  ASSUME NEW name
  PROVE  /\ Sized(val(name)) /\ Sized(ptr(name))
         /\ val(name).type = "REGISTER" /\ ptr(name).type = "REGISTER"
         /\ name \in Register8Bit \cup Register16Bit => Named(val(name)) /\ Named(ptr(name))
  <1>1. Sized(val(name)) /\ Sized(ptr(name))
    BY ValFields, PtrFields, Widths DEF Sized
  <1>2. name \in Register8Bit \cup Register16Bit => Named(val(name)) /\ Named(ptr(name))
    BY ValFields, PtrFields DEF Named
  <1> QED
    BY <1>1, <1>2, ValFields, PtrFields

LEMMA OtherParams ==
  /\ \A w \in 1 .. 2 :
       /\ Sized(literal(w)) /\ Named(literal(w)) /\ literal(w).type = "VALUE"
       /\ Sized(address(w)) /\ Named(address(w)) /\ address(w).type = "VALUE"
  /\ Sized(bit) /\ Named(bit) /\ bit.type = "BIT"
  /\ Sized(empty) /\ Named(empty) /\ empty.type = "EMPTY"
  /\ \A v \in Word : Sized(con(v)) /\ con(v).type = "CONSTANT"
  <1>1. \A w \in 1 .. 2 :
          /\ Sized(literal(w)) /\ Named(literal(w)) /\ literal(w).type = "VALUE"
          /\ Sized(address(w)) /\ Named(address(w)) /\ address(w).type = "VALUE"
    BY Widths DEF Sized, Named, literal, address, param
  <1>2. Sized(bit) /\ Named(bit) /\ bit.type = "BIT"
    BY Widths DEF Sized, Named, bit, param
  <1>3. Sized(empty) /\ Named(empty) /\ empty.type = "EMPTY"
    BY Widths DEF Sized, Named, empty, param
  <1>4. \A v \in Word : Sized(con(v)) /\ con(v).type = "CONSTANT"
    BY Widths DEF Sized, con, param
  <1> QED
    BY <1>1, <1>2, <1>3, <1>4

LEMMA NamesOfRows ==
  /\ \A x \in 0 .. 7 : Alu[x + 1] # "none" /\ Shift[x + 1] # "none"
  /\ {"A", "C"} \subseteq Register8Bit /\ {"HL", "SP"} \subseteq Register16Bit
  <1>1. \A x \in 0 .. 7 : x \in {0, 1, 2, 3, 4, 5, 6, 7}
    OBVIOUS
  <1> QED
    BY <1>1 DEF Alu, Shift, Register8Bit, Register16Bit

LEMMA OperandParams ==
  ASSUME NEW x \in 0 .. 7
  PROVE  Sized(operand(x)) /\ Named(operand(x)) /\ operand(x).type = "REGISTER"
  <1>1. operand(x).reg \in Register8Bit \cup Register16Bit
    BY Operands, NamesOfRows
  <1> QED
    BY <1>1, Operands, Widths DEF Sized, Named

LEMMA PairParams ==
  ASSUME NEW p \in 0 .. 3
  PROVE  /\ Sized(val(Pair(p, "SP"))) /\ Named(val(Pair(p, "SP")))
         /\ Sized(val(Pair(p, "AF"))) /\ Named(val(Pair(p, "AF")))
         /\ Sized(ptr(Pair(p, "SP"))) /\ Named(ptr(Pair(p, "SP")))
         /\ val(Pair(p, "SP")).type = "REGISTER" /\ val(Pair(p, "AF")).type = "REGISTER"
         /\ ptr(Pair(p, "SP")).type = "REGISTER"
  BY Pairs, RegisterParams

LEMMA InstrBuilt ==
  ASSUME NEW o, NEW i, NEW c, NEW l, NEW r, o # "none",
         Sized(l), Named(l), l.type # "BIT", Sized(r), Named(r), r.type # "BIT"
  PROVE  WellBuilt(instr(o, i, c, l, r))
  BY InstrFields DEF WellBuilt

LEMMA WideBuilt ==
  ASSUME NEW o, NEW i, NEW c, NEW l, NEW r, o # "none",
         Sized(l), Named(l), Sized(r), Named(r)
  PROVE  WellBuilt(wide(o, i, c, l, r))
  BY WideFields DEF WellBuilt

LEMMA JumpBuilt ==
  ASSUME NEW o, NEW i, NEW c, NEW l, NEW r, o # "none",
         Sized(l), l.type # "BIT", Sized(r), r.type # "BIT"
  PROVE  WellBuilt(jump(o, i, c, l, r))
  BY JumpFields DEF WellBuilt

LEMMA NamedParams ==
  /\ Named(val("A")) /\ Named(val("HL")) /\ Named(val("SP"))
  /\ Named(ptr("C")) /\ Named(ptr("HL"))
  BY RegisterParams, NamesOfRows

LEMMA LoadBuilt == \A r \in LoadRows : WellBuilt(r)
  <1> SUFFICES ASSUME NEW r, LoadRow(r) PROVE WellBuilt(r)
    BY LoadRowsListed
  <1> USE RegisterParams, OtherParams, OperandParams, PairParams, NamedParams, InstrBuilt
  <1>1. CASE \E x \in 0 .. 7 : r = instr("LD", 8 * x + 6, Slow(x, 8, 12), operand(x), literal(1))
    BY <1>1
  <1>2. CASE MoveRow(r)
    BY <1>2 DEF MoveRow
  <1>3. CASE \E p \in 0 .. 1 : r = instr("LD", 16 * p + 10, 8, val("A"), ptr(Pair(p, "SP")))
    BY <1>3
  <1>4. CASE \E p \in 0 .. 1 : r = instr("LD", 16 * p + 2, 8, ptr(Pair(p, "SP")), val("A"))
    BY <1>4
  <1>5. CASE \/ r = instr("LD", 250, 16, val("A"), address(2))
             \/ r = instr("LD", 234, 16, address(2), val("A"))
             \/ r = instr("LD", 242, 8, val("A"), ptr("C"))
             \/ r = instr("LD", 226, 8, ptr("C"), val("A"))
    BY <1>5
  <1> QED
    BY <1>1, <1>2, <1>3, <1>4, <1>5, Zenon DEF LoadRow

LEMMA WideLoadBuilt == \A r \in WideLoadRows : WellBuilt(r)
  BY WideLoadRowsListed, RegisterParams, OtherParams, PairParams, NamedParams, InstrBuilt
     DEF WideLoadRow

LEMMA StackBuilt == \A r \in StackRows : WellBuilt(r)
  BY StackRowsListed, OtherParams, PairParams, InstrBuilt DEF StackRow

LEMMA AluBuilt == \A r \in AluRows : WellBuilt(r)
  <1> SUFFICES ASSUME NEW r, AluRow(r) PROVE WellBuilt(r)
    BY AluRowsListed
  <1> USE RegisterParams, OtherParams, OperandParams, NamedParams, InstrBuilt, NamesOfRows
  <1>1. CASE \E x, y \in 0 .. 7 :
               r = instr(Alu[x + 1], 128 + 8 * x + y, Slow(y, 4, 8), val("A"), operand(y))
    BY <1>1
  <1>2. CASE \E x \in 0 .. 7 : r = instr(Alu[x + 1], 198 + 8 * x, 8, val("A"), literal(1))
    BY <1>2
  <1> QED
    BY <1>1, <1>2 DEF AluRow

LEMMA CountBuilt == \A r \in CountRows : WellBuilt(r)
  BY CountRowsListed, RegisterParams, OtherParams, OperandParams, PairParams, NamedParams,
     InstrBuilt, SMTT(60) DEF CountRow

LEMMA ControlBuilt == \A r \in ControlRows : WellBuilt(r)
  BY ControlRowsListed, OtherParams, InstrBuilt, WideBuilt DEF ControlRow, Plain

LEMMA ShiftBuilt == \A r \in ShiftRows : WellBuilt(r)
  BY ShiftRowsListed, OtherParams, OperandParams, WideBuilt, NamesOfRows DEF ShiftRow

LEMMA BitBuilt == \A r \in BitRows : WellBuilt(r)
  BY BitRowsListed, OtherParams, OperandParams, WideBuilt DEF BitRow

LEMMA JumpBuiltAll == \A r \in JumpRows : WellBuilt(r)
  <1>1. \A n \in 0 .. 7 : 8 * n \in Word
    BY Bounds
  <1> QED
    BY <1>1, JumpRowsListed, RegisterParams, OtherParams, JumpBuilt, SMTT(60) DEF JumpRow

LEMMA RowsBuilt == \A r \in FactoryList : WellBuilt(r)
  BY LoadBuilt, WideLoadBuilt, StackBuilt, AluBuilt, CountBuilt, ControlBuilt, ShiftBuilt,
     BitBuilt, JumpBuiltAll DEF FactoryList

(* The arguments that Build makes of a row and of the bytes of a program.   *)
Argument(a) ==
  IF a.type = "REGISTER" THEN a.reg \in Register8Bit \cup Register16Bit ELSE a.val \in Word

LEMMA RawValues ==
  /\ \A x, y \in Byte : x * 256 + y \in Word
  /\ \A x \in Byte : x \in Word /\ (x \div 8) % 8 \in 0 .. 7
  /\ 0 .. 7 \subseteq Word
  <1>1. \A x \in Byte : (x \div 8) % 8 \in 0 .. 7
    BY Bounds
  <1>2. \A x, y \in Byte : x * 256 + y \in Word
    BY Bounds
  <1>3. Byte \subseteq Word /\ 0 .. 7 \subseteq Word
    BY Bounds
  <1> QED
    BY <1>1, <1>2, <1>3

LEMMA BuiltParameter ==
  ASSUME NEW p, NEW raw \in Seq(Byte), Sized(p),
         Len(raw) >= 1, p.width = 2 => Len(raw) >= 2, p.type = "BIT" => Len(raw) >= 2
  PROVE  LET a == BuildParameter(p, raw) IN
         /\ a.type = IF p.type \in {"BIT", "CONSTANT"} THEN "VALUE" ELSE p.type
         /\ a.reg = p.reg
         /\ a.is_pointer <=> p.is_pointer
         /\ a.type # "REGISTER" => a.val \in Word
         /\ p.type = "BIT" => a.val \in 0 .. 7
  <1> DEFINE a == BuildParameter(p, raw)
  <1> HIDE DEF a
  <1>1. /\ Len(raw) \in Nat /\ raw[Len(raw)] \in Byte
        /\ Len(raw) >= 2 => raw[Len(raw) - 1] \in Byte /\ raw[2] \in Byte
    OBVIOUS
  <1>2. p.type = "VALUE" => RawParam(raw, p.width) \in Word
    <2>1. CASE p.width = 2
      BY <1>1, <2>1, RawValues DEF RawParam
    <2>2. CASE p.width # 2
      BY <1>1, <2>2, RawValues DEF RawParam
    <2> QED
      BY <2>1, <2>2
  <1>3. p.type = "BIT" => (raw[2] \div 8) % 8 \in 0 .. 7
    BY <1>1, RawValues
  <1>4. p.val \in Word /\ 0 .. 7 \subseteq Word
    BY RawValues DEF Sized
  <1>5. /\ a.type = IF p.type \in {"BIT", "CONSTANT"} THEN "VALUE" ELSE p.type
        /\ a.reg = p.reg
        /\ a.is_pointer <=> p.is_pointer
        /\ a.val = CASE p.type = "VALUE" -> RawParam(raw, p.width)
                     [] p.type = "BIT" -> (raw[2] \div 8) % 8
                     [] OTHER -> p.val
    BY Zenon DEF BuildParameter, a
  <1>6. /\ p.type = "VALUE" => a.val = RawParam(raw, p.width)
        /\ p.type = "BIT" => a.val = (raw[2] \div 8) % 8
        /\ p.type \notin {"VALUE", "BIT"} => a.val = p.val
    BY <1>5, Zenon
  <1> QED
    BY <1>2, <1>3, <1>4, <1>5, <1>6 DEF a

(***************************************************************************)
(* The inductive invariant, initially and after a fetch.                   *)
(***************************************************************************)

(* What the instruction that was fetched lets its handler count on.         *)
ArgumentsOK ==
  /\ ir.is_jump => handler.name \in JumpHandlers
  /\ ~ir.is_jump => Argument(ir.arg1) /\ Argument(ir.arg2)
  /\ handler.name \in {"Bit", "Set", "Res"} => ir.arg1.type = "VALUE" /\ ir.arg1.val \in 0 .. 7
  /\ handler.name \in {"Inc8Bit", "Dec8Bit"} \cup Shifts =>
       /\ handler.form \in {"Plain", "Address"}
       /\ handler.form = "Address" => Pointer(ir.arg1, {"HL"})
       /\ handler.form = "Plain" => Pointer(ir.arg1, Register8Bit)
  /\ handler.name \in {"LoadNN", "Inc16Bit", "Dec16Bit", "Push", "Pop"} =>
       Pointer(ir.arg1, Register16Bit)

Typed ==
  /\ reg \in RegisterFile
  /\ flag \in FlagBits
  /\ pad \in PadBits /\ sp \in Word
  /\ mem \in [Ram -> Byte]
  /\ ime \in BOOLEAN /\ halted \in BOOLEAN

Fetched ==
  /\ code \in Programs
  /\ pc \in 0 .. Len(code)
  /\ ir = NoInstruction <=> handler = None
  /\ handler # None => handler.name # "none" /\ PointersExist /\ ArgumentsOK

IInv == Typed /\ Fetched

LEMMA CodeBytes ==
  ASSUME code \in Programs
  PROVE  code \in Seq(Byte) /\ Len(code) \in Nat
  BY WidthsAssumption

LEMMA InitIInv == Init => IInv
  <1> SUFFICES ASSUME Init PROVE IInv
    OBVIOUS
  <1>1. Typed
    <2>1. pad \in PadBits
      BY PadBounds DEF Init
    <2>2. reg \in RegisterFile /\ flag \in FlagBits /\ sp \in Word /\ mem \in [Ram -> Byte]
      BY WidthsAssumption, Zenon DEF Init
    <2>3. ime \in BOOLEAN /\ halted \in BOOLEAN
      BY DEF Init
    <2> QED
      BY <2>1, <2>2, <2>3 DEF Typed
  <1>2. Fetched
    <2>1. pc \in 0 .. Len(code)
      BY CodeBytes DEF Init
    <2> QED
      BY <2>1 DEF Init, Fetched
  <1> QED
    BY <1>1, <1>2 DEF IInv

(* A part of the code, as RawInstruction sees it.                           *)
LEMMA RawBytes ==
  ASSUME code \in Seq(Byte), NEW w \in Nat, pc \in Nat, pc + w <= Len(code)
  PROVE  /\ SubSeq(code, pc + 1, pc + w) \in Seq(Byte)
         /\ Len(SubSeq(code, pc + 1, pc + w)) = w
  <1>1. \A i \in (pc + 1) .. (pc + w) : code[i] \in Byte
    OBVIOUS
  <1>2. pc + 1 \in Int /\ pc + w \in Int
    OBVIOUS
  <1>3. /\ SubSeq(code, pc + 1, pc + w) \in Seq(Byte)
        /\ Len(SubSeq(code, pc + 1, pc + w))
             = IF pc + 1 <= pc + w THEN (pc + w) - (pc + 1) + 1 ELSE 0
    BY <1>1, <1>2, SubSeqProperties
  <1> QED
    BY <1>3

(* What Fetch hands out.                                                    *)
LEMMA FetchHandsOut ==
  ASSUME NEW r \in FactoryList, NEW raw \in Seq(Byte), Len(raw) = TotalWidth(r),
         NEW n, NEW f, Suits(r, n, f),
         handler' = [name |-> n, form |-> f], ir' = Build(r, raw)
  PROVE  ir' # NoInstruction /\ handler'.name # "none" /\ PointersExist' /\ ArgumentsOK'
  <1> DEFINE left == BuildParameter(r.left, raw)
             right == BuildParameter(r.right, raw)
  <1>1. /\ ir'.opcode = r.opcode /\ ir'.arg1 = left /\ ir'.arg2 = right
        /\ ir'.is_jump <=> r.is_jump
    BY Zenon DEF Build
  <1>2. handler'.name = n /\ handler'.form = f
    OBVIOUS
  <1>3. WellBuilt(r)
    BY RowsBuilt
  <1>4. /\ Len(raw) >= 1
        /\ r.left.width = 2 \/ r.right.width = 2 => Len(raw) >= 2
        /\ r.left.type = "BIT" \/ r.right.type = "BIT" => Len(raw) >= 2
    <2>1. r.width \in 1 .. 2 /\ r.left.width \in 0 .. 2 /\ r.right.width \in 0 .. 2
      BY <1>3, Zenon DEF WellBuilt, Sized
    <2>2. Len(raw) = r.width + r.left.width + r.right.width
      BY DEF TotalWidth
    <2>3. r.left.type = "BIT" \/ r.right.type = "BIT" => r.width = 2
      BY <1>3, Zenon DEF WellBuilt
    <2> QED
      BY <2>1, <2>2, <2>3
  <1>5. /\ left.type = IF r.left.type \in {"BIT", "CONSTANT"} THEN "VALUE" ELSE r.left.type
        /\ left.reg = r.left.reg
        /\ left.type # "REGISTER" => left.val \in Word
        /\ r.left.type = "BIT" => left.val \in 0 .. 7
    BY <1>3, <1>4, BuiltParameter DEF WellBuilt
  <1>6. /\ right.type = IF r.right.type \in {"BIT", "CONSTANT"} THEN "VALUE" ELSE r.right.type
        /\ right.reg = r.right.reg
        /\ right.is_pointer <=> r.right.is_pointer
        /\ right.type # "REGISTER" => right.val \in Word
    BY <1>3, <1>4, BuiltParameter DEF WellBuilt
  <1> HIDE DEF left, right
  <1>7. ir' # NoInstruction
    BY <1>1, <1>3 DEF NoInstruction, WellBuilt
  <1>8. /\ \A S : Pointer(r.left, S) => Pointer(ir'.arg1, S)
        /\ \A S : Pointer(r.right, S) => Pointer(ir'.arg2, S)
        /\ ir'.arg2.is_pointer <=> r.right.is_pointer
    BY <1>1, <1>5, <1>6 DEF Pointer
  <1>9. PointersExist'
    BY <1>2, <1>8 DEF PointersExist, PointsAtFirst8, PointsAtFirst16, PointsAtSecond8, Handler,
       Suits
  <1>10. ~ir'.is_jump => Argument(ir'.arg1) /\ Argument(ir'.arg2)
    <2>1. ~r.is_jump => Named(r.left) /\ Named(r.right)
      BY <1>3 DEF WellBuilt
    <2> QED
      BY <1>1, <1>5, <1>6, <2>1 DEF Argument, Named
  <1>11. ArgumentsOK'
    BY <1>1, <1>2, <1>5, <1>8, <1>10 DEF ArgumentsOK, Suits
  <1> QED
    BY <1>2, <1>7, <1>9, <1>11 DEF Suits

LEMMA FetchIInv ==
  ASSUME IInv, Fetch
  PROVE  IInv'
  <1> DEFINE o == OpcodeAt(code, pc + 1)
             r == CreateInstructionMap[o]
             raw == SubSeq(code, pc + 1, pc + TotalWidth(r))
  <1>1. /\ o \in DOMAIN CreateInstructionMap
        /\ pc + TotalWidth(r) <= Len(code)
        /\ ir' = Build(r, raw)
        /\ handler' = CreateOpcodeMap[r.instruction]
        /\ pc' = Wrap16(pc + TotalWidth(r))
        /\ UNCHANGED <<code, start, reg, flag, pad, sp, mem, ime, halted>>
    BY Zenon DEF Fetch
  <1> HIDE DEF o
  <1>2. r \in FactoryList /\ r.instruction = o
    BY <1>1, MapsSuit
  <1>3. PICK n, f : handler' = [name |-> n, form |-> f] /\ Suits(r, n, f)
    BY <1>1, <1>2, MapsSuit
  <1>4. code \in Seq(Byte) /\ Len(code) \in Nat /\ pc \in Nat
    BY CodeBytes DEF IInv, Fetched
  <1>5. TotalWidth(r) \in Nat
    <2>1. WellBuilt(r)
      BY <1>2, RowsBuilt
    <2>2. r.width \in 1 .. 2 /\ r.left.width \in 0 .. 2 /\ r.right.width \in 0 .. 2
      BY <2>1, Zenon DEF WellBuilt, Sized
    <2> QED
      BY <2>2 DEF TotalWidth
  <1>6. raw \in Seq(Byte) /\ Len(raw) = TotalWidth(r)
    BY <1>1, <1>4, <1>5, RawBytes
  <1> HIDE DEF r, raw
  <1>7. ir' # NoInstruction /\ handler'.name # "none" /\ PointersExist' /\ ArgumentsOK'
    BY <1>1, <1>2, <1>3, <1>6, FetchHandsOut
  <1>8. pc' \in 0 .. Len(code)
    BY <1>1, <1>4, <1>5 DEF Wrap16
  <1>9. handler' # None
    BY <1>7 DEF None
  <1> QED
    BY <1>1, <1>7, <1>8, <1>9 DEF IInv, Fetched, Typed

(***************************************************************************)
(* Values keep their widths.                                               *)
(***************************************************************************)

(* Values: bits, bytes and words.                                           *)
Weights == {1, 2, 4, 8, 16, 32, 64, 128}

LEMMA BitValue ==
  ASSUME NEW x \in Int, NEW w \in Weights
  PROVE  NthBit(x, w) \in {0, 1}
  BY DEF NthBit, Weights

LEMMA FlagValue ==
  /\ \A b : Flag(b) \in {0, 1}
  /\ \A x : IsZero(x) \in {0, 1}
  BY DEF Flag, IsZero

LEMMA Wrapped ==
  /\ \A x \in Int : Wrap8(x) \in Byte /\ Wrap16(x) \in Word
  /\ \A x \in Word : Low(x) \in Byte /\ High(x) \in Byte /\ x \div 16 \in PadBits
  /\ \A x \in Byte : Signed(x) \in Int /\ x \in Word /\ x \in Int /\ 255 - x \in Byte
  /\ \A x, y \in Byte : 256 * x + y \in Word
  <1>1. \A x \in Int : Wrap8(x) \in Byte /\ Wrap16(x) \in Word
    BY Bounds DEF Wrap8, Wrap16
  <1>2. \A x \in Word : Low(x) \in Byte /\ High(x) \in Byte /\ x \div 16 \in PadBits
    <2> TAKE x \in Word
    <2>1. x \in Int /\ 0 <= x /\ x <= 65535
      BY Bounds
    <2>2. Low(x) \in Byte /\ High(x) \in Byte
      BY <2>1, ByteBounds DEF Low, High
    <2>3. x \div 16 \in PadBits
      BY <2>1, PadBounds
    <2> QED
      BY <2>2, <2>3
  <1>3. \A x \in Byte : Signed(x) \in Int /\ x \in Word /\ x \in Int /\ 255 - x \in Byte
    BY Bounds DEF Signed
  <1>4. \A x, y \in Byte : 256 * x + y \in Word
    BY Bounds
  <1> QED
    BY <1>1, <1>2, <1>3, <1>4

(* Eight bits, each with its weight, are a byte.                            *)
LEMMA EightBits ==
  ASSUME NEW a \in {0, 1}, NEW b \in {0, 1}, NEW c \in {0, 1}, NEW d \in {0, 1},
         NEW e \in {0, 1}, NEW f \in {0, 1}, NEW g \in {0, 1}, NEW h \in {0, 1}
  PROVE  1 * a + 2 * b + 4 * c + 8 * d + 16 * e + 32 * f + 64 * g + 128 * h \in Byte
  BY Bounds

LEMMA BitwiseBytes ==
  ASSUME NEW x \in Int, NEW y \in Int
  PROVE  And(x, y) \in Byte /\ Or(x, y) \in Byte /\ Xor(x, y) \in Byte
  <1> DEFINE X(w) == NthBit(x, w)
             Y(w) == NthBit(y, w)
             A(w) == X(w) * Y(w)
             O(w) == X(w) + Y(w) - X(w) * Y(w)
             E(w) == (X(w) + Y(w)) % 2
  <1>1. \A a, b \in {0, 1} : a * b \in {0, 1} /\ a + b - a * b \in {0, 1} /\ (a + b) % 2 \in {0, 1}
    OBVIOUS
  <1>2. \A w \in Weights : A(w) \in {0, 1} /\ O(w) \in {0, 1} /\ E(w) \in {0, 1}
    BY <1>1, BitValue
  <1>3. And(x, y) = 1 * A(1) + 2 * A(2) + 4 * A(4) + 8 * A(8) + 16 * A(16) + 32 * A(32)
                    + 64 * A(64) + 128 * A(128)
    BY Zenon DEF And, BitByBit
  <1>4. Or(x, y) = 1 * O(1) + 2 * O(2) + 4 * O(4) + 8 * O(8) + 16 * O(16) + 32 * O(32)
                   + 64 * O(64) + 128 * O(128)
    BY Zenon DEF Or, BitByBit
  <1>5. Xor(x, y) = 1 * E(1) + 2 * E(2) + 4 * E(4) + 8 * E(8) + 16 * E(16) + 32 * E(32)
                    + 64 * E(64) + 128 * E(128)
    BY Zenon DEF Xor, BitByBit
  <1>6. {1, 2, 4, 8, 16, 32, 64, 128} \subseteq Weights
    BY DEF Weights
  <1> HIDE DEF A, O, E
  <1> QED
    BY <1>2, <1>3, <1>4, <1>5, <1>6, EightBits

(* What rotations and shifts make of a byte is a byte.                      *)
LEMMA RotatedBytes ==
  ASSUME NEW v \in Byte, NEW c \in {0, 1}
  PROVE  /\ RotateLeft(v) \in Byte /\ RotateRight(v) \in Byte
         /\ LeftThroughCarry(v, c) \in Byte /\ RightThroughCarry(v, c) \in Byte
         /\ Wrap8(2 * v) \in Byte /\ v \div 2 \in Byte
         /\ v \div 2 + 128 * NthBit(v, 128) \in Byte
         /\ Wrap8(16 * v) + v \div 16 \in Byte
         /\ NthBit(v, 128) \in {0, 1} /\ NthBit(v, 1) \in {0, 1}
  <1>1. v \in Int /\ 0 <= v /\ v <= 255
    BY Bounds
  <1>2. NthBit(v, 128) \in {0, 1} /\ NthBit(v, 1) \in {0, 1}
    BY <1>1, BitValue DEF Weights
  <1>3. /\ (2 * v) % 256 \in Int /\ 0 <= (2 * v) % 256 /\ (2 * v) % 256 <= 254
        /\ (16 * v) % 256 \in Int /\ 0 <= (16 * v) % 256 /\ (16 * v) % 256 <= 240
    BY <1>1
  <1>4. /\ v \div 2 \in Int /\ 0 <= v \div 2 /\ v \div 2 <= 127
        /\ v \div 16 \in Int /\ 0 <= v \div 16 /\ v \div 16 <= 15
    BY <1>1
  <1> QED
    BY <1>2, <1>3, <1>4, ByteBounds
       DEF RotateLeft, RotateRight, LeftThroughCarry, RightThroughCarry, Wrap8

(* The registers, read and assigned.                                        *)
LEMMA RegisterValues ==
  ASSUME reg \in RegisterFile
  PROVE  /\ \A r \in Register8Bit : reg[r] \in Byte
         /\ reg.A \in Byte /\ reg.B \in Byte /\ reg.C \in Byte /\ reg.D \in Byte
         /\ reg.E \in Byte /\ reg.H \in Byte /\ reg.L \in Byte
         /\ \A r, v : v \in Byte => [reg EXCEPT ![r] = v] \in RegisterFile
  <1>1. \A r \in Register8Bit : reg[r] \in Byte
    BY DEF RegisterFile, Register8Bit
  <1>2. /\ reg.A \in Byte /\ reg.B \in Byte /\ reg.C \in Byte /\ reg.D \in Byte
        /\ reg.E \in Byte /\ reg.H \in Byte /\ reg.L \in Byte
    BY DEF RegisterFile
  <1>3. ASSUME NEW r, NEW v \in Byte PROVE [reg EXCEPT ![r] = v] \in RegisterFile
    <2>1. CASE r = "A"
      BY <1>3, <2>1 DEF RegisterFile
    <2>2. CASE r = "B"
      BY <1>3, <2>2 DEF RegisterFile
    <2>3. CASE r = "C"
      BY <1>3, <2>3 DEF RegisterFile
    <2>4. CASE r = "D"
      BY <1>3, <2>4 DEF RegisterFile
    <2>5. CASE r = "E"
      BY <1>3, <2>5 DEF RegisterFile
    <2>6. CASE r = "H"
      BY <1>3, <2>6 DEF RegisterFile
    <2>7. CASE r = "L"
      BY <1>3, <2>7 DEF RegisterFile
    <2>8. CASE r \notin Register8Bit
      BY <1>3, <2>8 DEF RegisterFile, Register8Bit
    <2> QED
      BY <2>1, <2>2, <2>3, <2>4, <2>5, <2>6, <2>7, <2>8 DEF Register8Bit
  <1> QED
    BY <1>1, <1>2, <1>3

(***************************************************************************)
(* The shapes of handlers keep the invariant.                              *)
(***************************************************************************)

LEMMA MemoryValues ==
  ASSUME mem \in [Ram -> Byte]
  PROVE  /\ \A a : Read(a) \in Byte
         /\ \A a : \A v \in Int : Written(a, v) \in [Ram -> Byte]
         /\ \A a, b : \A v, w \in Byte : WrittenTwice(a, v, b, w) \in [Ram -> Byte]
  <1>1. \A a : Read(a) \in Byte
    BY Bounds DEF Read
  <1>2. ASSUME NEW a, NEW v \in Int PROVE Written(a, v) \in [Ram -> Byte]
    BY Wrapped DEF Written
  <1>3. \A a, b : \A v, w \in Byte : WrittenTwice(a, v, b, w) \in [Ram -> Byte]
    BY DEF WrittenTwice
  <1> QED
    BY <1>1, <1>2, <1>3

LEMMA PairValues ==
  ASSUME Typed
  PROVE  rAF \in Word /\ rBC \in Word /\ rDE \in Word /\ rHL \in Word /\ sp \in Word
  <1>1. rBC \in Word /\ rDE \in Word /\ rHL \in Word
    BY RegisterValues, Wrapped DEF Typed, rBC, rDE, rHL
  <1>2. /\ flag.Z \in {0, 1} /\ flag.N \in {0, 1} /\ flag.H \in {0, 1} /\ flag.C \in {0, 1}
        /\ pad \in Int /\ 0 <= pad /\ pad <= 4095
    BY PadBounds DEF Typed, FlagBits
  <1>3. rAF \in Word
    BY <1>2, WordBounds DEF rAF
  <1> QED
    BY <1>1, <1>3 DEF Typed

LEMMA NamedRegisters ==
  /\ \A r \in Register8Bit : GetRegisterValue16Bit(r) = reg[r]
  /\ GetRegisterValue16Bit("AF") = rAF /\ GetRegisterValue16Bit("BC") = rBC
  /\ GetRegisterValue16Bit("DE") = rDE /\ GetRegisterValue16Bit("HL") = rHL
  /\ GetRegisterValue16Bit("SP") = sp
  BY Zenon DEF GetRegisterValue16Bit, Register8Bit

LEMMA NamedValues ==
  ASSUME Typed, NEW r \in Register8Bit \cup Register16Bit
  PROVE  GetRegisterValue16Bit(r) \in Word
  <1>1. CASE r \in Register8Bit
    BY <1>1, NamedRegisters, RegisterValues, Wrapped DEF Typed
  <1>2. CASE r \in Register16Bit
    BY <1>2, NamedRegisters, PairValues DEF Register16Bit
  <1> QED
    BY <1>1, <1>2

LEMMA ArgumentValues ==
  ASSUME Typed, NEW a, Argument(a)
  PROVE  /\ GetParameterValue16Bit(a) \in Word
         /\ GetParameterValue8Bit(a) \in Byte
         /\ Operand(a) \in Byte
  <1>1. GetParameterValue16Bit(a) \in Word
    BY NamedValues DEF GetParameterValue16Bit, Argument
  <1>2. GetParameterValue8Bit(a) \in Byte
    BY <1>1, Bounds, Wrapped DEF GetParameterValue8Bit
  <1>3. Operand(a) \in Byte
    BY <1>2, MemoryValues DEF Operand, Typed
  <1> QED
    BY <1>1, <1>2, <1>3

LEMMA AssignedPairs ==
  ASSUME Typed, NEW p, NEW v \in Word
  PROVE  RegWith(p, v) \in RegisterFile /\ FlagWith(p, v) \in FlagBits /\ PadWith(p, v) \in PadBits
  <1>1. Low(v) \in Byte /\ High(v) \in Byte /\ v \div 16 \in PadBits /\ v \in Int
    BY Wrapped, Bounds
  <1>2. /\ RegWith("BC", v) = [reg EXCEPT !.B = High(v), !.C = Low(v)]
        /\ RegWith("DE", v) = [reg EXCEPT !.D = High(v), !.E = Low(v)]
        /\ RegWith("HL", v) = [reg EXCEPT !.H = High(v), !.L = Low(v)]
        /\ p \notin {"BC", "DE", "HL"} => RegWith(p, v) = reg
    BY Zenon DEF RegWith
  <1>3. RegWith(p, v) \in RegisterFile
    <2>1. reg \in RegisterFile
      BY DEF Typed
    <2>2. /\ [reg EXCEPT !.B = High(v), !.C = Low(v)] \in RegisterFile
          /\ [reg EXCEPT !.D = High(v), !.E = Low(v)] \in RegisterFile
          /\ [reg EXCEPT !.H = High(v), !.L = Low(v)] \in RegisterFile
      BY <1>1, <2>1 DEF RegisterFile
    <2>3. p \in {"BC", "DE", "HL"} \/ RegWith(p, v) = reg
      BY <1>2
    <2>4. /\ RegWith("BC", v) \in RegisterFile
          /\ RegWith("DE", v) \in RegisterFile
          /\ RegWith("HL", v) \in RegisterFile
      BY <1>2, <2>2, Zenon
    <2> QED
      BY <2>1, <2>3, <2>4
  <1>4. NthBit(v, 1) \in {0, 1} /\ NthBit(v, 2) \in {0, 1} /\ NthBit(v, 4) \in {0, 1} /\ NthBit(v, 8) \in {0, 1}
    BY <1>1, BitValue DEF Weights
  <1>5. FlagWith(p, v) \in FlagBits
    BY <1>4 DEF FlagWith, Typed, FlagBits
  <1> QED
    BY <1>1, <1>3, <1>5 DEF PadWith, Typed

LEMMA HandlerStep ==
  ASSUME IInv, NEW name, Dispatched(name), Typed'
  PROVE  IInv'
  BY DEF IInv, Fetched, Dispatched

LEMMA FlagsSet ==
  ASSUME NEW z \in {0, 1}, NEW n \in {0, 1}, NEW h \in {0, 1}, NEW c \in {0, 1}, SetFlags(z, n, h, c)
  PROVE  flag' \in FlagBits
  BY DEF SetFlags, FlagBits

(* One fact for each shape of handler.                                      *)
LEMMA AccumulateIInv ==
  ASSUME IInv, NEW name, NEW result \in Byte, NEW n \in {0, 1}, NEW h \in {0, 1}, NEW c \in {0, 1},
         Accumulate(name, result, n, h, c)
  PROVE  IInv'
  <1>1. /\ Dispatched(name) /\ reg' = [reg EXCEPT !["A"] = result]
        /\ SetFlags(IsZero(result), n, h, c)
        /\ UNCHANGED <<pad, sp, mem, ime, halted>>
    BY Zenon DEF Accumulate, ControlKept
  <1>2. Typed
    BY DEF IInv
  <1>3. reg' \in RegisterFile
    BY <1>1, <1>2, RegisterValues DEF Typed
  <1>4. flag' \in FlagBits
    BY <1>1, FlagsSet, FlagValue
  <1> QED
    BY <1>1, <1>2, <1>3, <1>4, HandlerStep DEF Typed

LEMMA StoreTyped ==
  ASSUME Typed, NEW a, NEW b, NEW v \in Byte, Store(a, b, v)
  PROVE  reg' \in RegisterFile /\ mem' \in [Ram -> Byte]
  <1>1. v \in Int
    BY Bounds
  <1>2. reg' = reg \/ reg' = [reg EXCEPT ![a.reg] = v]
    BY DEF Store
  <1>3. mem' = mem \/ mem' = Written(GetParameterValue16Bit(a), v)
    BY DEF Store
  <1>4. reg' \in RegisterFile
    BY <1>2, RegisterValues DEF Typed
  <1>5. mem' \in [Ram -> Byte]
    BY <1>1, <1>3, MemoryValues DEF Typed
  <1> QED
    BY <1>4, <1>5

LEMMA ModifyIInv ==
  ASSUME IInv, NEW name, NEW result \in Byte, NEW n \in {0, 1}, NEW h \in {0, 1}, NEW c \in {0, 1},
         Modify(name, result, n, h, c)
  PROVE  IInv'
  <1>1. /\ Dispatched(name) /\ Store(ir.arg1, handler.form = "Address", result)
        /\ SetFlags(IsZero(result), n, h, c)
        /\ UNCHANGED <<pad, sp, ime, halted>>
    BY Zenon DEF Modify, ControlKept
  <1>2. Typed
    BY DEF IInv
  <1>3. reg' \in RegisterFile /\ mem' \in [Ram -> Byte]
    BY <1>1, <1>2, StoreTyped
  <1>4. flag' \in FlagBits
    BY <1>1, FlagsSet, FlagValue
  <1> QED
    BY <1>1, <1>2, <1>3, <1>4, HandlerStep DEF Typed

LEMMA LoadRegisterIInv ==
  ASSUME IInv, NEW name, NEW r, NEW v \in Int, LoadRegister(name, r, v)
  PROVE  IInv'
  <1>1. /\ Dispatched(name) /\ reg' = [reg EXCEPT ![r] = Wrap8(v)]
        /\ UNCHANGED <<flag, pad, sp, mem, ime, halted>>
    BY Zenon DEF LoadRegister, ControlKept
  <1>2. reg' \in RegisterFile
    BY <1>1, Wrapped, RegisterValues DEF IInv, Typed
  <1> QED
    BY <1>1, <1>2, HandlerStep DEF IInv, Typed

LEMMA WriteMemoryIInv ==
  ASSUME IInv, NEW name, NEW a, NEW v \in Int, WriteMemory(name, a, v)
  PROVE  IInv'
  <1>1. /\ Dispatched(name) /\ mem' = Written(a, v)
        /\ UNCHANGED <<reg, flag, pad, sp, ime, halted>>
    BY Zenon DEF WriteMemory, ControlKept
  <1>2. mem' \in [Ram -> Byte]
    BY <1>1, MemoryValues DEF IInv, Typed
  <1> QED
    BY <1>1, <1>2, HandlerStep DEF IInv, Typed

LEMMA AssignPairIInv ==
  ASSUME IInv, NEW name, NEW v \in Word, AssignPair(name, v)
  PROVE  IInv'
  <1>1. /\ Dispatched(name)
        /\ reg' = RegWith(ir.arg1.reg, v) /\ flag' = FlagWith(ir.arg1.reg, v)
        /\ pad' = PadWith(ir.arg1.reg, v)
        /\ sp' = v \/ sp' = sp
        /\ UNCHANGED <<mem, ime, halted>>
    BY Zenon DEF AssignPair, ControlKept
  <1>2. reg' \in RegisterFile /\ flag' \in FlagBits /\ pad' \in PadBits
    BY <1>1, AssignedPairs DEF IInv
  <1> QED
    BY <1>1, <1>2, HandlerStep DEF IInv, Typed

(***************************************************************************)
(* Every handler keeps the invariant.                                      *)
(***************************************************************************)

(* The names a handler that is no jump may have.                            *)
AluNames == {"Add8Bit", "ADC8Bit", "Sub8Bit", "SBC8Bit", "And8Bit", "Or8Bit", "Xor8Bit", "Cp8Bit",
             "Inc8Bit", "Dec8Bit", "Add16Bit", "AddSPLiteral", "Inc16Bit", "Dec16Bit"}
ControlNames == {"Swap", "DAA", "CPL", "CCF", "SCF", "NOP", "Stop", "Halt", "DI", "EI"}
ShiftNames == {"RLCA", "RLA", "RRCA", "RRA", "RLC", "RL", "RRC", "RR", "SLA", "SRA", "SRL"}
BitNames == {"Bit", "Set", "Res"}
LoadNames ==
  {"LoadN", "LoadRR8Bit", "LoadRR8BitAddress", "LoadRR8BitIntoAddress", "Load8BitLiteral",
   "LoadAN", "LoadAN16BitLiteral", "LoadAN8BitLiteral", "LoadNA", "LoadNAAddress",
   "LoadNA16BitLiteral", "LoadAC", "LoadCA", "LoadHNA", "LoadHAN",
   "LoadDecAHL", "LoadDecHLA", "LoadIncAHL", "LoadIncHLA",
   "LoadNN", "LoadSPHL", "LoadHLSP", "LoadNNSP", "Push", "Pop"}
Names == AluNames \cup ControlNames \cup ShiftNames \cup BitNames \cup LoadNames

LEMMA NoJumpName == \A n \in Names : n # "none" /\ n \notin JumpHandlers
  BY DEF Names, AluNames, ControlNames, ShiftNames, BitNames, LoadNames, JumpHandlers

(* Whatever handler runs, its arguments and the registers have their widths. *)
LEMMA Values ==
  ASSUME IInv, handler.name \in Names
  PROVE  /\ Typed /\ PointersExist /\ ArgumentsOK /\ Argument(ir.arg1) /\ Argument(ir.arg2)
         /\ Operand(ir.arg1) \in Byte /\ Operand(ir.arg2) \in Byte
         /\ GetParameterValue16Bit(ir.arg1) \in Word /\ GetParameterValue16Bit(ir.arg2) \in Word
         /\ GetParameterValue8Bit(ir.arg1) \in Byte /\ GetParameterValue8Bit(ir.arg2) \in Byte
         /\ reg.A \in Byte /\ reg.C \in Byte
         /\ flag.Z \in {0, 1} /\ flag.N \in {0, 1} /\ flag.H \in {0, 1} /\ flag.C \in {0, 1}
         /\ rHL \in Word /\ sp \in Word
         /\ \A a : Read(a) \in Byte
         /\ \A x \in Byte : x \in Int /\ x \in Word
         /\ \A x \in Word : x \in Int
         /\ {0, 1} \subseteq Int
  <1>1. Typed /\ PointersExist /\ ArgumentsOK /\ Argument(ir.arg1) /\ Argument(ir.arg2)
    BY NoJumpName DEF IInv, Fetched, ArgumentsOK, None
  <1>2. /\ reg.A \in Byte /\ reg.C \in Byte
        /\ \A a : Read(a) \in Byte
    BY <1>1, RegisterValues, MemoryValues DEF Typed
  <1>3. flag.Z \in {0, 1} /\ flag.N \in {0, 1} /\ flag.H \in {0, 1} /\ flag.C \in {0, 1}
    BY <1>1 DEF Typed, FlagBits
  <1>4. rHL \in Word /\ sp \in Word
    BY <1>1, PairValues
  <1>5. /\ \A x \in Byte : x \in Int /\ x \in Word
        /\ \A x \in Word : x \in Int
    BY Bounds
  <1>6. {0, 1} \subseteq Int
    OBVIOUS
  <1> QED
    BY <1>1, <1>2, <1>3, <1>4, <1>5, <1>6, ArgumentValues, Zenon

LEMMA AluIInv ==
  ASSUME IInv, AluStep
  PROVE  IInv'
  <1>1. handler.name \in Names
    BY DEF AluStep, Add8Bit, ADC8Bit, Sub8Bit, SBC8Bit, And8Bit, Or8Bit, Xor8Bit, Cp8Bit, Inc8Bit,
           Dec8Bit, Add16Bit, AddSPLiteral, Inc16Bit, Dec16Bit, Accumulate, Modify, AssignPair,
           Dispatched, Names, AluNames
  <1> DEFINE left == Operand(ir.arg1)
             right == Operand(ir.arg2)
             wide2 == GetParameterValue16Bit(ir.arg2)
  <1>2. left \in Int /\ right \in Int /\ reg.A \in Int /\ flag.C \in Int /\ flag.C \in {0, 1}
        /\ flag.Z \in {0, 1} /\ rHL \in Int /\ wide2 \in Int /\ sp \in Int /\ Typed
    BY <1>1, Values
  <1>3. /\ Wrap8(reg.A + right) \in Byte /\ Wrap8(reg.A + (right + flag.C)) \in Byte
        /\ Wrap8(reg.A - right) \in Byte /\ Wrap8(reg.A - (right + flag.C)) \in Byte
        /\ Wrap8(left + 1) \in Byte /\ Wrap8(left - 1) \in Byte
        /\ And(reg.A, right) \in Byte /\ Or(reg.A, right) \in Byte /\ Xor(reg.A, right) \in Byte
        /\ Wrap16(rHL + wide2) \in Word
    <2> DEFINE a == reg.A
               c == flag.C
               hl == rHL
    <2>1. a \in Int /\ c \in Int /\ hl \in Int
      BY <1>2
    <2> HIDE DEF a, c, hl
    <2>2. /\ a + right \in Int /\ a + (right + c) \in Int /\ a - right \in Int
          /\ a - (right + c) \in Int /\ left + 1 \in Int /\ left - 1 \in Int /\ hl + wide2 \in Int
      BY <1>2, <2>1
    <2>3. /\ Wrap8(a + right) \in Byte /\ Wrap8(a + (right + c)) \in Byte
          /\ Wrap8(a - right) \in Byte /\ Wrap8(a - (right + c)) \in Byte
          /\ Wrap8(left + 1) \in Byte /\ Wrap8(left - 1) \in Byte
          /\ Wrap16(hl + wide2) \in Word
      BY <2>2, Wrapped, Zenon
    <2>4. And(a, right) \in Byte /\ Or(a, right) \in Byte /\ Xor(a, right) \in Byte
      BY <1>2, <2>1, BitwiseBytes, Zenon
    <2> QED
      BY <2>3, <2>4, Zenon DEF a, c, hl
  <1>4. 0 \in {0, 1} /\ 1 \in {0, 1} /\ (\A b : Flag(b) \in {0, 1}) /\ (\A x : IsZero(x) \in {0, 1})
    BY FlagValue
  <1> HIDE DEF left, right, wide2
  <1>5. CASE Add8Bit
    BY <1>3, <1>4, <1>5, AccumulateIInv, Zenon DEF Add8Bit, right
  <1>6. CASE ADC8Bit
    BY <1>3, <1>4, <1>6, AccumulateIInv, Zenon DEF ADC8Bit, right
  <1>7. CASE Sub8Bit
    BY <1>3, <1>4, <1>7, AccumulateIInv, Zenon DEF Sub8Bit, right
  <1>8. CASE SBC8Bit
    BY <1>3, <1>4, <1>8, AccumulateIInv, Zenon DEF SBC8Bit, right
  <1>9. CASE And8Bit \/ Or8Bit \/ Xor8Bit
    BY <1>3, <1>4, <1>9, AccumulateIInv, Zenon DEF And8Bit, Or8Bit, Xor8Bit, right
  <1>10. CASE Cp8Bit
    <2>1. flag' \in FlagBits
      BY <1>4, <1>10, FlagsSet, Zenon DEF Cp8Bit
    <2>2. Dispatched("Cp8Bit") /\ UNCHANGED <<reg, pad, sp, mem, ime, halted>>
      BY <1>10, Zenon DEF Cp8Bit, ControlKept
    <2> QED
      BY <1>2, <2>1, <2>2, HandlerStep DEF Typed
  <1>11. CASE Inc8Bit
    BY <1>2, <1>3, <1>4, <1>11, ModifyIInv, Zenon DEF Inc8Bit, left
  <1>12. CASE Dec8Bit
    BY <1>2, <1>3, <1>4, <1>12, ModifyIInv, Zenon DEF Dec8Bit, left
  <1>13. CASE Add16Bit
    <2>1. flag' \in FlagBits
      BY <1>2, <1>4, <1>13, FlagsSet, Zenon DEF Add16Bit
    <2>2. /\ Dispatched("Add16Bit") /\ UNCHANGED <<pad, sp, mem, ime, halted>>
          /\ reg' = RegWith("HL", Wrap16(rHL + wide2))
      BY <1>13, Zenon DEF Add16Bit, ControlKept, wide2
    <2>3. reg' \in RegisterFile
      BY <1>2, <1>3, <2>2, AssignedPairs
    <2> QED
      BY <1>2, <2>1, <2>2, <2>3, HandlerStep DEF Typed
  <1>14. CASE AddSPLiteral
    <2>1. flag' \in FlagBits
      BY <1>4, <1>14, FlagsSet, Zenon DEF AddSPLiteral
    <2>2. /\ Dispatched("AddSPLiteral") /\ UNCHANGED <<reg, pad, mem, ime, halted>>
          /\ sp' = Wrap16(sp + Signed(GetParameterValue8Bit(ir.arg2)))
      BY <1>14, Zenon DEF AddSPLiteral, ControlKept
    <2>3. sp' \in Word
      BY <1>1, <1>2, <2>2, Values, Wrapped
    <2> QED
      BY <1>2, <2>1, <2>2, <2>3, HandlerStep DEF Typed
  <1>15. CASE Inc16Bit \/ Dec16Bit
    <2>1. handler.name \in {"Inc16Bit", "Dec16Bit"}
      BY <1>15 DEF Inc16Bit, Dec16Bit, AssignPair, Dispatched
    <2>2. Pointer(ir.arg1, Register16Bit)
      BY <1>1, <2>1, Values DEF ArgumentsOK
    <2> DEFINE v == GetRegisterValue16Bit(ir.arg1.reg)
    <2>3. v \in Word
      BY <1>2, <2>2, NamedValues DEF Pointer
    <2> HIDE DEF v
    <2>4. v + 1 \in Int /\ v - 1 \in Int
      BY <2>3, Bounds
    <2>5. Wrap16(v + 1) \in Word /\ Wrap16(v - 1) \in Word
      BY <2>4, Wrapped, Zenon
    <2> QED
      BY <1>15, <2>5, AssignPairIInv, Zenon DEF Inc16Bit, Dec16Bit, v
  <1> QED
    BY <1>5, <1>6, <1>7, <1>8, <1>9, <1>10, <1>11, <1>12, <1>13, <1>14, <1>15 DEF AluStep

LEMMA ControlIInv ==
  ASSUME IInv, ControlStep
  PROVE  IInv'
  <1>1. handler.name \in Names
    BY DEF ControlStep, Swap, DAA, CPL, CCF, SCF, NOP, Stop, Halt, DI, EI, Modify, Control,
           Dispatched, Names, ControlNames
  <1>2. Typed /\ Operand(ir.arg1) \in Byte /\ reg.A \in Byte
        /\ flag.Z \in {0, 1} /\ flag.N \in {0, 1} /\ flag.C \in {0, 1}
    BY <1>1, Values
  <1>3. 0 \in {0, 1} /\ 1 \in {0, 1} /\ (\A b : Flag(b) \in {0, 1}) /\ (\A x : IsZero(x) \in {0, 1})
        /\ 1 - flag.C \in {0, 1}
    BY <1>2, FlagValue
  <1>4. 255 - reg.A \in Byte /\ Adjusted(reg.A) \in Byte
    <2> DEFINE a == reg.A
    <2>1. a \in Byte /\ a \in Int
      BY <1>2, Bounds
    <2> HIDE DEF a
    <2>2. 255 - a \in Byte
      BY <2>1, Wrapped
    <2>3. a + 6 * (a \div 10) + Wrap8(6 * 15) * (a \div 100) \in Int
      BY <2>1 DEF Wrap8
    <2>4. Adjusted(a) \in Byte
      BY <2>3, Wrapped, Zenon DEF Adjusted
    <2> QED
      BY <2>2, <2>4 DEF a
  <1>5. CASE Swap
    <2>1. Wrap8(16 * Operand(ir.arg1)) + Operand(ir.arg1) \div 16 \in Byte
      BY <1>2, <1>3, RotatedBytes
    <2> QED
      BY <1>3, <1>5, <2>1, ModifyIInv, Zenon DEF Swap
  <1>6. CASE DAA
    <2>1. flag' \in FlagBits
      BY <1>2, <1>3, <1>6, FlagsSet, Zenon DEF DAA
    <2>2. Dispatched("DAA") /\ reg' = [reg EXCEPT !["A"] = Adjusted(reg.A)]
          /\ UNCHANGED <<pad, sp, mem, ime, halted>>
      BY <1>6, Zenon DEF DAA, ControlKept
    <2>3. reg' \in RegisterFile
      BY <1>2, <1>4, <2>2, RegisterValues DEF Typed
    <2> QED
      BY <1>2, <2>1, <2>2, <2>3, HandlerStep DEF Typed
  <1>7. CASE CPL
    <2>1. flag' \in FlagBits
      BY <1>2, <1>3, <1>7, FlagsSet, Zenon DEF CPL
    <2>2. Dispatched("CPL") /\ reg' = [reg EXCEPT !["A"] = 255 - reg.A]
          /\ UNCHANGED <<pad, sp, mem, ime, halted>>
      BY <1>7, Zenon DEF CPL, ControlKept
    <2>3. reg' \in RegisterFile
      BY <1>2, <1>4, <2>2, RegisterValues DEF Typed
    <2> QED
      BY <1>2, <2>1, <2>2, <2>3, HandlerStep DEF Typed
  <1>8. CASE CCF
    <2>1. flag' \in FlagBits
      BY <1>2, <1>3, <1>8, FlagsSet, Zenon DEF CCF
    <2>2. Dispatched("CCF") /\ reg' = [reg EXCEPT !["A"] = 255 - reg.A]
          /\ UNCHANGED <<pad, sp, mem, ime, halted>>
      BY <1>8, Zenon DEF CCF, ControlKept
    <2>3. reg' \in RegisterFile
      BY <1>2, <1>4, <2>2, RegisterValues DEF Typed
    <2> QED
      BY <1>2, <2>1, <2>2, <2>3, HandlerStep DEF Typed
  <1>9. CASE SCF
    <2>1. flag' \in FlagBits
      BY <1>2, <1>3, <1>9, FlagsSet, Zenon DEF SCF
    <2>2. Dispatched("SCF") /\ UNCHANGED <<reg, pad, sp, mem, ime, halted>>
      BY <1>9, Zenon DEF SCF, ControlKept
    <2> QED
      BY <1>2, <2>1, <2>2, HandlerStep DEF Typed
  <1>10. CASE NOP
    <2>1. Dispatched("NOP") /\ UNCHANGED <<reg, flag, pad, sp, mem, ime, halted>>
      BY <1>10, Zenon DEF NOP, ControlKept
    <2> QED
      BY <1>2, <2>1, HandlerStep DEF Typed
  <1>11. CASE Stop
    <2>1. Dispatched("Stop") /\ UNCHANGED <<reg, flag, pad, sp, mem, ime, halted>>
      BY <1>11, Zenon DEF Stop, ControlKept
    <2> QED
      BY <1>2, <2>1, HandlerStep DEF Typed
  <1>12. CASE Halt \/ DI \/ EI
    <2>1. /\ Dispatched(handler.name) /\ UNCHANGED <<reg, flag, pad, sp, mem>>
          /\ ime' \in {ime, TRUE, FALSE} /\ halted' \in {halted, TRUE}
      BY <1>12 DEF Halt, DI, EI, Control, Dispatched
    <2>2. ime' \in BOOLEAN /\ halted' \in BOOLEAN
      BY <1>2, <2>1 DEF Typed
    <2> QED
      BY <1>2, <2>1, <2>2, HandlerStep DEF Typed
  <1> QED
    BY <1>5, <1>6, <1>7, <1>8, <1>9, <1>10, <1>11, <1>12 DEF ControlStep

LEMMA ShiftIInv ==
  ASSUME IInv, ShiftStep
  PROVE  IInv'
  <1>1. handler.name \in Names
    BY DEF ShiftStep, RLCA, RLA, RRCA, RRA, RLC, RL, RRC, RR, SLA, SRA, SRL, Rotate, Left, Right,
           Accumulate, Modify, Dispatched, Names, ShiftNames
  <1>2. Operand(ir.arg1) \in Byte /\ reg.A \in Byte /\ flag.C \in {0, 1} /\ 0 \in {0, 1}
    BY <1>1, Values
  <1>3. \A v \in Byte : \A c \in {0, 1} :
          /\ RotateLeft(v) \in Byte /\ RotateRight(v) \in Byte
          /\ LeftThroughCarry(v, c) \in Byte /\ RightThroughCarry(v, c) \in Byte
          /\ Wrap8(2 * v) \in Byte /\ v \div 2 \in Byte
          /\ v \div 2 + 128 * NthBit(v, 128) \in Byte
          /\ NthBit(v, 128) \in {0, 1} /\ NthBit(v, 1) \in {0, 1}
    BY RotatedBytes, Zenon
  <1>4. ASSUME NEW name, NEW result \in Byte, NEW bit_ \in {0, 1}, Rotate(name, result, bit_)
        PROVE  IInv'
    BY <1>2, <1>4, AccumulateIInv DEF Rotate
  <1>5. ASSUME NEW name, NEW result \in Byte, Left(name, result) \/ Right(name, result)
        PROVE  IInv'
    <2>1. NthBit(Operand(ir.arg1), 128) \in {0, 1} /\ NthBit(Operand(ir.arg1), 1) \in {0, 1}
      BY <1>2, <1>3
    <2> QED
      BY <1>2, <1>5, <2>1, ModifyIInv DEF Left, Right
  <1>6. CASE RLCA
    BY <1>2, <1>3, <1>4, <1>6 DEF RLCA
  <1>7. CASE RLA
    BY <1>2, <1>3, <1>4, <1>7 DEF RLA
  <1>8. CASE RRCA
    BY <1>2, <1>3, <1>4, <1>8 DEF RRCA
  <1>9. CASE RRA
    BY <1>2, <1>3, <1>4, <1>9 DEF RRA
  <1>10. CASE RLC
    BY <1>2, <1>3, <1>5, <1>10 DEF RLC
  <1>11. CASE RL
    BY <1>2, <1>3, <1>5, <1>11 DEF RL
  <1>12. CASE SLA
    BY <1>2, <1>3, <1>5, <1>12 DEF SLA
  <1>13. CASE RRC
    BY <1>2, <1>3, <1>5, <1>13 DEF RRC
  <1>14. CASE RR
    BY <1>2, <1>3, <1>5, <1>14 DEF RR
  <1>15. CASE SRA
    BY <1>2, <1>3, <1>5, <1>15 DEF SRA
  <1>16. CASE SRL
    BY <1>2, <1>3, <1>5, <1>16 DEF SRL
  <1> QED
    BY <1>6, <1>7, <1>8, <1>9, <1>10, <1>11, <1>12, <1>13, <1>14, <1>15, <1>16 DEF ShiftStep

LEMMA BitIInv ==
  ASSUME IInv, BitStep
  PROVE  IInv'
  <1>1. handler.name \in {"Bit", "Set", "Res"} /\ handler.name \in Names
    BY DEF BitStep, Bit, Set, Res, Dispatched, Names, BitNames
  <1>2. Typed /\ flag.C \in {0, 1} /\ ArgumentsOK /\ PointersExist
    BY <1>1, Values
  <1>3. 0 \in {0, 1} /\ 1 \in {0, 1} /\ (\A x : IsZero(x) \in {0, 1})
    BY FlagValue
  <1>4. CASE Bit
    <2>1. flag' \in FlagBits
      <3>1. PICK z : SetFlags(IsZero(z), 0, 1, flag.C)
        BY <1>4, Zenon DEF Bit
      <3> QED
        BY <1>2, <1>3, <3>1, FlagsSet, Zenon
    <2>2. Dispatched("Bit") /\ UNCHANGED <<reg, pad, sp, mem, ime, halted>>
      BY <1>4, Zenon DEF Bit, ControlKept
    <2> QED
      BY <1>2, <2>1, <2>2, HandlerStep DEF Typed
  <1>5. CASE Set \/ Res
    <2>1. Weight \in Weights
      <3>1. ir.arg1.type # "REGISTER" /\ ir.arg1.val \in 0 .. 7
        BY <1>1, <1>2 DEF ArgumentsOK
      <3>2. GetParameterValue8Bit(ir.arg1) \in {0, 1, 2, 3, 4, 5, 6, 7}
        BY <3>1 DEF GetParameterValue8Bit, GetParameterValue16Bit, Wrap8
      <3> QED
        BY <3>2 DEF Weight, Weights
    <2>2. BitOperand \in Byte
      <3>1. handler.name \in {"Set", "Res"}
        BY <1>5 DEF Set, Res, Dispatched
      <3>2. ir.arg2.is_pointer \/ ir.arg2.reg \in Register8Bit
        BY <1>2, <3>1 DEF PointersExist, Pointer
      <3> QED
        BY <1>2, <3>2, RegisterValues, MemoryValues DEF BitOperand, Typed
    <2>3. Weight \in Int /\ BitOperand \in Int /\ 255 - Weight \in Int
      BY <2>1, <2>2, Bounds DEF Weights
    <2>4. Or(BitOperand, Weight) \in Byte /\ And(BitOperand, 255 - Weight) \in Byte
      BY <2>3, BitwiseBytes, Zenon
    <2>5. /\ Dispatched(handler.name)
          /\ \/ Store(ir.arg2, ir.arg2.is_pointer, Or(BitOperand, Weight))
             \/ Store(ir.arg2, ir.arg2.is_pointer, And(BitOperand, 255 - Weight))
          /\ UNCHANGED <<flag, pad, sp, ime, halted>>
      BY <1>5 DEF Set, Res, ControlKept, Dispatched
    <2>6. reg' \in RegisterFile /\ mem' \in [Ram -> Byte]
      BY <1>2, <2>4, <2>5, StoreTyped
    <2> QED
      BY <1>2, <2>5, <2>6, HandlerStep DEF Typed
  <1> QED
    BY <1>4, <1>5 DEF BitStep

LEMMA LoadName ==
  ASSUME LoadStep
  PROVE  handler.name \in Names
  BY DEF LoadStep, LoadN, LoadRR8Bit, LoadRR8BitAddress, LoadRR8BitIntoAddress, Load8BitLiteral,
         LoadAN, LoadAN16BitLiteral, LoadAN8BitLiteral, LoadNA, LoadNAAddress,
         LoadNA16BitLiteral, LoadAC, LoadCA, LoadHNA, LoadHAN, LoadDecAHL, LoadDecHLA, LoadIncAHL,
         LoadIncHLA, LoadNN, LoadSPHL, LoadHLSP, LoadNNSP, Push, Pop, LoadRegister, WriteMemory,
         LoadAndStep, StoreAndStep, AssignPair, Dispatched, Names, LoadNames

LEMMA LoadIInv ==
  ASSUME IInv, LoadStep
  PROVE  IInv'
  <1>1. handler.name \in Names
    BY LoadName
  <1>2. Typed
    BY <1>1, Values
  <1>3. /\ GetParameterValue8Bit(ir.arg1) \in Int /\ GetParameterValue8Bit(ir.arg2) \in Int
        /\ reg.A \in Int /\ \A a : Read(a) \in Int
    BY <1>1, Values
  <1>4. ASSUME NEW name, NEW r, NEW v \in Int, LoadRegister(name, r, v)
        PROVE  IInv'
    BY <1>4, LoadRegisterIInv
  <1>5. ASSUME NEW name, NEW a, NEW v \in Int, WriteMemory(name, a, v)
        PROVE  IInv'
    BY <1>5, WriteMemoryIInv
  <1>6. ASSUME NEW name, NEW s \in Int, LoadAndStep(name, s) \/ StoreAndStep(name, s)
        PROVE  IInv'
    <2>1. RegWith("HL", Wrap16(rHL + s)) \in RegisterFile
      <3>1. rHL + s \in Int
        BY <1>1, <1>6, Values
      <3>2. Wrap16(rHL + s) \in Word
        BY <3>1, Wrapped
      <3> QED
        BY <1>2, <3>2, AssignedPairs
    <2>2. /\ Dispatched(name)
          /\ \/ reg' = RegWith("HL", Wrap16(rHL + s))
             \/ reg' = [RegWith("HL", Wrap16(rHL + s)) EXCEPT !.A = Read(rHL)]
          /\ mem' = mem \/ mem' = Written(rHL, reg.A)
          /\ UNCHANGED <<flag, pad, sp, ime, halted>>
      BY <1>6, Zenon DEF LoadAndStep, StoreAndStep, ControlKept
    <2>3. Read(rHL) \in Byte
      BY <1>1, Values
    <2>4. reg' \in RegisterFile
      BY <2>1, <2>2, <2>3 DEF RegisterFile
    <2>5. mem' \in [Ram -> Byte]
      BY <1>2, <1>3, <2>2, MemoryValues DEF Typed
    <2> QED
      BY <1>2, <2>2, <2>4, <2>5, HandlerStep DEF Typed
  <1>7. CASE LoadN
    BY <1>3, <1>4, <1>7 DEF LoadN
  <1>8. CASE LoadRR8Bit
    BY <1>3, <1>4, <1>8 DEF LoadRR8Bit
  <1>9. CASE LoadRR8BitAddress
    BY <1>3, <1>4, <1>9 DEF LoadRR8BitAddress
  <1>10. CASE LoadRR8BitIntoAddress
    BY <1>3, <1>5, <1>10 DEF LoadRR8BitIntoAddress
  <1>11. CASE Load8BitLiteral
    BY <1>3, <1>5, <1>11 DEF Load8BitLiteral
  <1>12. CASE LoadAN
    BY <1>3, <1>4, <1>12 DEF LoadAN
  <1>13. CASE LoadAN16BitLiteral
    BY <1>3, <1>4, <1>13 DEF LoadAN16BitLiteral
  <1>14. CASE LoadAN8BitLiteral
    BY <1>3, <1>4, <1>14 DEF LoadAN8BitLiteral
  <1>15. CASE LoadNA
    BY <1>3, <1>4, <1>15 DEF LoadNA
  <1>16. CASE LoadNAAddress
    BY <1>3, <1>5, <1>16 DEF LoadNAAddress
  <1>17. CASE LoadNA16BitLiteral
    BY <1>3, <1>5, <1>17 DEF LoadNA16BitLiteral
  <1>18. CASE LoadAC
    BY <1>3, <1>4, <1>18 DEF LoadAC
  <1>19. CASE LoadCA
    BY <1>3, <1>5, <1>19 DEF LoadCA
  <1>20. CASE LoadHNA
    BY <1>3, <1>5, <1>20 DEF LoadHNA
  <1>21. CASE LoadHAN
    BY <1>3, <1>4, <1>21 DEF LoadHAN
  <1>22. CASE LoadDecAHL \/ LoadDecHLA
    <2>1. -1 \in Int
      OBVIOUS
    <2> QED
      BY <1>6, <1>22, <2>1, Zenon DEF LoadDecAHL, LoadDecHLA
  <1>23. CASE LoadIncAHL \/ LoadIncHLA
    <2>1. 1 \in Int
      OBVIOUS
    <2> QED
      BY <1>6, <1>23, <2>1, Zenon DEF LoadIncAHL, LoadIncHLA
  <1>24. CASE LoadNN
    BY <1>1, <1>24, Values, AssignPairIInv DEF LoadNN
  <1>25. CASE LoadSPHL
    <2>1. Dispatched("LoadSPHL") /\ sp' = rHL /\ UNCHANGED <<reg, flag, pad, mem, ime, halted>>
      BY <1>25, Zenon DEF LoadSPHL, ControlKept
    <2>2. sp' \in Word
      BY <1>1, <2>1, Values
    <2> QED
      BY <1>2, <2>1, <2>2, HandlerStep DEF Typed
  <1>26. CASE LoadHLSP
    <2>1. flag' \in FlagBits
      BY <1>26, FlagValue, FlagsSet DEF LoadHLSP
    <2>2. /\ Dispatched("LoadHLSP") /\ UNCHANGED <<pad, sp, mem, ime, halted>>
          /\ reg' = RegWith("HL", Wrap16(sp + Signed(GetParameterValue8Bit(ir.arg2))))
      BY <1>26, Zenon DEF LoadHLSP, ControlKept
    <2>3. sp + Signed(GetParameterValue8Bit(ir.arg2)) \in Int
      BY <1>1, Values, Wrapped
    <2>4. Wrap16(sp + Signed(GetParameterValue8Bit(ir.arg2))) \in Word
      BY <2>3, Wrapped
    <2>5. reg' \in RegisterFile
      BY <1>2, <2>2, <2>4, AssignedPairs
    <2> QED
      BY <1>2, <2>1, <2>2, <2>5, HandlerStep DEF Typed
  <1>27. CASE LoadNNSP
    <2>1. PICK a, b : /\ Dispatched("LoadNNSP")
                      /\ mem' = WrittenTwice(a, Low(sp), b, High(sp))
                      /\ UNCHANGED <<reg, flag, pad, sp, ime, halted>>
      BY <1>27, Zenon DEF LoadNNSP, ControlKept
    <2>2. Low(sp) \in Byte /\ High(sp) \in Byte
      BY <1>1, Values, Wrapped
    <2>3. mem' \in [Ram -> Byte]
      BY <1>2, <2>1, <2>2, MemoryValues DEF Typed
    <2> QED
      BY <1>2, <2>1, <2>3, HandlerStep DEF Typed
  <1>28. CASE Push
    <2> DEFINE v == GetRegisterValue16Bit(ir.arg1.reg)
    <2>1. v \in Word
      <3>1. ir.arg1.reg \in Register16Bit
        BY <1>1, <1>28, Values DEF Push, Dispatched, ArgumentsOK, Pointer
      <3> QED
        BY <1>2, <3>1, NamedValues
    <2>2. PICK a, b : /\ Dispatched("Push")
                      /\ mem' = WrittenTwice(a, Low(v), b, High(v))
                      /\ sp' = Wrap16(sp - 2)
                      /\ UNCHANGED <<reg, flag, pad, ime, halted>>
      BY <1>28, Zenon DEF Push, ControlKept
    <2> HIDE DEF v
    <2>3. Low(v) \in Byte /\ High(v) \in Byte
      BY <2>1, Wrapped
    <2>4. mem' \in [Ram -> Byte]
      BY <1>2, <2>2, <2>3, MemoryValues DEF Typed
    <2>5. sp' \in Word
      <3>1. sp - 2 \in Int
        BY <1>1, Values
      <3> QED
        BY <2>2, <3>1, Wrapped
    <2> QED
      BY <1>2, <2>2, <2>4, <2>5, HandlerStep DEF Typed
  <1>29. CASE Pop
    <2>1. PollRegister \in Word
      BY <1>1, Values, Wrapped DEF PollRegister
    <2>2. /\ Dispatched("Pop")
          /\ reg' = RegWith(ir.arg1.reg, PollRegister)
          /\ flag' = FlagWith(ir.arg1.reg, PollRegister)
          /\ pad' = PadWith(ir.arg1.reg, PollRegister)
          /\ sp' = Wrap16(sp + 2)
          /\ UNCHANGED <<mem, ime, halted>>
      BY <1>29, Zenon DEF Pop, ControlKept
    <2>3. reg' \in RegisterFile /\ flag' \in FlagBits /\ pad' \in PadBits
      BY <1>2, <2>1, <2>2, AssignedPairs
    <2>4. sp' \in Word
      <3>1. sp + 2 \in Int
        BY <1>1, Values
      <3> QED
        BY <2>2, <3>1, Wrapped
    <2> QED
      BY <1>2, <2>2, <2>3, <2>4, HandlerStep DEF Typed
  <1> QED
    BY <1>7, <1>8, <1>9, <1>10, <1>11, <1>12, <1>13, <1>14, <1>15, <1>16, <1>17, <1>18, <1>19,
       <1>20, <1>21, <1>22, <1>23, <1>24, <1>25, <1>26, <1>27, <1>28, <1>29 DEF LoadStep

LEMMA StutterIInv ==
  ASSUME IInv, UNCHANGED vars
  PROVE  IInv'
  <1>1. Typed'
    BY DEF IInv, Typed, vars
  <1>2. Fetched'
    BY DEF IInv, Fetched, vars, PointersExist, ArgumentsOK
  <1> QED
    BY <1>1, <1>2 DEF IInv

LEMMA InvariantHolds == Spec => []IInv
  <1>1. IInv /\ [Next]_vars => IInv'
    BY FetchIInv, AluIInv, ControlIInv, ShiftIInv, BitIInv, LoadIInv, StutterIInv DEF Next
  <1> QED
    BY <1>1, InitIInv, PTL DEF Spec

(* Every register keeps its width, whatever the handlers compute.           *)
THEOREM CpuTypeCorrect == Spec => []TypeOK
  <1>1. IInv => TypeOK
    BY DEF IInv, Typed, Fetched, TypeOK, PadBits
  <1> QED
    BY <1>1, InvariantHolds, PTL

(* The instruction that is about to run has a handler, no opcode is listed  *)
(* twice, and every pointer to a register that the handler asks for exists. *)
THEOREM TablesAgree == Spec => []Executable
  <1>1. IInv => Executable
    BY NoneRepeated, SameOpcodes DEF IInv, Fetched, Executable
  <1> QED
    BY <1>1, InvariantHolds, PTL

(***************************************************************************)
(* The tests for carry and borrow.                                         *)
(***************************************************************************)

(* The tests of single bits, and the sums they stand for.                   *)
LEMMA UpperBit ==
  /\ \A x \in Int : 0 <= x /\ x <= 255 => (NthBit(x, 128) = 1 <=> x >= 128)
  /\ \A x \in Int : 0 <= x /\ x <= 510 =>
       (NthBit(x, 128) = 0 <=> x < 128 \/ (256 <= x /\ x < 384))
  /\ \A x \in Int : -255 <= x /\ x <= 255 =>
       (NthBit(x, 128) = 1 <=> (-128 <= x /\ x < 0) \/ 128 <= x)
  BY DEF NthBit

LEMMA MiddleBit ==
  /\ \A x \in Int : NthBit(x, 8) = 1 <=> x % 16 >= 8
  /\ \A x \in Int : NthBit(x, 8) = 0 <=> x % 16 < 8
  BY DEF NthBit

LEMMA BitZeroOrOne ==
  \A x \in Int : \A w \in Weights : NthBit(x, w) = 0 <=> NthBit(x, w) # 1
  BY BitValue

LEMMA CarryOfBytes ==
  ASSUME NEW a \in Byte, NEW v \in Byte
  PROVE  DoesCarry8(a, v) <=> a + v > 255
  <1>1. a \in Int /\ 0 <= a /\ a <= 255 /\ v \in Int /\ 0 <= v /\ v <= 255
    BY Bounds
  <1>2. Wrap8(a) = a /\ Wrap8(v) = v
    BY <1>1 DEF Wrap8
  <1>3. /\ NthBit(a, 128) = 1 <=> a >= 128
        /\ NthBit(v, 128) = 1 <=> v >= 128
        /\ NthBit(a + v, 128) = 0 <=> a + v < 128 \/ (256 <= a + v /\ a + v < 384)
    BY <1>1, UpperBit
  <1> QED
    BY <1>1, <1>2, <1>3 DEF DoesCarry8, DoesOverflow

LEMMA HalfCarryOfBytes ==
  ASSUME NEW a \in Byte, NEW v \in Byte
  PROVE  DoesHalfCarry8(a, v) <=> (a % 16) + (v % 16) > 15
  <1>1. a \in Int /\ 0 <= a /\ a <= 255 /\ v \in Int /\ 0 <= v /\ v <= 255
    BY Bounds
  <1>2. Wrap8(a) = a /\ Wrap8(v) = v
    BY <1>1 DEF Wrap8
  <1>3. /\ NthBit(a, 8) = 1 <=> a % 16 >= 8
        /\ NthBit(v, 8) = 1 <=> v % 16 >= 8
        /\ NthBit(a + v, 8) = 0 <=> (a + v) % 16 < 8
    BY <1>1, MiddleBit
  <1>4. /\ 0 <= a % 16 /\ a % 16 <= 15 /\ 0 <= v % 16 /\ v % 16 <= 15
        /\ (a + v) % 16 = IF (a % 16) + (v % 16) > 15 THEN (a % 16) + (v % 16) - 16
                          ELSE (a % 16) + (v % 16)
    BY <1>1
  <1> QED
    BY <1>1, <1>2, <1>3, <1>4 DEF DoesHalfCarry8, DoesOverflow

LEMMA BorrowOfBytes ==
  ASSUME NEW a \in Byte, NEW v \in Byte
  PROVE  DoesBorrow8(a, v) <=> a < v
  <1>1. a \in Int /\ 0 <= a /\ a <= 255 /\ v \in Int /\ 0 <= v /\ v <= 255
    BY Bounds
  <1>2. Wrap8(a) = a /\ Wrap8(v) = v
    BY <1>1 DEF Wrap8
  <1>3. /\ NthBit(a, 128) = 1 <=> a >= 128
        /\ NthBit(v, 128) = 1 <=> v >= 128
        /\ NthBit(a - v, 128) = 1 <=> (-128 <= a - v /\ a - v < 0) \/ 128 <= a - v
    BY <1>1, UpperBit
  <1>4. NthBit(a, 128) = 0 <=> NthBit(a, 128) # 1
    BY <1>1, BitZeroOrOne DEF Weights
  <1> QED
    BY <1>1, <1>2, <1>3, <1>4 DEF DoesBorrow8, DoesUnderflow

LEMMA HalfBorrowOfBytes ==
  ASSUME NEW a \in Byte, NEW v \in Byte
  PROVE  DoesHalfBorrow8(a, v) <=> a % 16 < v % 16
  <1>1. a \in Int /\ 0 <= a /\ a <= 255 /\ v \in Int /\ 0 <= v /\ v <= 255
    BY Bounds
  <1>2. Wrap8(a) = a /\ Wrap8(v) = v
    BY <1>1 DEF Wrap8
  <1>3. /\ NthBit(a, 8) = 1 <=> a % 16 >= 8
        /\ NthBit(v, 8) = 1 <=> v % 16 >= 8
        /\ NthBit(a - v, 8) = 1 <=> (a - v) % 16 >= 8
    BY <1>1, MiddleBit
  <1>4. /\ 0 <= a % 16 /\ a % 16 <= 15 /\ 0 <= v % 16 /\ v % 16 <= 15
        /\ (a - v) % 16 = IF a % 16 < v % 16 THEN (a % 16) - (v % 16) + 16
                          ELSE (a % 16) - (v % 16)
    BY <1>1
  <1>5. NthBit(a, 8) = 0 <=> NthBit(a, 8) # 1
    BY <1>1, BitZeroOrOne DEF Weights
  <1> QED
    BY <1>1, <1>2, <1>3, <1>4, <1>5 DEF DoesHalfBorrow8, DoesUnderflow

LEMMA CarryOfWords ==
  ASSUME NEW a \in Word, NEW v \in Word
  PROVE  DoesCarry16(a, v) <=> a + v > 65535
  <1>1. a \in Int /\ 0 <= a /\ a <= 65535 /\ v \in Int /\ 0 <= v /\ v <= 65535
    BY Bounds
  <1>2. /\ NthBit(a, 32768) = 1 <=> a >= 32768
        /\ NthBit(v, 32768) = 1 <=> v >= 32768
        /\ NthBit(a + v, 32768) = 0 <=> a + v < 32768 \/ (65536 <= a + v /\ a + v < 98304)
    BY <1>1 DEF NthBit
  <1> QED
    BY <1>1, <1>2 DEF DoesCarry16, DoesOverflow

(***************************************************************************)
(* Which handler a step ran.                                               *)
(***************************************************************************)

(* A handler that ran is the one its name says.                             *)
LEMMA GroupNames ==
  /\ AluStep => handler.name \in AluNames
  /\ ControlStep => handler.name \in ControlNames
  /\ ShiftStep => handler.name \in ShiftNames
  /\ BitStep => handler.name \in BitNames
  /\ LoadStep => handler.name \in LoadNames
  <1>1. AluStep => handler.name \in AluNames
    BY DEF AluStep, Add8Bit, ADC8Bit, Sub8Bit, SBC8Bit, And8Bit, Or8Bit, Xor8Bit, Cp8Bit, Inc8Bit,
           Dec8Bit, Add16Bit, AddSPLiteral, Inc16Bit, Dec16Bit, Accumulate, Modify, AssignPair,
           Dispatched, AluNames
  <1>2. ControlStep => handler.name \in ControlNames
    BY DEF ControlStep, Swap, DAA, CPL, CCF, SCF, NOP, Stop, Halt, DI, EI, Modify, Control,
           Dispatched, ControlNames
  <1>3. ShiftStep => handler.name \in ShiftNames
    BY DEF ShiftStep, RLCA, RLA, RRCA, RRA, RLC, RL, RRC, RR, SLA, SRA, SRL, Rotate, Left, Right,
           Accumulate, Modify, Dispatched, ShiftNames
  <1>4. BitStep => handler.name \in BitNames
    BY DEF BitStep, Bit, Set, Res, Dispatched, BitNames
  <1>5. LoadStep => handler.name \in LoadNames
    BY DEF LoadStep, LoadN, LoadRR8Bit, LoadRR8BitAddress, LoadRR8BitIntoAddress, Load8BitLiteral,
           LoadAN, LoadAN16BitLiteral, LoadAN8BitLiteral, LoadNA, LoadNAAddress,
           LoadNA16BitLiteral, LoadAC, LoadCA, LoadHNA, LoadHAN, LoadDecAHL, LoadDecHLA, LoadIncAHL,
           LoadIncHLA, LoadNN, LoadSPHL, LoadHLSP, LoadNNSP, Push, Pop, LoadRegister, WriteMemory,
           LoadAndStep, StoreAndStep, AssignPair, Dispatched, LoadNames
  <1> QED
    BY <1>1, <1>2, <1>3, <1>4, <1>5

LEMMA GroupsApart ==
  \A n : /\ n \in AluNames => n \notin ControlNames /\ n \notin ShiftNames /\ n \notin BitNames
                              /\ n \notin LoadNames
         /\ n \in ControlNames => n \notin ShiftNames /\ n \notin BitNames /\ n \notin LoadNames
         /\ n \in ShiftNames => n \notin BitNames /\ n \notin LoadNames
         /\ n \in BitNames => n \notin LoadNames
  BY DEF AluNames, ControlNames, ShiftNames, BitNames, LoadNames

(* Fetch runs no handler. *)
LEMMA FetchName ==
  ASSUME IInv, Fetch
  PROVE  handler.name = "none" /\ handler.form = "none"
  BY DEF IInv, Fetched, Fetch, None

LEMMA StepOfName ==
  ASSUME IInv, Next
  PROVE  /\ handler.name \in AluNames => AluStep
         /\ handler.name \in ControlNames => ControlStep
         /\ handler.name \in ShiftNames => ShiftStep
  <1>1. handler.name \in Names => ~Fetch
    BY FetchName, NoJumpName
  <1> QED
    BY <1>1, GroupNames, GroupsApart DEF Next, Names

LEMMA ArithmeticHandlers ==
  ASSUME IInv, Next
  PROVE  /\ handler.name = "Add8Bit" => Add8Bit
         /\ handler.name = "ADC8Bit" => ADC8Bit
         /\ handler.name = "Sub8Bit" => Sub8Bit
         /\ handler.name = "SBC8Bit" => SBC8Bit
         /\ handler.name = "Cp8Bit" => Cp8Bit
         /\ handler.name = "Add16Bit" => Add16Bit
         /\ handler.name = "DAA" => DAA
  <1>1. handler.name \in {"Add8Bit", "ADC8Bit", "Sub8Bit", "SBC8Bit", "Cp8Bit", "Add16Bit"} => AluStep
    BY StepOfName DEF AluNames
  <1>2. handler.name = "DAA" => ControlStep
    BY StepOfName DEF ControlNames
  <1>3. AluStep =>
          /\ handler.name = "Add8Bit" => Add8Bit
          /\ handler.name = "ADC8Bit" => ADC8Bit
          /\ handler.name = "Sub8Bit" => Sub8Bit
          /\ handler.name = "SBC8Bit" => SBC8Bit
          /\ handler.name = "Cp8Bit" => Cp8Bit
          /\ handler.name = "Add16Bit" => Add16Bit
    BY DEF AluStep, Add8Bit, ADC8Bit, Sub8Bit, SBC8Bit, And8Bit, Or8Bit, Xor8Bit, Cp8Bit, Inc8Bit,
           Dec8Bit, Add16Bit, AddSPLiteral, Inc16Bit, Dec16Bit, Accumulate, Modify, AssignPair,
           Dispatched
  <1>4. ControlStep => (handler.name = "DAA" => DAA)
    BY DEF ControlStep, Swap, DAA, CPL, CCF, SCF, NOP, Stop, Halt, DI, EI, Modify, Control,
           Dispatched
  <1> QED
    BY <1>1, <1>2, <1>3, <1>4

(* Sums and differences of a byte, a byte and a carry.                      *)
LEMMA SumFlags ==
  ASSUME NEW a \in Byte, NEW v \in Byte, NEW c \in {0, 1}
  PROVE  /\ v + c <= 255 => (DoesCarry8(a, v + c) <=> a + v + c > 255)
         /\ (v % 16) + c <= 15 => (DoesHalfCarry8(a, v + c) <=> (a % 16) + (v % 16) + c > 15)
         /\ v + c <= 255 => (DoesBorrow8(a, v + c) <=> a < v + c)
         /\ (v % 16) + c <= 15 => (DoesHalfBorrow8(a, v + c) <=> a % 16 < (v % 16) + c)
         /\ Wrap8(a + (v + c)) = (a + v + c) % 256
         /\ Wrap8(a - (v + c)) = (a - v - c) % 256
  <1>1. a \in Int /\ 0 <= a /\ a <= 255 /\ v \in Int /\ 0 <= v /\ v <= 255 /\ c \in Int
    BY Bounds
  <1>2. v + c <= 255 => v + c \in Byte
    BY <1>1, Bounds
  <1>3. (v % 16) + c <= 15 => v + c <= 255 /\ (v + c) % 16 = (v % 16) + c
    BY <1>1
  <1>4. v + c <= 255 => (DoesCarry8(a, v + c) <=> a + (v + c) > 255)
    BY <1>2, CarryOfBytes
  <1>5. v + c <= 255 => (DoesHalfCarry8(a, v + c) <=> (a % 16) + ((v + c) % 16) > 15)
    BY <1>2, HalfCarryOfBytes
  <1>6. v + c <= 255 => (DoesBorrow8(a, v + c) <=> a < v + c)
    BY <1>2, BorrowOfBytes
  <1>7. v + c <= 255 => (DoesHalfBorrow8(a, v + c) <=> a % 16 < (v + c) % 16)
    BY <1>2, HalfBorrowOfBytes
  <1>8. a + (v + c) = a + v + c /\ a - (v + c) = a - v - c
    BY <1>1
  <1>9. (v % 16) + c <= 15 => (DoesHalfCarry8(a, v + c) <=> (a % 16) + (v % 16) + c > 15)
    BY <1>1, <1>3, <1>5
  <1>10. (v % 16) + c <= 15 => (DoesHalfBorrow8(a, v + c) <=> a % 16 < (v % 16) + c)
    BY <1>3, <1>7
  <1> QED
    BY <1>4, <1>6, <1>8, <1>9, <1>10 DEF Wrap8

(***************************************************************************)
(* Sums, differences and decimals are exact.                               *)
(***************************************************************************)

LEMMA AccumulateEffect ==
  ASSUME reg \in RegisterFile, NEW name, NEW result, NEW n, NEW h, NEW c,
         Accumulate(name, result, n, h, c)
  PROVE  /\ reg'.A = result /\ flag'.Z = IsZero(result) /\ flag'.H = h /\ flag'.C = c
         /\ reg'.B = reg.B /\ reg'.C = reg.C /\ reg'.D = reg.D /\ reg'.E = reg.E
         /\ reg'.H = reg.H /\ reg'.L = reg.L /\ mem' = mem
  BY DEF Accumulate, SetFlags, RegisterFile

LEMMA SumsExact ==
  ASSUME IInv, Next, handler.name \in Adding
  PROVE  SumExact(Operand(ir.arg2), CarryIn)
  <1> DEFINE v == Operand(ir.arg2)
             a == reg.A
             k == CarryIn
  <1>1. handler.name \in Names
    BY DEF Adding, Names, AluNames
  <1>2. v \in Byte /\ a \in Byte /\ flag.C \in {0, 1} /\ reg \in RegisterFile
    BY <1>1, Values DEF Typed
  <1>3. k \in {0, 1} /\ v \in Int
    BY <1>2, Bounds DEF CarryIn
  <1>4. /\ reg'.A = Wrap8(a + (v + k)) /\ flag'.H = Flag(DoesHalfCarry8(a, v + k))
        /\ flag'.C = Flag(DoesCarry8(a, v + k))
    <2>1. CASE handler.name = "Add8Bit"
      <3>1. Accumulate("Add8Bit", Wrap8(a + v), 0, Flag(DoesHalfCarry8(a, v)), Flag(DoesCarry8(a, v)))
        BY <2>1, ArithmeticHandlers, Zenon DEF Add8Bit
      <3>2. k = 0
        BY <2>1 DEF CarryIn
      <3> HIDE DEF v, a, k
      <3>3. v + k = v
        BY <1>3, <3>2
      <3> QED
        BY <1>2, <3>1, <3>3, AccumulateEffect
    <2>2. CASE handler.name = "ADC8Bit"
      <3>1. k = flag.C
        BY <2>2 DEF CarryIn
      <3> HIDE DEF k
      <3>2. Accumulate("ADC8Bit", Wrap8(a + (v + flag.C)), 0, Flag(DoesHalfCarry8(a, v + flag.C)),
                       Flag(DoesCarry8(a, v + flag.C)))
        BY <2>2, ArithmeticHandlers, Zenon DEF ADC8Bit
      <3> QED
        BY <1>2, <3>1, <3>2, AccumulateEffect
    <2> QED
      BY <2>1, <2>2 DEF Adding
  <1> HIDE DEF v, a, k
  <1>5. /\ v + k <= 255 => (DoesCarry8(a, v + k) <=> a + v + k > 255)
        /\ (v % 16) + k <= 15 => (DoesHalfCarry8(a, v + k) <=> (a % 16) + (v % 16) + k > 15)
        /\ Wrap8(a + (v + k)) = (a + v + k) % 256
    BY <1>2, <1>3, SumFlags
  <1>6. /\ flag'.H = 1 <=> DoesHalfCarry8(a, v + k)
        /\ flag'.C = 1 <=> DoesCarry8(a, v + k)
    BY <1>4 DEF Flag
  <1>7. SumExact(v, k)
    BY <1>4, <1>5, <1>6, Zenon DEF SumExact, a
  <1> QED
    BY <1>7 DEF v, k

LEMMA DifferencesExact ==
  ASSUME IInv, Next, handler.name \in Subtracting
  PROVE  DifferenceExact(Operand(ir.arg2), CarryIn)
  <1> DEFINE v == Operand(ir.arg2)
             a == reg.A
             k == CarryIn
  <1>1. handler.name \in Names
    BY DEF Subtracting, Names, AluNames
  <1>2. v \in Byte /\ a \in Byte /\ flag.C \in {0, 1} /\ reg \in RegisterFile
    BY <1>1, Values DEF Typed
  <1>3. k \in {0, 1} /\ v \in Int
    BY <1>2, Bounds DEF CarryIn
  <1>4. /\ reg'.A = IF handler.name = "Cp8Bit" THEN a ELSE Wrap8(a - (v + k))
        /\ flag'.Z = IsZero(Wrap8(a - (v + k)))
        /\ flag'.H = Flag(~DoesHalfBorrow8(a, v + k))
        /\ flag'.C = Flag(~DoesBorrow8(a, v + k))
    <2>1. CASE handler.name = "Sub8Bit"
      <3>1. Accumulate("Sub8Bit", Wrap8(a - v), 1, Flag(~DoesHalfBorrow8(a, v)),
                       Flag(~DoesBorrow8(a, v)))
        BY <2>1, ArithmeticHandlers, Zenon DEF Sub8Bit
      <3>2. k = 0
        BY <2>1 DEF CarryIn
      <3> HIDE DEF v, a, k
      <3>3. v + k = v
        BY <1>3, <3>2
      <3> QED
        BY <1>2, <2>1, <3>1, <3>3, AccumulateEffect
    <2>2. CASE handler.name = "SBC8Bit"
      <3>1. k = flag.C
        BY <2>2 DEF CarryIn
      <3> HIDE DEF k
      <3>2. Accumulate("SBC8Bit", Wrap8(a - (v + flag.C)), 1, Flag(~DoesHalfBorrow8(a, v + flag.C)),
                       Flag(~DoesBorrow8(a, v + flag.C)))
        BY <2>2, ArithmeticHandlers, Zenon DEF SBC8Bit
      <3> QED
        BY <1>2, <2>2, <3>1, <3>2, AccumulateEffect
    <2>3. CASE handler.name = "Cp8Bit"
      <3>1. /\ SetFlags(IsZero(Wrap8(a - v)), 1, Flag(~DoesHalfBorrow8(a, v)),
                        Flag(~DoesBorrow8(a, v)))
            /\ reg' = reg
        BY <2>3, ArithmeticHandlers, Zenon DEF Cp8Bit
      <3>2. k = 0
        BY <2>3 DEF CarryIn
      <3>3. reg'.A = a
        BY <3>1
      <3> HIDE DEF v, a, k
      <3>4. v + k = v
        BY <1>3, <3>2
      <3> QED
        BY <2>3, <3>1, <3>3, <3>4 DEF SetFlags
    <2> QED
      BY <2>1, <2>2, <2>3 DEF Subtracting
  <1> HIDE DEF v, a, k
  <1>5. /\ v \in Int /\ k \in Int /\ a \in Int
        /\ a % 16 \in Int /\ v % 16 \in Int
    BY <1>2, <1>3, Bounds
  <1>6. /\ v + k <= 255 => (DoesBorrow8(a, v + k) <=> a < v + k)
        /\ (v % 16) + k <= 15 => (DoesHalfBorrow8(a, v + k) <=> a % 16 < (v % 16) + k)
        /\ Wrap8(a - (v + k)) = (a - v - k) % 256
    <2>1. v + k <= 255 => (DoesBorrow8(a, v + k) <=> a < v + k)
      BY <1>2, <1>3, SumFlags
    <2>2. (v % 16) + k <= 15 => (DoesHalfBorrow8(a, v + k) <=> a % 16 < (v % 16) + k)
      BY <1>2, <1>3, SumFlags
    <2>3. Wrap8(a - (v + k)) = (a - v - k) % 256
      <3>1. a - (v + k) = a - v - k
        BY <1>5
      <3> QED
        BY <3>1, Zenon DEF Wrap8
    <2> QED
      BY <2>1, <2>2, <2>3
  <1>7. /\ flag'.H = 1 <=> ~DoesHalfBorrow8(a, v + k)
        /\ flag'.C = 1 <=> ~DoesBorrow8(a, v + k)
        /\ flag'.Z = 1 <=> Wrap8(a - (v + k)) = 0
    BY <1>4 DEF Flag, IsZero
  <1>8. /\ a < v + k <=> ~(a >= v + k)
        /\ a % 16 < (v % 16) + k <=> ~(a % 16 >= (v % 16) + k)
    BY <1>5, <1>3
  <1>9. DifferenceExact(v, k)
    <2>1. reg'.A = IF handler.name = "Cp8Bit" THEN a ELSE (a - v - k) % 256
      BY <1>4, <1>6, Zenon
    <2>2. flag'.Z = 1 <=> (a - v - k) % 256 = 0
      BY <1>6, <1>7, Zenon
    <2>3. v + k <= 255 => (flag'.C = 1 <=> a >= v + k)
      BY <1>6, <1>7, <1>8, Zenon
    <2>4. (v % 16) + k <= 15 => (flag'.H = 1 <=> a % 16 >= (v % 16) + k)
      BY <1>6, <1>7, <1>8, Zenon
    <2> QED
      BY <2>1, <2>2, <2>3, <2>4, Zenon DEF DifferenceExact, a
  <1> QED
    BY <1>9 DEF v, k

LEMMA WideSumsExact ==
  ASSUME IInv, Next, handler.name = "Add16Bit"
  PROVE  65536 * flag'.C + rHL' = rHL + GetParameterValue16Bit(ir.arg2)
  <1> DEFINE v == GetParameterValue16Bit(ir.arg2)
             hl == rHL
             sum == Wrap16(hl + v)
  <1>1. v \in Word /\ hl \in Word /\ Typed
    BY Values DEF Names, AluNames
  <1>2. /\ reg' = RegWith("HL", sum)
        /\ flag'.C = Flag(DoesCarry16(hl, v))
    BY ArithmeticHandlers DEF Add16Bit, SetFlags
  <1>3. rHL' = 256 * High(sum) + Low(sum)
    <2> HIDE DEF sum
    <2>1. reg' = [reg EXCEPT !.H = High(sum), !.L = Low(sum)]
      BY <1>2, Zenon DEF RegWith
    <2>2. reg'.H = High(sum) /\ reg'.L = Low(sum)
      BY <1>1, <2>1 DEF Typed, RegisterFile
    <2> QED
      BY <2>2 DEF rHL
  <1> HIDE DEF v, hl
  <1>4. v \in Int /\ 0 <= v /\ v <= 65535 /\ hl \in Int /\ 0 <= hl /\ hl <= 65535
    BY <1>1, Bounds
  <1>5. rHL' = (hl + v) % 65536
    BY <1>3, <1>4 DEF High, Low, Wrap16
  <1>6. flag'.C = IF hl + v > 65535 THEN 1 ELSE 0
    BY <1>1, <1>2, CarryOfWords DEF Flag
  <1>7. 65536 * flag'.C + rHL' = hl + v
    BY <1>4, <1>5, <1>6
  <1> QED
    BY <1>7 DEF v, hl

LEMMA DecimalsExact ==
  ASSUME IInv, Next, handler.name = "DAA", reg.A < 100
  PROVE  reg'.A = 16 * (reg.A \div 10) + (reg.A % 10)
  <1> DEFINE a == reg.A
  <1>1. a \in Byte /\ reg \in RegisterFile
    BY Values DEF Names, ControlNames, Typed
  <1>2. reg'.A = Adjusted(a)
    BY <1>1, ArithmeticHandlers DEF DAA, RegisterFile
  <1>3. a < 100
    OBVIOUS
  <1> HIDE DEF a
  <1>4. a \in Int /\ 0 <= a
    BY <1>1, Bounds
  <1>5. a \div 100 = 0 /\ 10 * (a \div 10) + (a % 10) = a /\ a \div 10 \in Int /\ 0 <= a \div 10
        /\ a \div 10 <= 9
    BY <1>3, <1>4
  <1>6. Adjusted(a) = a + 6 * (a \div 10)
    BY <1>3, <1>4, <1>5 DEF Adjusted, Wrap8
  <1>7. reg'.A = 16 * (a \div 10) + (a % 10)
    BY <1>2, <1>4, <1>5, <1>6
  <1> QED
    BY <1>7 DEF a

(* Sums and differences of bytes with their carries, sums of words, and the *)
(* digits of a number below 100 are exact.                                  *)
THEOREM ArithmeticIsExact == Spec => ArithmeticExact
  <1>1. IInv /\ [Next]_vars => [ExactStep]_<<handler, reg, flag>>
    <2> SUFFICES ASSUME IInv, Next PROVE ExactStep
      BY DEF vars
    <2> QED
      BY SumsExact, DifferencesExact, WideSumsExact, DecimalsExact DEF ExactStep
  <1> QED
    BY <1>1, InvariantHolds, PTL DEF Spec, ArithmeticExact

(***************************************************************************)
(* The ones of a byte.                                                     *)
(***************************************************************************)

(* A byte is its bits, each with its weight.                                *)
LEMMA BitsOfSum ==
  ASSUME NEW a \in {0, 1}, NEW b \in {0, 1}, NEW c \in {0, 1}, NEW d \in {0, 1},
         NEW e \in {0, 1}, NEW f \in {0, 1}, NEW g \in {0, 1}, NEW h \in {0, 1}
  PROVE  Ones(a + 2 * b + 4 * c + 8 * d + 16 * e + 32 * f + 64 * g + 128 * h)
           = a + b + c + d + e + f + g + h
  <1> DEFINE x == a + 2 * b + 4 * c + 8 * d + 16 * e + 32 * f + 64 * g + 128 * h
  <1>1. NthBit(x, 1) = a
    BY DEF NthBit
  <1>2. NthBit(x, 2) = b
    BY DEF NthBit
  <1>3. NthBit(x, 4) = c
    BY DEF NthBit
  <1>4. NthBit(x, 8) = d
    BY DEF NthBit
  <1>5. NthBit(x, 16) = e
    BY DEF NthBit
  <1>6. NthBit(x, 32) = f
    BY DEF NthBit
  <1>7. NthBit(x, 64) = g
    BY DEF NthBit
  <1>8. NthBit(x, 128) = h
    BY DEF NthBit
  <1> HIDE DEF x
  <1>9. Ones(x) = a + b + c + d + e + f + g + h
    BY <1>1, <1>2, <1>3, <1>4, <1>5, <1>6, <1>7, <1>8, Zenon DEF Ones
  <1> QED
    BY <1>9 DEF x

LEMMA ByteInBits ==
  ASSUME NEW v \in Byte
  PROVE  \E a, b, c, d, e, f, g, h \in {0, 1} :
           v = a + 2 * b + 4 * c + 8 * d + 16 * e + 32 * f + 64 * g + 128 * h
  <1> DEFINE B(w) == (v \div w) % 2
  <1>1. v \in Int /\ 0 <= v /\ v <= 255
    BY Bounds
  <1>2. v = B(1) + 2 * B(2) + 4 * B(4) + 8 * B(8) + 16 * B(16) + 32 * B(32) + 64 * B(64) + 128 * B(128)
    <2>1. v = B(1) + 2 * (v \div 2)
      BY <1>1
    <2>2. v \div 2 = B(2) + 2 * (v \div 4)
      BY <1>1
    <2>3. v \div 4 = B(4) + 2 * (v \div 8)
      BY <1>1
    <2>4. v \div 8 = B(8) + 2 * (v \div 16)
      BY <1>1
    <2>5. v \div 16 = B(16) + 2 * (v \div 32)
      BY <1>1
    <2>6. v \div 32 = B(32) + 2 * (v \div 64)
      BY <1>1
    <2>7. v \div 64 = B(64) + 2 * B(128)
      BY <1>1
    <2> QED
      BY <1>1, <2>1, <2>2, <2>3, <2>4, <2>5, <2>6, <2>7
  <1>3. /\ B(1) \in {0, 1} /\ B(2) \in {0, 1} /\ B(4) \in {0, 1} /\ B(8) \in {0, 1}
        /\ B(16) \in {0, 1} /\ B(32) \in {0, 1} /\ B(64) \in {0, 1} /\ B(128) \in {0, 1}
    BY <1>1
  <1> HIDE DEF B
  <1> QED
    BY <1>2, <1>3

(* What each rotation and shift makes of the ones of a byte and a carry.    *)
LEMMA RotatedOnes ==
  ASSUME NEW v \in Byte, NEW k \in {0, 1}
  PROVE  /\ Ones(v) \in Nat /\ NthBit(v, 128) \in {0, 1} /\ NthBit(v, 1) \in {0, 1}
         /\ Ones(RotateLeft(v)) = Ones(v) /\ Ones(RotateRight(v)) = Ones(v)
         /\ Ones(LeftThroughCarry(v, k)) + NthBit(v, 128) = Ones(v) + k
         /\ Ones(RightThroughCarry(v, k)) + NthBit(v, 1) = Ones(v) + k
         /\ Ones(Wrap8(2 * v)) + NthBit(v, 128) = Ones(v)
         /\ Ones(v \div 2) + NthBit(v, 1) = Ones(v)
         /\ Ones(Wrap8(16 * v) + v \div 16) = Ones(v)
  <1>1. PICK a, b, c, d, e, f, g, h \in {0, 1} :
          v = a + 2 * b + 4 * c + 8 * d + 16 * e + 32 * f + 64 * g + 128 * h
    BY ByteInBits
  <1> DEFINE Sum(p, q, r, s, t, u, x, y) ==
               p + 2 * q + 4 * r + 8 * s + 16 * t + 32 * u + 64 * x + 128 * y
             ones == a + b + c + d + e + f + g + h
  <1>2. \A p, q, r, s, t, u, x, y \in {0, 1} :
          Ones(Sum(p, q, r, s, t, u, x, y)) = p + q + r + s + t + u + x + y
    BY BitsOfSum
  <1>3. /\ NthBit(v, 128) = h /\ NthBit(v, 1) = a
        /\ v \div 2 = Sum(b, c, d, e, f, g, h, 0)
        /\ Wrap8(2 * v) = Sum(0, a, b, c, d, e, f, g)
    BY <1>1 DEF NthBit, Wrap8
  <1>4. v \div 16 = Sum(e, f, g, h, 0, 0, 0, 0) /\ Wrap8(16 * v) = Sum(0, 0, 0, 0, a, b, c, d)
    BY <1>1 DEF Wrap8
  <1>5. /\ RotateLeft(v) = Sum(h, a, b, c, d, e, f, g)
        /\ RotateRight(v) = Sum(b, c, d, e, f, g, h, a)
        /\ LeftThroughCarry(v, k) = Sum(k, a, b, c, d, e, f, g)
        /\ RightThroughCarry(v, k) = Sum(b, c, d, e, f, g, h, k)
        /\ Wrap8(16 * v) + v \div 16 = Sum(e, f, g, h, a, b, c, d)
    BY <1>3, <1>4 DEF RotateLeft, RotateRight, LeftThroughCarry, RightThroughCarry
  <1>6. v = Sum(a, b, c, d, e, f, g, h)
    BY <1>1
  <1> HIDE DEF Sum
  <1>7. /\ Ones(v) = ones
        /\ Ones(RotateLeft(v)) = h + a + b + c + d + e + f + g
        /\ Ones(RotateRight(v)) = b + c + d + e + f + g + h + a
        /\ Ones(LeftThroughCarry(v, k)) = k + a + b + c + d + e + f + g
        /\ Ones(RightThroughCarry(v, k)) = b + c + d + e + f + g + h + k
        /\ Ones(Wrap8(2 * v)) = 0 + a + b + c + d + e + f + g
        /\ Ones(v \div 2) = b + c + d + e + f + g + h + 0
        /\ Ones(Wrap8(16 * v) + v \div 16) = e + f + g + h + a + b + c + d
    <2>1. 0 \in {0, 1}
      OBVIOUS
    <2>2. Ones(v) = ones
      BY <1>2, <1>6, <2>1
    <2>3. Ones(RotateLeft(v)) = h + a + b + c + d + e + f + g
      BY <1>2, <1>5, <2>1
    <2>4. Ones(RotateRight(v)) = b + c + d + e + f + g + h + a
      BY <1>2, <1>5, <2>1
    <2>5. Ones(LeftThroughCarry(v, k)) = k + a + b + c + d + e + f + g
      BY <1>2, <1>5, <2>1
    <2>6. Ones(RightThroughCarry(v, k)) = b + c + d + e + f + g + h + k
      BY <1>2, <1>5, <2>1
    <2>7. Ones(Wrap8(2 * v)) = 0 + a + b + c + d + e + f + g
      BY <1>2, <1>3, <2>1
    <2>8. Ones(v \div 2) = b + c + d + e + f + g + h + 0
      BY <1>2, <1>3, <2>1
    <2>9. Ones(Wrap8(16 * v) + v \div 16) = e + f + g + h + a + b + c + d
      BY <1>2, <1>5, <2>1
    <2> QED
      BY <2>2, <2>3, <2>4, <2>5, <2>6, <2>7, <2>8, <2>9
  <1> QED
    BY <1>3, <1>7

LEMMA OnesOfByte == \A v \in Byte : Ones(v) \in Nat
  BY RotatedOnes

(* The ones held are a sum of naturals.                                     *)
RegisterOnes(r) ==
  Ones(r.A) + Ones(r.B) + Ones(r.C) + Ones(r.D) + Ones(r.E) + Ones(r.H) + Ones(r.L)
ByteAtHL(m) == IF handler.form = "Address" /\ rHL \in Ram THEN Ones(m[rHL]) ELSE 0

LEMMA HeldIsSum ==
  ASSUME NEW r \in RegisterFile, NEW m \in [Ram -> Byte]
  PROVE  /\ OnesHeld(r, m) = RegisterOnes(r) + ByteAtHL(m)
         /\ RegisterOnes(r) \in Nat /\ ByteAtHL(m) \in Nat
  <1>1. /\ r.A \in Byte /\ r.B \in Byte /\ r.C \in Byte /\ r.D \in Byte
        /\ r.E \in Byte /\ r.H \in Byte /\ r.L \in Byte
    BY DEF RegisterFile
  <1>2. /\ Ones(r.A) \in Nat /\ Ones(r.B) \in Nat /\ Ones(r.C) \in Nat /\ Ones(r.D) \in Nat
        /\ Ones(r.E) \in Nat /\ Ones(r.H) \in Nat /\ Ones(r.L) \in Nat
    BY <1>1, OnesOfByte
  <1>3. RegisterOnes(r) \in Nat
    BY <1>2 DEF RegisterOnes
  <1>4. ByteAtHL(m) \in Nat
    BY OnesOfByte DEF ByteAtHL
  <1>5. OnesHeld(r, m) = RegisterOnes(r) + ByteAtHL(m)
    BY Zenon DEF OnesHeld, RegisterOnes, ByteAtHL
  <1> QED
    BY <1>3, <1>4, <1>5

(* One register changed, the ones change by its own.                        *)
LEMMA OneRegister ==
  ASSUME NEW r \in RegisterFile, NEW x \in Register8Bit, NEW v \in Byte
  PROVE  RegisterOnes([r EXCEPT ![x] = v]) + Ones(r[x]) = RegisterOnes(r) + Ones(v)
  <1> DEFINE s == [r EXCEPT ![x] = v]
  <1>1. /\ r.A \in Byte /\ r.B \in Byte /\ r.C \in Byte /\ r.D \in Byte
        /\ r.E \in Byte /\ r.H \in Byte /\ r.L \in Byte
    BY DEF RegisterFile
  <1>2. /\ Ones(r.A) \in Nat /\ Ones(r.B) \in Nat /\ Ones(r.C) \in Nat /\ Ones(r.D) \in Nat
        /\ Ones(r.E) \in Nat /\ Ones(r.H) \in Nat /\ Ones(r.L) \in Nat /\ Ones(v) \in Nat
    BY <1>1, OnesOfByte
  <1>3. /\ s.A = IF x = "A" THEN v ELSE r.A
        /\ s.B = IF x = "B" THEN v ELSE r.B
        /\ s.C = IF x = "C" THEN v ELSE r.C
        /\ s.D = IF x = "D" THEN v ELSE r.D
        /\ s.E = IF x = "E" THEN v ELSE r.E
        /\ s.H = IF x = "H" THEN v ELSE r.H
        /\ s.L = IF x = "L" THEN v ELSE r.L
    BY DEF RegisterFile
  <1> HIDE DEF s
  <1>4. RegisterOnes(s) + Ones(r[x]) = RegisterOnes(r) + Ones(v)
    <2>1. CASE x = "A"
      BY <1>2, <1>3, <2>1 DEF RegisterOnes
    <2>2. CASE x = "B"
      BY <1>2, <1>3, <2>2 DEF RegisterOnes
    <2>3. CASE x = "C"
      BY <1>2, <1>3, <2>3 DEF RegisterOnes
    <2>4. CASE x = "D"
      BY <1>2, <1>3, <2>4 DEF RegisterOnes
    <2>5. CASE x = "E"
      BY <1>2, <1>3, <2>5 DEF RegisterOnes
    <2>6. CASE x = "H"
      BY <1>2, <1>3, <2>6 DEF RegisterOnes
    <2>7. CASE x = "L"
      BY <1>2, <1>3, <2>7 DEF RegisterOnes
    <2> QED
      BY <2>1, <2>2, <2>3, <2>4, <2>5, <2>6, <2>7 DEF Register8Bit
  <1> QED
    BY <1>4 DEF s

LEMMA AccumulateOnes ==
  ASSUME IInv, NEW name, NEW result \in Byte, NEW n, NEW h, NEW c,
         Accumulate(name, result, n, h, c)
  PROVE  /\ OnesHeld(reg', mem') + Ones(reg.A) = OnesHeld(reg, mem) + Ones(result)
         /\ flag'.C = c
  <1>1. /\ reg' = [reg EXCEPT !["A"] = result] /\ mem' = mem
        /\ flag' = [Z |-> IsZero(result), N |-> n, H |-> h, C |-> c]
    BY Zenon DEF Accumulate, SetFlags
  <1>2. reg \in RegisterFile /\ mem \in [Ram -> Byte] /\ reg.A \in Byte
    BY RegisterValues DEF IInv, Typed
  <1>3. reg' \in RegisterFile
    BY <1>1, <1>2, RegisterValues
  <1>4. RegisterOnes(reg') + Ones(reg.A) = RegisterOnes(reg) + Ones(result)
    BY <1>1, <1>2, OneRegister DEF Register8Bit
  <1>5. /\ OnesHeld(reg, mem) = RegisterOnes(reg) + ByteAtHL(mem)
        /\ OnesHeld(reg', mem) = RegisterOnes(reg') + ByteAtHL(mem)
        /\ RegisterOnes(reg) \in Nat /\ RegisterOnes(reg') \in Nat /\ ByteAtHL(mem) \in Nat
    BY <1>2, <1>3, HeldIsSum
  <1>6. Ones(reg.A) \in Nat /\ Ones(result) \in Nat
    BY <1>2, OnesOfByte
  <1>7. OnesHeld(reg', mem') + Ones(reg.A) = OnesHeld(reg, mem) + Ones(result)
    BY <1>1, <1>4, <1>5, <1>6
  <1> QED
    BY <1>1, <1>7

LEMMA ModifyOnes ==
  ASSUME IInv, NEW name \in Shifts, NEW result \in Byte, NEW n, NEW h, NEW c,
         Modify(name, result, n, h, c), handler.form # "Address" \/ rHL \in Ram
  PROVE  /\ OnesHeld(reg', mem') + Ones(Operand(ir.arg1)) = OnesHeld(reg, mem) + Ones(result)
         /\ flag'.C = c
  <1>1. /\ Store(ir.arg1, handler.form = "Address", result) /\ handler.name = name
        /\ flag' = [Z |-> IsZero(result), N |-> n, H |-> h, C |-> c]
    BY Zenon DEF Modify, SetFlags, Dispatched
  <1>2. handler.name \in Names /\ handler.name \in Shifts
    BY <1>1 DEF Shifts, Names, ShiftNames, ControlNames
  <1>3. /\ reg \in RegisterFile /\ mem \in [Ram -> Byte]
        /\ Operand(ir.arg1) \in Byte /\ ArgumentsOK
    BY <1>2, Values DEF Typed
  <1>4. /\ handler.form \in {"Plain", "Address"}
        /\ handler.form = "Address" => Pointer(ir.arg1, {"HL"})
        /\ handler.form = "Plain" => Pointer(ir.arg1, Register8Bit)
    BY <1>2, <1>3 DEF ArgumentsOK
  <1>5. Ones(Operand(ir.arg1)) \in Nat /\ Ones(result) \in Nat
    BY <1>3, OnesOfByte
  <1>6. CASE handler.form = "Plain"
    <2> DEFINE r == ir.arg1.reg
    <2>1. r \in Register8Bit /\ ir.arg1.type = "REGISTER"
      BY <1>4, <1>6 DEF Pointer
    <2>2. reg' = [reg EXCEPT ![r] = result] /\ mem' = mem
      BY <1>1, <1>6 DEF Store
    <2>3. Operand(ir.arg1) = reg[r]
      <3>1. reg[r] \in Byte
        BY <1>3, <2>1, RegisterValues
      <3>2. GetParameterValue16Bit(ir.arg1) = reg[r]
        BY <2>1, NamedRegisters DEF GetParameterValue16Bit
      <3>3. Wrap8(reg[r]) = reg[r]
        BY <3>1, Bounds DEF Wrap8
      <3> QED
        BY <1>6, <3>2, <3>3 DEF Operand, GetParameterValue8Bit
    <2> HIDE DEF r
    <2>4. reg' \in RegisterFile
      BY <1>3, <2>2, RegisterValues
    <2>5. RegisterOnes(reg') + Ones(reg[r]) = RegisterOnes(reg) + Ones(result)
      BY <1>3, <2>1, <2>2, OneRegister
    <2>6. /\ OnesHeld(reg, mem) = RegisterOnes(reg) + ByteAtHL(mem)
          /\ OnesHeld(reg', mem) = RegisterOnes(reg') + ByteAtHL(mem)
          /\ RegisterOnes(reg) \in Nat /\ RegisterOnes(reg') \in Nat /\ ByteAtHL(mem) \in Nat
      BY <1>3, <2>4, HeldIsSum
    <2>7. OnesHeld(reg', mem') + Ones(Operand(ir.arg1)) = OnesHeld(reg, mem) + Ones(result)
      BY <1>5, <2>2, <2>3, <2>5, <2>6
    <2> QED
      BY <1>1, <2>7
  <1>7. CASE handler.form = "Address"
    <2>1. rHL \in Ram /\ ir.arg1.type = "REGISTER" /\ ir.arg1.reg = "HL"
      BY <1>4, <1>7 DEF Pointer
    <2>2. GetParameterValue16Bit(ir.arg1) = rHL
      BY <2>1, NamedRegisters DEF GetParameterValue16Bit
    <2>3. Wrap8(result) = result
      BY Bounds DEF Wrap8
    <2>4. reg' = reg /\ mem' = [mem EXCEPT ![rHL] = result]
      BY <1>1, <1>7, <2>1, <2>2, <2>3 DEF Store, Written
    <2>5. Operand(ir.arg1) = mem[rHL]
      BY <1>7, <2>1, <2>2 DEF Operand, Read
    <2>6. mem' \in [Ram -> Byte] /\ mem'[rHL] = result
      BY <1>3, <2>1, <2>4
    <2>7. ByteAtHL(mem) = Ones(Operand(ir.arg1)) /\ ByteAtHL(mem') = Ones(result)
      BY <1>7, <2>1, <2>5, <2>6 DEF ByteAtHL
    <2>8. /\ OnesHeld(reg, mem) = RegisterOnes(reg) + ByteAtHL(mem)
          /\ OnesHeld(reg, mem') = RegisterOnes(reg) + ByteAtHL(mem')
          /\ RegisterOnes(reg) \in Nat
      BY <1>3, <2>6, HeldIsSum
    <2>9. OnesHeld(reg', mem') + Ones(Operand(ir.arg1)) = OnesHeld(reg, mem) + Ones(result)
      BY <1>5, <2>4, <2>7, <2>8
    <2> QED
      BY <1>1, <2>9
  <1> QED
    BY <1>4, <1>6, <1>7

(***************************************************************************)
(* No bit is lost.                                                         *)
(***************************************************************************)

LEMMA ShiftHandlers ==
  ASSUME IInv, Next
  PROVE  /\ handler.name = "RLCA" => RLCA
         /\ handler.name = "RLA" => RLA
         /\ handler.name = "RRCA" => RRCA
         /\ handler.name = "RRA" => RRA
         /\ handler.name = "RLC" => RLC
         /\ handler.name = "RL" => RL
         /\ handler.name = "RRC" => RRC
         /\ handler.name = "RR" => RR
         /\ handler.name = "SLA" => SLA
         /\ handler.name = "SRL" => SRL
         /\ handler.name = "Swap" => Swap
  <1>1. ShiftStep =>
          /\ handler.name = "RLCA" => RLCA
          /\ handler.name = "RLA" => RLA
          /\ handler.name = "RRCA" => RRCA
          /\ handler.name = "RRA" => RRA
          /\ handler.name = "RLC" => RLC
          /\ handler.name = "RL" => RL
          /\ handler.name = "RRC" => RRC
          /\ handler.name = "RR" => RR
          /\ handler.name = "SLA" => SLA
          /\ handler.name = "SRL" => SRL
    BY DEF ShiftStep, RLCA, RLA, RRCA, RRA, RLC, RL, RRC, RR, SLA, SRA, SRL, Rotate, Left, Right,
           Accumulate, Modify, Dispatched
  <1>2. ControlStep => (handler.name = "Swap" => Swap)
    BY DEF ControlStep, Swap, DAA, CPL, CCF, SCF, NOP, Stop, Halt, DI, EI, Modify, Control,
           Dispatched
  <1> QED
    BY <1>1, <1>2, StepOfName DEF ShiftNames, ControlNames

(* No rotation, shift or swap loses a bit of what it works on.              *)
LEMMA OnesKept ==
  ASSUME IInv, Next
  PROVE  KeepsOnes
  <1> SUFFICES ASSUME handler.form # "Address" \/ rHL \in Ram,
                      handler.name \in {"RLCA", "RLA", "RRCA", "RRA"} \cup (Shifts \ {"SRA"})
               PROVE  KeepsOnes
    BY DEF KeepsOnes, Shifts
  <1> DEFINE v == Operand(ir.arg1)
             before == OnesHeld(reg, mem)
             after == OnesHeld(reg', mem')
  <1>1. handler.name \in Names
    BY DEF Shifts, Names, ShiftNames, ControlNames
  <1>2. /\ v \in Byte /\ reg.A \in Byte /\ flag.C \in {0, 1}
        /\ reg \in RegisterFile /\ mem \in [Ram -> Byte] /\ IInv'
    BY <1>1, Values, ShiftIInv, ControlIInv, StepOfName
       DEF Typed, Shifts, Names, ShiftNames, ControlNames
  <1>3. before \in Nat /\ after \in Nat
    BY <1>2, HeldIsSum DEF IInv, Typed
  <1>4. \A x \in Byte : \A k \in {0, 1} :
          /\ RotateLeft(x) \in Byte /\ RotateRight(x) \in Byte
          /\ LeftThroughCarry(x, k) \in Byte /\ RightThroughCarry(x, k) \in Byte
          /\ Wrap8(2 * x) \in Byte /\ x \div 2 \in Byte
          /\ Wrap8(16 * x) + x \div 16 \in Byte
    BY RotatedBytes, Zenon
  <1>5. \A x \in Byte : \A k \in {0, 1} :
          /\ Ones(x) \in Nat /\ NthBit(x, 128) \in {0, 1} /\ NthBit(x, 1) \in {0, 1}
          /\ Ones(RotateLeft(x)) = Ones(x) /\ Ones(RotateRight(x)) = Ones(x)
          /\ Ones(LeftThroughCarry(x, k)) + NthBit(x, 128) = Ones(x) + k
          /\ Ones(RightThroughCarry(x, k)) + NthBit(x, 1) = Ones(x) + k
          /\ Ones(Wrap8(2 * x)) + NthBit(x, 128) = Ones(x)
          /\ Ones(x \div 2) + NthBit(x, 1) = Ones(x)
          /\ Ones(Wrap8(16 * x) + x \div 16) = Ones(x)
    BY RotatedOnes, Zenon
  <1>6. \A y \in Byte : Ones(y) \in Nat
    BY OnesOfByte
  <1>7. ASSUME NEW name, NEW result \in Byte, NEW c, Rotate(name, result, c)
        PROVE  after + Ones(reg.A) = before + Ones(result) /\ flag'.C = c
    BY <1>7, AccumulateOnes DEF Rotate
  <1>8. ASSUME NEW name \in Shifts, NEW result \in Byte, Left(name, result)
        PROVE  after + Ones(v) = before + Ones(result) /\ flag'.C = NthBit(v, 128)
    BY <1>8, ModifyOnes DEF Left
  <1>9. ASSUME NEW name \in Shifts, NEW result \in Byte, Right(name, result)
        PROVE  after + Ones(v) = before + Ones(result) /\ flag'.C = NthBit(v, 1)
    BY <1>9, ModifyOnes DEF Right
  <1>10. {"RLC", "RL", "RRC", "RR", "SLA", "SRL", "Swap"} \subseteq Shifts
    BY DEF Shifts
  <1>11. ASSUME handler.name = "RLCA" PROVE after = before
    <2>1. after + Ones(reg.A) = before + Ones(RotateLeft(reg.A))
      BY <1>2, <1>4, <1>7, <1>11, ShiftHandlers DEF RLCA
    <2> HIDE DEF before, after
    <2> QED
      BY <1>2, <1>3, <1>5, <2>1
  <1>12. ASSUME handler.name = "RRCA" PROVE after = before
    <2>1. after + Ones(reg.A) = before + Ones(RotateRight(reg.A))
      BY <1>2, <1>4, <1>7, <1>12, ShiftHandlers DEF RRCA
    <2> HIDE DEF before, after
    <2> QED
      BY <1>2, <1>3, <1>5, <2>1
  <1>13. ASSUME handler.name = "RLA" PROVE after + flag'.C = before + flag.C
    <2>1. /\ after + Ones(reg.A) = before + Ones(LeftThroughCarry(reg.A, flag.C))
          /\ flag'.C = NthBit(reg.A, 128)
      BY <1>2, <1>4, <1>7, <1>13, ShiftHandlers DEF RLA
    <2> HIDE DEF before, after
    <2>2. LeftThroughCarry(reg.A, flag.C) \in Byte
      BY <1>2, <1>4
    <2> QED
      BY <1>2, <1>3, <1>5, <1>6, <2>1, <2>2
  <1>14. ASSUME handler.name = "RRA" PROVE after + flag'.C = before + flag.C
    <2>1. /\ after + Ones(reg.A) = before + Ones(RightThroughCarry(reg.A, flag.C))
          /\ flag'.C = NthBit(reg.A, 1)
      BY <1>2, <1>4, <1>7, <1>14, ShiftHandlers DEF RRA
    <2> HIDE DEF before, after
    <2>2. RightThroughCarry(reg.A, flag.C) \in Byte
      BY <1>2, <1>4
    <2> QED
      BY <1>2, <1>3, <1>5, <1>6, <2>1, <2>2
  <1>15. ASSUME handler.name = "RLC" PROVE after = before
    <2>1. after + Ones(v) = before + Ones(RotateLeft(v))
      BY <1>2, <1>4, <1>8, <1>10, <1>15, ShiftHandlers DEF RLC
    <2> HIDE DEF before, after, v
    <2> QED
      BY <1>2, <1>3, <1>5, <2>1
  <1>16. ASSUME handler.name = "RRC" PROVE after = before
    <2>1. after + Ones(v) = before + Ones(RotateRight(v))
      BY <1>2, <1>4, <1>9, <1>10, <1>16, ShiftHandlers DEF RRC
    <2> HIDE DEF before, after, v
    <2> QED
      BY <1>2, <1>3, <1>5, <2>1
  <1>17. ASSUME handler.name = "RL" PROVE after + flag'.C = before + flag.C
    <2>1. /\ after + Ones(v) = before + Ones(LeftThroughCarry(v, flag.C))
          /\ flag'.C = NthBit(v, 128)
      BY <1>2, <1>4, <1>8, <1>10, <1>17, ShiftHandlers DEF RL
    <2> HIDE DEF before, after, v
    <2>2. LeftThroughCarry(v, flag.C) \in Byte
      BY <1>2, <1>4
    <2> QED
      BY <1>2, <1>3, <1>5, <1>6, <2>1, <2>2
  <1>18. ASSUME handler.name = "RR" PROVE after + flag'.C = before + flag.C
    <2>1. /\ after + Ones(v) = before + Ones(RightThroughCarry(v, flag.C))
          /\ flag'.C = NthBit(v, 1)
      BY <1>2, <1>4, <1>9, <1>10, <1>18, ShiftHandlers DEF RR
    <2> HIDE DEF before, after, v
    <2>2. RightThroughCarry(v, flag.C) \in Byte
      BY <1>2, <1>4
    <2> QED
      BY <1>2, <1>3, <1>5, <1>6, <2>1, <2>2
  <1>19. ASSUME handler.name = "SLA" PROVE after + flag'.C = before
    <2>1. /\ after + Ones(v) = before + Ones(Wrap8(2 * v))
          /\ flag'.C = NthBit(v, 128)
      BY <1>2, <1>4, <1>8, <1>10, <1>19, ShiftHandlers DEF SLA
    <2> HIDE DEF before, after, v
    <2>2. Wrap8(2 * v) \in Byte
      BY <1>2, <1>4
    <2> QED
      BY <1>2, <1>3, <1>5, <1>6, <2>1, <2>2
  <1>20. ASSUME handler.name = "SRL" PROVE after + flag'.C = before
    <2>1. /\ after + Ones(v) = before + Ones(v \div 2)
          /\ flag'.C = NthBit(v, 1)
      BY <1>2, <1>4, <1>9, <1>10, <1>20, ShiftHandlers DEF SRL
    <2> HIDE DEF before, after, v
    <2>2. v \div 2 \in Byte
      BY <1>2, <1>4
    <2> QED
      BY <1>2, <1>3, <1>5, <1>6, <2>1, <2>2
  <1>21. ASSUME handler.name = "Swap" PROVE after = before
    <2>1. Modify("Swap", Wrap8(16 * v) + v \div 16, 0, 0, 0)
      BY <1>21, ShiftHandlers, Zenon DEF Swap
    <2>2. after + Ones(v) = before + Ones(Wrap8(16 * v) + v \div 16)
      BY <1>2, <1>4, <1>10, <2>1, ModifyOnes
    <2> HIDE DEF before, after, v
    <2> QED
      BY <1>2, <1>3, <1>5, <2>2
  <1> QED
    BY <1>11, <1>12, <1>13, <1>14, <1>15, <1>16, <1>17, <1>18, <1>19, <1>20, <1>21
       DEF KeepsOnes

(* A rotation, a shift or a swap moves bits, of a register or of the byte   *)
(* that HL points at, and loses none.                                       *)
THEOREM NoBitIsLost == Spec => BitsConserved
  <1>1. IInv /\ [Next]_vars => [KeepsOnes]_<<handler, reg, mem, flag>>
    <2> SUFFICES ASSUME IInv, Next PROVE KeepsOnes
      BY DEF vars
    <2> QED
      BY OnesKept
  <1> QED
    BY <1>1, InvariantHolds, PTL DEF Spec, BitsConserved

(***************************************************************************)
(* Programs of several instructions.                                       *)
(***************************************************************************)

(* What the tables give for an opcode.                                      *)
LEMMA TablesGive ==
  ASSUME NEW r \in FactoryList, NEW n, NEW f, <<r.instruction, n, f>> \in Entries
  PROVE  /\ r.instruction \in DOMAIN CreateInstructionMap
         /\ CreateInstructionMap[r.instruction] = r
         /\ CreateOpcodeMap[r.instruction] = Handler(n, f)
  <1> DEFINE o == r.instruction
  <1>1. o \in DOMAIN CreateInstructionMap
    BY Zenon DEF CreateInstructionMap
  <1>2. CreateInstructionMap[o] \in FactoryList /\ CreateInstructionMap[o].instruction = o
    BY <1>1, MapsSuit
  <1>3. CreateInstructionMap[o] = r
    BY <1>2, RowsOnce
  <1> HIDE DEF o
  <1>4. PICK m, g : /\ <<o, m, g>> \in Entries
                    /\ CreateOpcodeMap[o] = [name |-> m, form |-> g]
    BY <1>1, MapsSuit
  <1>5. <<o, m, g>>[1] = o /\ <<o, n, f>>[1] = o
    OBVIOUS
  <1>6. <<o, m, g>> = <<o, n, f>>
    BY <1>4, <1>5, EntriesOnce DEF o
  <1>7. m = n /\ g = f
    BY <1>6
  <1> QED
    BY <1>1, <1>3, <1>4, <1>7 DEF Handler, o

LEMMA FetchDecodes ==
  ASSUME Fetch
  PROVE  LET t == CreateInstructionMap[OpcodeAt(code, pc + 1)] IN
         /\ ir' = Build(t, SubSeq(code, pc + 1, pc + TotalWidth(t)))
         /\ handler' = CreateOpcodeMap[t.instruction]
         /\ pc' = Wrap16(pc + TotalWidth(t))
         /\ pc + TotalWidth(t) <= Len(code)
         /\ UNCHANGED <<code, start, reg, flag, pad, sp, mem, ime, halted>>
  BY Zenon DEF Fetch

(* Fetching an instruction whose first byte is its opcode.                  *)
LEMMA FetchGives ==
  ASSUME IInv, Fetch, NEW r \in FactoryList, NEW n, NEW f, <<r.instruction, n, f>> \in Entries,
         code[pc + 1] = r.instruction, r.instruction # 203, r.instruction # 0,
         Len(code) <= 65535
  PROVE  /\ ir' = Build(r, SubSeq(code, pc + 1, pc + TotalWidth(r)))
         /\ handler' = Handler(n, f) /\ handler' # None
         /\ pc' = pc + TotalWidth(r)
         /\ UNCHANGED <<code, start, reg, flag, pad, sp, mem>>
  <1> DEFINE o == OpcodeAt(code, pc + 1)
             t == CreateInstructionMap[o]
  <1>1. o = r.instruction
    BY DEF OpcodeAt, OpcodeValue
  <1>2. t = r /\ CreateOpcodeMap[t.instruction] = Handler(n, f)
    BY <1>1, TablesGive
  <1>3. /\ ir' = Build(t, SubSeq(code, pc + 1, pc + TotalWidth(t)))
        /\ handler' = CreateOpcodeMap[t.instruction]
        /\ pc' = Wrap16(pc + TotalWidth(t))
        /\ pc + TotalWidth(t) <= Len(code)
        /\ UNCHANGED <<code, start, reg, flag, pad, sp, mem, ime, halted>>
    BY FetchDecodes
  <1> HIDE DEF o, t
  <1>4. pc \in Nat /\ Len(code) \in Nat
    BY CodeBytes DEF IInv, Fetched
  <1>5. TotalWidth(r) \in Nat
    <2>1. r.width \in 1 .. 2 /\ r.left.width \in 0 .. 2 /\ r.right.width \in 0 .. 2
      BY RowsBuilt DEF WellBuilt, Sized
    <2> QED
      BY <2>1 DEF TotalWidth
  <1>6. Wrap16(pc + TotalWidth(r)) = pc + TotalWidth(r)
    BY <1>2, <1>3, <1>4, <1>5 DEF Wrap16
  <1>7. handler' # None
    <2>1. n # "none"
      BY EntrySuits DEF Suits
    <2> QED
      BY <1>2, <1>3, <2>1 DEF Handler, None
  <1> QED
    BY <1>2, <1>3, <1>6, <1>7

(* A program does not change while it runs, and only a fetch follows the    *)
(* end of an instruction.                                                   *)
LEMMA ProgramKept ==
  ASSUME IInv, Next
  PROVE  /\ UNCHANGED <<code, start>>
         /\ handler = None => Fetch
         /\ handler # None => handler' = None /\ pc' = pc
  <1>1. Fetch => UNCHANGED <<code, start>> /\ handler = None
    BY DEF Fetch, IInv, Fetched
  <1>2. AluStep => \E n : Dispatched(n)
    BY Zenon DEF AluStep, Add8Bit, ADC8Bit, Sub8Bit, SBC8Bit, And8Bit, Or8Bit, Xor8Bit, Cp8Bit,
           Inc8Bit, Dec8Bit, Add16Bit, AddSPLiteral, Inc16Bit, Dec16Bit, Accumulate, Modify,
           AssignPair
  <1>3. ControlStep => \E n : Dispatched(n)
    BY Zenon DEF ControlStep, Swap, DAA, CPL, CCF, SCF, NOP, Stop, Halt, DI, EI, Modify, Control
  <1>4. ShiftStep => \E n : Dispatched(n)
    BY Zenon DEF ShiftStep, RLCA, RLA, RRCA, RRA, RLC, RL, RRC, RR, SLA, SRA, SRL, Rotate, Left,
           Right, Accumulate, Modify
  <1>5. BitStep => \E n : Dispatched(n)
    BY Zenon DEF BitStep, Bit, Set, Res
  <1>6. LoadStep => \E n : Dispatched(n)
    BY Zenon DEF LoadStep, LoadN, LoadRR8Bit, LoadRR8BitAddress, LoadRR8BitIntoAddress,
           Load8BitLiteral, LoadAN, LoadAN16BitLiteral, LoadAN8BitLiteral, LoadNA, LoadNAAddress,
           LoadNA16BitLiteral, LoadAC, LoadCA, LoadHNA, LoadHAN, LoadDecAHL, LoadDecHLA,
           LoadIncAHL, LoadIncHLA, LoadNN, LoadSPHL, LoadHLSP, LoadNNSP, Push, Pop, LoadRegister,
           WriteMemory, LoadAndStep, StoreAndStep, AssignPair
  <1>7. ~Fetch => handler.name \in Names
    BY GroupNames DEF Next, Names
  <1>8. ~Fetch => handler # None
    BY <1>7, NoJumpName DEF None
  <1>9. ~Fetch => /\ UNCHANGED <<code, start>> /\ handler' = None /\ pc' = pc
    BY <1>2, <1>3, <1>4, <1>5, <1>6 DEF Next, Dispatched
  <1> QED
    BY <1>1, <1>8, <1>9

LEMMA LoadHandlers ==
  ASSUME IInv, Next
  PROVE  /\ handler.name = "LoadNN" => LoadNN
         /\ handler.name = "LoadRR8Bit" => LoadRR8Bit
         /\ handler.name = "LoadNA" => LoadNA
         /\ handler.name = "Push" => Push
         /\ handler.name = "Pop" => Pop
  <1>1. handler.name \in {"LoadNN", "LoadRR8Bit", "LoadNA", "Push", "Pop"} => LoadStep
    <2>1. handler.name \in LoadNames => ~Fetch
      BY FetchName, NoJumpName DEF Names
    <2>2. handler.name \in LoadNames => LoadStep
      BY <2>1, GroupNames, GroupsApart DEF Next
    <2> QED
      BY <2>2 DEF LoadNames
  <1>2. LoadStep =>
          /\ handler.name = "LoadNN" => LoadNN
          /\ handler.name = "LoadRR8Bit" => LoadRR8Bit
          /\ handler.name = "LoadNA" => LoadNA
          /\ handler.name = "Push" => Push
          /\ handler.name = "Pop" => Pop
    BY DEF LoadStep, LoadN, LoadRR8Bit, LoadRR8BitAddress, LoadRR8BitIntoAddress,
           Load8BitLiteral, LoadAN, LoadAN16BitLiteral, LoadAN8BitLiteral, LoadNA, LoadNAAddress,
           LoadNA16BitLiteral, LoadAC, LoadCA, LoadHNA, LoadHAN, LoadDecAHL, LoadDecHLA,
           LoadIncAHL, LoadIncHLA, LoadNN, LoadSPHL, LoadHLSP, LoadNNSP, Push, Pop, LoadRegister,
           WriteMemory, LoadAndStep, StoreAndStep, AssignPair, Dispatched
  <1> QED
    BY <1>1, <1>2

(* The registers a program starts with stay known.                          *)
Started == start.reg \in RegisterFile /\ start.flag \in FlagBits /\ start.sp \in Word

LEMMA StartKept == Spec => []Started
  <1>1. Init => Started
    <2> SUFFICES ASSUME Init PROVE Started
      OBVIOUS
    <2>1. start.reg = reg /\ start.flag = flag /\ start.sp = sp
      BY DEF Init
    <2>2. reg \in RegisterFile /\ flag \in FlagBits /\ sp \in Word
      BY WidthsAssumption, Zenon DEF Init
    <2> QED
      BY <2>1, <2>2 DEF Started
  <1>2. IInv /\ Started /\ [Next]_vars => Started'
    BY ProgramKept DEF Started, vars
  <1> QED
    BY <1>1, <1>2, InvariantHolds, PTL DEF Spec

PairNames == {"BC", "DE", "HL", "AF"}

LEMMA PairTerms ==
  /\ GetRegisterValue16Bit("BC") = 256 * reg.B + reg.C
  /\ GetRegisterValue16Bit("DE") = 256 * reg.D + reg.E
  /\ GetRegisterValue16Bit("HL") = 256 * reg.H + reg.L
  /\ GetRegisterValue16Bit("AF") = flag.Z + 2 * flag.N + 4 * flag.H + 8 * flag.C + 16 * pad
  /\ GetRegisterValue16Bit("BC")' = 256 * reg'.B + reg'.C
  /\ GetRegisterValue16Bit("DE")' = 256 * reg'.D + reg'.E
  /\ GetRegisterValue16Bit("HL")' = 256 * reg'.H + reg'.L
  /\ GetRegisterValue16Bit("AF")' = flag'.Z + 2 * flag'.N + 4 * flag'.H + 8 * flag'.C + 16 * pad'
  BY Zenon DEF GetRegisterValue16Bit, Register8Bit, rBC, rDE, rHL, rAF

(* A pair assigned holds what was assigned, and the others what they held.  *)
LEMMA PairAssigned ==
  ASSUME Typed, NEW p \in PairNames, NEW v \in Word,
         reg' = RegWith(p, v), flag' = FlagWith(p, v), pad' = PadWith(p, v)
  PROVE  /\ GetRegisterValue16Bit(p)' = v
         /\ \A q \in PairNames \ {p} : GetRegisterValue16Bit(q)' = GetRegisterValue16Bit(q)
         /\ reg'.A = reg.A
  <1>1. v \in Int /\ 0 <= v /\ v <= 65535 /\ reg \in RegisterFile
    BY Bounds DEF Typed
  <1>2. 256 * High(v) + Low(v) = v
    BY <1>1 DEF High, Low
  <1>3. NthBit(v, 1) + 2 * NthBit(v, 2) + 4 * NthBit(v, 4) + 8 * NthBit(v, 8) + 16 * (v \div 16) = v
    BY <1>1 DEF NthBit
  <1>4. /\ RegWith("BC", v) = [reg EXCEPT !.B = High(v), !.C = Low(v)]
        /\ RegWith("DE", v) = [reg EXCEPT !.D = High(v), !.E = Low(v)]
        /\ RegWith("HL", v) = [reg EXCEPT !.H = High(v), !.L = Low(v)]
        /\ RegWith("AF", v) = reg
    BY Zenon DEF RegWith
  <1>5. CASE p = "AF"
    <2>1. reg' = reg /\ pad' = v \div 16
      BY <1>4, <1>5 DEF PadWith
    <2>2. flag'.Z = NthBit(v, 1) /\ flag'.N = NthBit(v, 2) /\ flag'.H = NthBit(v, 4) /\ flag'.C = NthBit(v, 8)
      BY <1>5 DEF FlagWith
    <2> QED
      BY <1>3, <1>5, PairTerms, <2>1, <2>2 DEF PairNames
  <1>6. CASE p = "BC"
    <2>1. flag' = flag /\ pad' = pad
      BY <1>6 DEF FlagWith, PadWith
    <2>2. /\ reg'.B = High(v) /\ reg'.C = Low(v) /\ reg'.A = reg.A
          /\ reg'.D = reg.D /\ reg'.E = reg.E /\ reg'.H = reg.H /\ reg'.L = reg.L
      <3>1. reg' = [reg EXCEPT !.B = High(v), !.C = Low(v)]
        BY <1>4, <1>6
      <3> QED
        BY <1>1, <3>1 DEF RegisterFile
    <2> QED
      BY <1>2, <1>6, PairTerms, <2>1, <2>2 DEF PairNames
  <1>7. CASE p = "DE"
    <2>1. flag' = flag /\ pad' = pad
      BY <1>7 DEF FlagWith, PadWith
    <2>2. /\ reg'.D = High(v) /\ reg'.E = Low(v) /\ reg'.A = reg.A
          /\ reg'.B = reg.B /\ reg'.C = reg.C /\ reg'.H = reg.H /\ reg'.L = reg.L
      <3>1. reg' = [reg EXCEPT !.D = High(v), !.E = Low(v)]
        BY <1>4, <1>7
      <3> QED
        BY <1>1, <3>1 DEF RegisterFile
    <2> QED
      BY <1>2, <1>7, PairTerms, <2>1, <2>2 DEF PairNames
  <1>8. CASE p = "HL"
    <2>1. flag' = flag /\ pad' = pad
      BY <1>8 DEF FlagWith, PadWith
    <2>2. /\ reg'.H = High(v) /\ reg'.L = Low(v) /\ reg'.A = reg.A
          /\ reg'.B = reg.B /\ reg'.C = reg.C /\ reg'.D = reg.D /\ reg'.E = reg.E
      <3>1. reg' = [reg EXCEPT !.H = High(v), !.L = Low(v)]
        BY <1>4, <1>8
      <3> QED
        BY <1>1, <3>1 DEF RegisterFile
    <2> QED
      BY <1>2, <1>8, PairTerms, <2>1, <2>2 DEF PairNames
  <1> QED
    BY <1>5, <1>6, <1>7, <1>8 DEF PairNames

(* The instructions of the stack: a byte each, with a pair in hand.         *)
LEMMA StackTables ==
  ASSUME NEW p \in 0 .. 3
  PROVE  LET push == instr("PUSH", 16 * p + 197, 16, val(Pair(p, "AF")), empty)
             pop == instr("POP", 16 * p + 193, 12, val(Pair(p, "AF")), empty)
         IN  /\ push \in FactoryList /\ push.instruction = PushOf(p)
             /\ pop \in FactoryList /\ pop.instruction = PopOf(p)
             /\ <<PushOf(p), "Push", "Plain">> \in Entries
             /\ <<PopOf(p), "Pop", "Plain">> \in Entries
  <1> DEFINE push == instr("PUSH", 16 * p + 197, 16, val(Pair(p, "AF")), empty)
             pop == instr("POP", 16 * p + 193, 12, val(Pair(p, "AF")), empty)
  <1>1. StackRow(push) /\ StackRow(pop)
    BY Zenon DEF StackRow
  <1>2. push.instruction = 16 * p + 197 /\ pop.instruction = 16 * p + 193
    BY InstrFields
  <1>3. push \in FactoryList /\ pop \in FactoryList
    BY <1>1, StackRowsListed DEF FactoryList
  <1>4. StackEntry(PushOf(p), "Push") /\ StackEntry(PopOf(p), "Pop")
    <2>1. PushOf(p) = 16 * p + 197 /\ PopOf(p) = 16 * p + 193
      BY DEF PushOf, PopOf
    <2>2. \E q \in 0 .. 3 : PushOf(p) = 16 * q + 197
      BY <2>1
    <2>3. \E q \in 0 .. 3 : PopOf(p) = 16 * q + 193
      BY <2>1
    <2> QED
      BY <2>2, <2>3 DEF StackEntry
  <1>5. <<PushOf(p), "Push", "Plain">> \in Entries /\ <<PopOf(p), "Pop", "Plain">> \in Entries
    BY <1>4, StackEntriesListed DEF Entries
  <1> QED
    BY <1>2, <1>3, <1>5 DEF PushOf, PopOf

LEMMA FetchStack ==
  ASSUME IInv, Fetch, Len(code) <= 65535, NEW p \in 0 .. 3
  PROVE  /\ code[pc + 1] = PushOf(p) =>
              handler'.name = "Push" /\ ir'.arg1.reg = Pair(p, "AF")
         /\ code[pc + 1] = PopOf(p) =>
              handler'.name = "Pop" /\ ir'.arg1.reg = Pair(p, "AF")
         /\ code[pc + 1] \in {PushOf(p), PopOf(p)} =>
              /\ handler' # None /\ pc' = pc + 1
              /\ UNCHANGED <<code, start, reg, flag, pad, sp, mem>>
  <1> DEFINE push == instr("PUSH", 16 * p + 197, 16, val(Pair(p, "AF")), empty)
             pop == instr("POP", 16 * p + 193, 12, val(Pair(p, "AF")), empty)
  <1>1. /\ push \in FactoryList /\ push.instruction = PushOf(p)
        /\ pop \in FactoryList /\ pop.instruction = PopOf(p)
    BY StackTables
  <1>2. <<PushOf(p), "Push", "Plain">> \in Entries /\ <<PopOf(p), "Pop", "Plain">> \in Entries
    BY StackTables
  <1>3. /\ push.left = val(Pair(p, "AF")) /\ push.right = empty /\ push.width = 1
        /\ pop.left = val(Pair(p, "AF")) /\ pop.right = empty /\ pop.width = 1
    BY InstrFields
  <1>4. TotalWidth(push) = 1 /\ TotalWidth(pop) = 1
    BY <1>3, ValFields DEF TotalWidth, empty, param
  <1>5. PushOf(p) \notin {0, 203} /\ PopOf(p) \notin {0, 203}
    BY DEF PushOf, PopOf
  <1> HIDE DEF push, pop
  <1>6. ASSUME code[pc + 1] = PushOf(p)
        PROVE  /\ handler'.name = "Push" /\ ir'.arg1.reg = Pair(p, "AF")
               /\ handler' # None /\ pc' = pc + 1
               /\ UNCHANGED <<code, start, reg, flag, pad, sp, mem>>
    <2>1. /\ ir' = Build(push, SubSeq(code, pc + 1, pc + TotalWidth(push)))
          /\ handler' = Handler("Push", "Plain") /\ handler' # None
          /\ pc' = pc + TotalWidth(push)
          /\ UNCHANGED <<code, start, reg, flag, pad, sp, mem>>
      BY <1>1, <1>2, <1>5, <1>6, FetchGives
    <2>2. ir'.arg1.reg = Pair(p, "AF")
      BY <1>3, <2>1, ValFields DEF Build, BuildParameter
    <2> QED
      BY <1>4, <2>1, <2>2 DEF Handler
  <1>7. ASSUME code[pc + 1] = PopOf(p)
        PROVE  /\ handler'.name = "Pop" /\ ir'.arg1.reg = Pair(p, "AF")
               /\ handler' # None /\ pc' = pc + 1
               /\ UNCHANGED <<code, start, reg, flag, pad, sp, mem>>
    <2>1. /\ ir' = Build(pop, SubSeq(code, pc + 1, pc + TotalWidth(pop)))
          /\ handler' = Handler("Pop", "Plain") /\ handler' # None
          /\ pc' = pc + TotalWidth(pop)
          /\ UNCHANGED <<code, start, reg, flag, pad, sp, mem>>
      BY <1>1, <1>2, <1>5, <1>7, FetchGives
    <2>2. ir'.arg1.reg = Pair(p, "AF")
      BY <1>3, <2>1, ValFields DEF Build, BuildParameter
    <2> QED
      BY <1>4, <2>1, <2>2 DEF Handler
  <1> QED
    BY <1>6, <1>7

(* The addresses below the stack pointer the program starts with, and what  *)
(* a pair pushed there leaves.                                              *)
Below(k) == Wrap16(start.sp - k)
Holds(k, v) == Read(Below(k)) = High(v) /\ Read(Below(k - 1)) = Low(v)

LEMMA Addresses ==
  ASSUME Started
  PROVE  /\ \A k \in 0 .. 4 : Below(k) \in Word
         /\ \A k \in 0 .. 2 : Wrap16(Below(k) - 1) = Below(k + 1) /\ Wrap16(Below(k) - 2) = Below(k + 2)
         /\ \A k \in 2 .. 4 : Wrap16(Below(k) + 1) = Below(k - 1) /\ Wrap16(Below(k) + 2) = Below(k - 2)
         /\ \A j, k \in 0 .. 4 : Below(j) = Below(k) => j = k
         /\ Below(0) = start.sp
  <1> DEFINE s == start.sp
  <1>1. s \in Int /\ 0 <= s /\ s <= 65535
    BY Bounds DEF Started
  <1> HIDE DEF s
  <1>2. \A k \in 0 .. 4 : Below(k) = IF k <= s THEN s - k ELSE s - k + 65536
    BY <1>1 DEF Below, Wrap16, s
  <1>3. \A k \in 0 .. 4 : Below(k) \in Word
    BY <1>1, <1>2, Bounds
  <1>4. \A k \in 0 .. 2 : Wrap16(Below(k) - 1) = Below(k + 1) /\ Wrap16(Below(k) - 2) = Below(k + 2)
    BY <1>1, <1>2 DEF Wrap16
  <1>5. \A k \in 2 .. 4 : Wrap16(Below(k) + 1) = Below(k - 1) /\ Wrap16(Below(k) + 2) = Below(k - 2)
    BY <1>1, <1>2 DEF Wrap16
  <1>6. \A j, k \in 0 .. 4 : Below(j) = Below(k) => j = k
    BY <1>1, <1>2
  <1>7. Below(0) = s
    BY <1>1, <1>2
  <1> QED
    BY <1>3, <1>4, <1>5, <1>6, <1>7 DEF s

(* A pair pushed is what is popped from the same place.                     *)
LEMMA Pushed ==
  ASSUME IInv, Started, StackHasRoom, NEW k \in {0, 2}, sp = Below(k), NEW v \in Word,
         mem' = WrittenTwice(Wrap16(sp - 1), Low(v), Wrap16(sp - 2), High(v)),
         UNCHANGED start
  PROVE  Holds(k + 2, v)' /\ \A w : k = 2 /\ Holds(2, w) => Holds(2, w)'
  <1>1. Wrap16(sp - 1) = Below(k + 1) /\ Wrap16(sp - 2) = Below(k + 2)
    BY Addresses
  <1>2. \A j \in 1 .. 4 : Below(j) \in Ram
    BY DEF StackHasRoom, Below
  <1>3. mem' = [x \in Ram |-> IF x = Below(k + 2) THEN High(v)
                              ELSE IF x = Below(k + 1) THEN Low(v) ELSE mem[x]]
    BY <1>1 DEF WrittenTwice
  <1>4. \A j \in 1 .. 4 : Read(Below(j)) = mem[Below(j)] /\ Read(Below(j))' = mem'[Below(j)]
    BY <1>2 DEF Read, Below
  <1>5. \A j \in 1 .. 4 :
          /\ j = k + 2 => Read(Below(j))' = High(v)
          /\ j = k + 1 => Read(Below(j))' = Low(v)
          /\ j \notin {k + 1, k + 2} => Read(Below(j))' = Read(Below(j))
    <2> TAKE j \in 1 .. 4
    <2>1. /\ Below(j) = Below(k + 2) <=> j = k + 2
          /\ Below(j) = Below(k + 1) <=> j = k + 1
      BY Addresses
    <2> QED
      BY <1>2, <1>3, <1>4, <2>1
  <1>6. Read(Below(k + 2))' = High(v) /\ Read(Below(k + 1))' = Low(v)
    BY <1>5
  <1>7. k = 2 => Read(Below(2))' = Read(Below(2)) /\ Read(Below(1))' = Read(Below(1))
    BY <1>5
  <1>8. Holds(k + 2, v)'
    <2>1. (k + 2) - 1 = k + 1
      OBVIOUS
    <2> QED
      BY <1>6, <2>1 DEF Holds
  <1> QED
    BY <1>7, <1>8 DEF Holds

LEMMA Popped ==
  ASSUME Started, NEW k \in {2, 4}, sp = Below(k), NEW v \in Word, Holds(k, v)
  PROVE  PollRegister = v
  <1>1. Wrap16(sp + 1) = Below(k - 1)
    BY Addresses
  <1>2. PollRegister = 256 * High(v) + Low(v)
    BY <1>1 DEF Holds, PollRegister
  <1>3. v \in Int /\ 0 <= v /\ v <= 65535
    BY Bounds
  <1> QED
    BY <1>2, <1>3 DEF High, Low

(* What the registers started with is what they hold until one is popped.   *)
LEMMA StartValues ==
  ASSUME Started
  PROVE  /\ \A p \in PairNames : StartValue(p) \in Word
         /\ reg = start.reg /\ flag = start.flag /\ pad = 0 =>
              \A p \in PairNames : GetRegisterValue16Bit(p) = StartValue(p)
  <1>1. /\ StartValue("BC") = 256 * start.reg.B + start.reg.C
        /\ StartValue("DE") = 256 * start.reg.D + start.reg.E
        /\ StartValue("HL") = 256 * start.reg.H + start.reg.L
        /\ StartValue("AF") = start.flag.Z + 2 * start.flag.N + 4 * start.flag.H + 8 * start.flag.C
    BY Zenon DEF StartValue
  <1>2. /\ start.reg.B \in Byte /\ start.reg.C \in Byte /\ start.reg.D \in Byte
        /\ start.reg.E \in Byte /\ start.reg.H \in Byte /\ start.reg.L \in Byte
    BY DEF Started, RegisterFile
  <1>3. /\ start.flag.Z \in {0, 1} /\ start.flag.N \in {0, 1} /\ start.flag.H \in {0, 1}
        /\ start.flag.C \in {0, 1}
    BY DEF Started, FlagBits
  <1>4. StartValue("BC") \in Word /\ StartValue("DE") \in Word /\ StartValue("HL") \in Word
    <2> HIDE DEF Byte, Word
    <2>1. \A x, y \in Byte : 256 * x + y \in Word
      BY Wrapped, Zenon
    <2>2. 256 * start.reg.B + start.reg.C \in Word
      BY <1>2, <2>1, Zenon
    <2>3. 256 * start.reg.D + start.reg.E \in Word
      BY <1>2, <2>1, Zenon
    <2>4. 256 * start.reg.H + start.reg.L \in Word
      BY <1>2, <2>1, Zenon
    <2> QED
      BY <1>1, <2>2, <2>3, <2>4
  <1>5. StartValue("AF") \in Word
    <2>1. \A z, n, h, c \in {0, 1} : z + 2 * n + 4 * h + 8 * c \in Word
      BY WordBounds
    <2> QED
      BY <1>1, <1>3, <2>1
  <1>6. ASSUME reg = start.reg, flag = start.flag, pad = 0
        PROVE  \A p \in PairNames : GetRegisterValue16Bit(p) = StartValue(p)
    BY <1>1, <1>3, <1>6, PairTerms DEF PairNames
  <1> QED
    BY <1>4, <1>5, <1>6 DEF PairNames

(***************************************************************************)
(* Two pairs pushed and two popped.                                        *)
(***************************************************************************)
Done == IF handler = None THEN pc ELSE pc - 1
Named16(p) == GetRegisterValue16Bit(Pair(p, "AF"))
Started16(p) == StartValue(Pair(p, "AF"))

(* The instruction in hand is the one before rPC.                           *)
StackInHand(p, q, r, s) ==
  handler # None =>
    /\ pc \in 1 .. 4
    /\ pc <= 2 => handler.name = "Push"
    /\ pc >= 3 => handler.name = "Pop"
    /\ pc = 1 => ir.arg1.reg = Pair(p, "AF")
    /\ pc = 2 => ir.arg1.reg = Pair(q, "AF")
    /\ pc = 3 => ir.arg1.reg = Pair(r, "AF")
    /\ pc = 4 => ir.arg1.reg = Pair(s, "AF")

(* What d instructions have done.                                           *)
Moved(d, p, q, r, s) ==
  /\ reg.A = start.reg.A
  /\ d <= 2 => sp = Below(2 * d) /\ reg = start.reg /\ flag = start.flag /\ pad = 0
  /\ d >= 1 => Holds(2, Started16(p))
  /\ d >= 2 => Holds(4, Started16(q))
  /\ d = 3 => sp = Below(2) /\ Named16(r) = Started16(q)
  /\ d = 4 => /\ sp = start.sp /\ Named16(s) = Started16(p)
              /\ r # s => Named16(r) = Started16(q)

Exchange(p, q, r, s) == <<PushOf(p), PushOf(q), PopOf(r), PopOf(s)>>

Exchanging ==
  \A p, q, r, s \in 0 .. 3 :
    code = Exchange(p, q, r, s) /\ StackHasRoom =>
      StackInHand(p, q, r, s) /\ Moved(Done, p, q, r, s)

LEMMA StackPairs ==
  /\ \A p \in 0 .. 3 : Pair(p, "AF") \in PairNames
  /\ \A p, q \in 0 .. 3 : Pair(p, "AF") = Pair(q, "AF") => p = q
  <1>1. Pair(0, "AF") = "BC" /\ Pair(1, "AF") = "DE" /\ Pair(2, "AF") = "HL" /\ Pair(3, "AF") = "AF"
    BY DEF Pair
  <1>2. 0 .. 3 = {0, 1, 2, 3}
    OBVIOUS
  <1> QED
    BY <1>1, <1>2 DEF PairNames

LEMMA MovedKept ==
  ASSUME UNCHANGED <<start, reg, flag, pad, sp, mem>>, NEW d,
         NEW p \in 0 .. 3, NEW q \in 0 .. 3, NEW r \in 0 .. 3, NEW s \in 0 .. 3,
         Moved(d, p, q, r, s)
  PROVE  Moved(d, p, q, r, s)'
  <1>1. \A n \in PairNames : GetRegisterValue16Bit(n)' = GetRegisterValue16Bit(n)
    BY PairTerms DEF PairNames
  <1>2. \A k \in 0 .. 3 : Named16(k)' = Named16(k) /\ Started16(k)' = Started16(k)
    BY <1>1, StackPairs DEF Named16, Started16, StartValue
  <1>3. \A k : \A v : Holds(k, v) => Holds(k, v)'
    BY DEF Holds, Below, Read
  <1>4. /\ Holds(2, Started16(p)) => Holds(2, Started16(p))'
        /\ Holds(4, Started16(q)) => Holds(4, Started16(q))'
    BY <1>2 DEF Holds, Below, Read
  <1>5. \A k : Below(k)' = Below(k)
    BY DEF Below
  <1> QED
    BY <1>2, <1>4, <1>5 DEF Moved

LEMMA ExchangeFetched ==
  ASSUME IInv, Fetch, NEW p \in 0 .. 3, NEW q \in 0 .. 3, NEW r \in 0 .. 3, NEW s \in 0 .. 3,
         code = Exchange(p, q, r, s), Moved(Done, p, q, r, s)
  PROVE  StackInHand(p, q, r, s)' /\ Moved(Done, p, q, r, s)'
  <1>1. handler = None /\ pc \in 0 .. 4 /\ pc < Len(code) /\ Len(code) = 4
    BY DEF Fetch, IInv, Fetched, Exchange
  <1>2. pc \in {0, 1, 2, 3}
    BY <1>1
  <1>3. /\ code[1] = PushOf(p) /\ code[2] = PushOf(q) /\ code[3] = PopOf(r) /\ code[4] = PopOf(s)
        /\ Len(code) <= 65535
    BY <1>1 DEF Exchange
  <1>4. /\ handler' # None /\ pc' = pc + 1
        /\ UNCHANGED <<code, start, reg, flag, pad, sp, mem>>
        /\ pc <= 1 => handler'.name = "Push"
        /\ pc >= 2 => handler'.name = "Pop"
        /\ pc = 0 => ir'.arg1.reg = Pair(p, "AF")
        /\ pc = 1 => ir'.arg1.reg = Pair(q, "AF")
        /\ pc = 2 => ir'.arg1.reg = Pair(r, "AF")
        /\ pc = 3 => ir'.arg1.reg = Pair(s, "AF")
    <2>1. CASE pc = 0
      BY <1>3, <2>1, FetchStack
    <2>2. CASE pc = 1
      BY <1>3, <2>2, FetchStack
    <2>3. CASE pc = 2
      BY <1>3, <2>3, FetchStack
    <2>4. CASE pc = 3
      BY <1>3, <2>4, FetchStack
    <2> QED
      BY <1>2, <2>1, <2>2, <2>3, <2>4
  <1>5. StackInHand(p, q, r, s)'
    BY <1>2, <1>4 DEF StackInHand
  <1>6. Done' = Done
    BY <1>1, <1>2, <1>4 DEF Done
  <1>7. Moved(Done, p, q, r, s)'
    <2> DEFINE d == Done
    <2>1. PICK e : e = d
      OBVIOUS
    <2>2. Moved(e, p, q, r, s)'
      BY <1>4, <2>1, MovedKept
    <2>3. e = Done'
      BY <1>6, <2>1
    <2> QED
      BY <2>2, <2>3 DEF Moved
  <1> QED
    BY <1>5, <1>7

LEMMA ExchangeRuns ==
  ASSUME IInv, Started, StackHasRoom, Next, handler # None,
         NEW p \in 0 .. 3, NEW q \in 0 .. 3, NEW r \in 0 .. 3, NEW s \in 0 .. 3,
         StackInHand(p, q, r, s), Moved(Done, p, q, r, s)
  PROVE  Moved(Done, p, q, r, s)'
  <1>1. /\ UNCHANGED <<code, start>> /\ Done' = pc /\ Done = pc - 1
        /\ pc \in {1, 2, 3, 4}
    <2>1. handler' = None /\ pc' = pc /\ UNCHANGED <<code, start>>
      BY ProgramKept
    <2> QED
      BY <2>1 DEF Done, StackInHand
  <1>2. \A k : Below(k)' = Below(k) /\ Started16(k)' = Started16(k)
    BY <1>1 DEF Below, Started16, StartValue
  <1>3. /\ \A k \in 0 .. 3 : Started16(k) \in Word
        /\ \A k \in 0 .. 3 : Pair(k, "AF") \in PairNames
        /\ \A j, k \in 0 .. 3 : Pair(j, "AF") = Pair(k, "AF") => j = k
    BY StackPairs, StartValues DEF Started16
  <1>4. CASE pc <= 2
    <2>1. Push
      BY <1>1, <1>4, LoadHandlers DEF StackInHand
    <2> DEFINE u == GetRegisterValue16Bit(ir.arg1.reg)
    <2>2. /\ mem' = WrittenTwice(Wrap16(sp - 1), Low(u), Wrap16(sp - 2), High(u))
          /\ sp' = Wrap16(sp - 2)
          /\ UNCHANGED <<reg, flag, pad>>
      BY <2>1, Zenon DEF Push
    <2>3. /\ sp = Below(2 * (pc - 1)) /\ reg = start.reg /\ flag = start.flag /\ pad = 0
          /\ reg.A = start.reg.A
      BY <1>1, <1>4 DEF Moved
    <2>4. \A k \in 0 .. 3 : Named16(k) = Started16(k)
      BY <1>3, <2>3, StartValues DEF Named16, Started16
    <2> HIDE DEF u
    <2>5. CASE pc = 1
      <3> PICK v \in Word : v = Started16(p)
        BY <1>3
      <3>1. u = v /\ sp = Below(0)
        BY <1>1, <2>3, <2>4, <2>5 DEF StackInHand, Named16, u
      <3>2. Holds(2, v)'
        <4>1. Holds(0 + 2, v)'
          BY <1>1, <2>2, <3>1, Pushed
        <4> QED
          BY <4>1
      <3>3. sp' = Below(2)
        BY <2>2, <3>1, Addresses
      <3>4. Holds(2, Started16(p))'
        BY <1>2, <3>1, <3>2 DEF Holds
      <3> QED
        BY <1>1, <1>2, <2>2, <2>3, <2>5, <3>3, <3>4 DEF Moved
    <2>6. CASE pc = 2
      <3> PICK v \in Word : v = Started16(q)
        BY <1>3
      <3> PICK w \in Word : w = Started16(p)
        BY <1>3
      <3>1. u = v /\ sp = Below(2) /\ Holds(2, w)
        BY <1>1, <2>3, <2>4, <2>6 DEF StackInHand, Named16, Moved, u
      <3>2. Holds(4, v)' /\ Holds(2, w)'
        <4>1. Holds(2 + 2, v)' /\ (Holds(2, w) => Holds(2, w)')
          BY <1>1, <2>2, <3>1, Pushed
        <4> QED
          BY <3>1, <4>1
      <3>3. sp' = Below(4)
        BY <2>2, <3>1, Addresses
      <3>4. Holds(4, Started16(q))' /\ Holds(2, Started16(p))'
        BY <1>2, <3>1, <3>2 DEF Holds
      <3> QED
        BY <1>1, <1>2, <2>2, <2>3, <2>6, <3>3, <3>4 DEF Moved
    <2> QED
      BY <1>1, <1>4, <2>5, <2>6
  <1>5. CASE pc >= 3
    <2>1. Pop
      BY <1>1, <1>5, LoadHandlers DEF StackInHand
    <2> PICK n : n = ir.arg1.reg
      OBVIOUS
    <2>2. /\ reg' = RegWith(n, PollRegister) /\ flag' = FlagWith(n, PollRegister)
          /\ pad' = PadWith(n, PollRegister)
          /\ sp' = Wrap16(sp + 2) /\ mem' = mem
      BY <2>1, Zenon DEF Pop
    <2>3. Holds(2, Started16(p)) /\ Holds(4, Started16(q)) /\ reg.A = start.reg.A
      BY <1>1, <1>5 DEF Moved
    <2>4. Holds(2, Started16(p))' /\ Holds(4, Started16(q))'
      BY <1>1, <2>2, <2>3 DEF Holds, Below, Read, Started16, StartValue
    <2>5. ASSUME n \in PairNames, NEW v \in Word, PollRegister = v
          PROVE  /\ GetRegisterValue16Bit(n)' = v /\ reg'.A = reg.A
                 /\ \A m \in PairNames \ {n} : GetRegisterValue16Bit(m)' = GetRegisterValue16Bit(m)
      BY <2>2, <2>5, PairAssigned DEF IInv
    <2>6. CASE pc = 3
      <3>1. n = Pair(r, "AF") /\ sp = Below(4)
        BY <1>1, <2>6 DEF StackInHand, Moved
      <3>2. PollRegister = Started16(q)
        BY <1>3, <2>3, <3>1, Popped
      <3>3. sp' = Below(2)
        BY <2>2, <3>1, Addresses
      <3>4. Named16(r)' = Started16(q) /\ reg'.A = reg.A
        BY <1>3, <2>5, <3>1, <3>2 DEF Named16
      <3> QED
        BY <1>1, <1>2, <2>3, <2>4, <2>6, <3>3, <3>4 DEF Moved
    <2>7. CASE pc = 4
      <3>1. n = Pair(s, "AF") /\ sp = Below(2) /\ Named16(r) = Started16(q)
        BY <1>1, <2>7 DEF StackInHand, Moved
      <3>2. PollRegister = Started16(p)
        BY <1>3, <2>3, <3>1, Popped
      <3>3. sp' = start.sp
        BY <2>2, <3>1, Addresses
      <3>4. Named16(s)' = Started16(p) /\ reg'.A = reg.A
        BY <1>3, <2>5, <3>1, <3>2 DEF Named16
      <3>5. r # s => Named16(r)' = Started16(q)
        BY <1>3, <2>5, <3>1, <3>2 DEF Named16
      <3> QED
        BY <1>1, <1>2, <2>3, <2>4, <2>7, <3>3, <3>4, <3>5 DEF Moved
    <2> QED
      BY <1>1, <1>5, <2>6, <2>7
  <1> QED
    BY <1>1, <1>4, <1>5

LEMMA ExchangeHolds == Spec => []Exchanging
  <1>1. Init => Exchanging
    <2> SUFFICES ASSUME Init, NEW p \in 0 .. 3, NEW q \in 0 .. 3, NEW r \in 0 .. 3, NEW s \in 0 .. 3
                 PROVE  StackInHand(p, q, r, s) /\ Moved(Done, p, q, r, s)
      BY DEF Exchanging
    <2>1. handler = None /\ Done = 0
      BY DEF Init, Done
    <2>2. start.reg = reg /\ start.flag = flag /\ start.sp = sp /\ pad = 0
      BY DEF Init
    <2>3. sp \in Word
      BY WidthsAssumption DEF Init
    <2>4. sp = Below(0)
      BY <2>2, <2>3, Bounds DEF Below, Wrap16
    <2> QED
      BY <2>1, <2>2, <2>4 DEF StackInHand, Moved
  <1>2. IInv /\ Started /\ Exchanging /\ [Next]_vars => Exchanging'
    <2> SUFFICES ASSUME IInv, Started, Exchanging, [Next]_vars,
                        NEW p \in 0 .. 3, NEW q \in 0 .. 3, NEW r \in 0 .. 3, NEW s \in 0 .. 3,
                        (code = Exchange(p, q, r, s))', StackHasRoom'
                 PROVE  StackInHand(p, q, r, s)' /\ Moved(Done, p, q, r, s)'
      BY DEF Exchanging
    <2>1. UNCHANGED <<code, start>>
      BY ProgramKept DEF vars
    <2>2. code = Exchange(p, q, r, s) /\ StackHasRoom
      BY <2>1 DEF StackHasRoom, Exchange, PushOf, PopOf
    <2>3. StackInHand(p, q, r, s) /\ Moved(Done, p, q, r, s)
      BY <2>2 DEF Exchanging
    <2>4. CASE Next /\ handler = None
      BY <2>2, <2>3, <2>4, ProgramKept, ExchangeFetched
    <2>5. CASE Next /\ handler # None
      <3>1. handler' = None
        BY <2>5, ProgramKept
      <3> QED
        BY <2>2, <2>3, <2>5, <3>1, ExchangeRuns DEF StackInHand
    <2>6. CASE UNCHANGED vars
      <3>1. UNCHANGED <<start, reg, flag, pad, sp, mem, pc, handler, ir>>
        BY <2>6 DEF vars
      <3> PICK d : d = Done
        OBVIOUS
      <3>2. Moved(d, p, q, r, s)' /\ Done' = d
        BY <2>3, <3>1, MovedKept DEF Done
      <3> QED
        BY <2>3, <3>1, <3>2 DEF StackInHand, Moved
    <2> QED
      BY <2>4, <2>5, <2>6
  <1> QED
    BY <1>1, <1>2, InvariantHolds, StartKept, PTL DEF Spec

(* Any two pairs pushed and any two popped, where the stack has room: the   *)
(* pairs popped hold what was pushed last, and A and rSP what they held.    *)
THEOREM PairsMoved == Spec => []StackMovesPairs
  <1>1. IInv /\ Exchanging => StackMovesPairs
    <2> SUFFICES ASSUME IInv, Exchanging, Over, StackHasRoom,
                        NEW p \in 0 .. 3, NEW q \in 0 .. 3, NEW r \in 0 .. 3, NEW s \in 0 .. 3,
                        code = Exchange(p, q, r, s)
                 PROVE  /\ Named16(s) = Started16(p)
                        /\ r # s => Named16(r) = Started16(q)
                        /\ sp = start.sp /\ reg.A = start.reg.A
      BY DEF StackMovesPairs, Named16, Started16, Exchange
    <2>1. Done = 4
      BY DEF Over, Done, Exchange
    <2>2. Moved(Done, p, q, r, s)
      BY DEF Exchanging
    <2> QED
      BY <2>1, <2>2 DEF Moved
  <1> QED
    BY <1>1, InvariantHolds, ExchangeHolds, PTL

(***************************************************************************)
(* A sum and a difference of two bytes each.                               *)
(***************************************************************************)

(* An opcode, its handler and what its arguments are built from.            *)
Listing(o, n, left, right) ==
  /\ <<o, n, "Plain">> \in Entries
  /\ \E r \in FactoryList : r.instruction = o /\ r.left = left /\ r.right = right /\ r.width = 1

LEMMA WideListings ==
  /\ Listing(1, "LoadNN", val("BC"), literal(2))
  /\ Listing(33, "LoadNN", val("HL"), literal(2))
  <1> DEFINE bc == instr("LD", 16 * 0 + 1, 12, val(Pair(0, "SP")), literal(2))
             hl == instr("LD", 16 * 2 + 1, 12, val(Pair(2, "SP")), literal(2))
  <1>1. 0 \in 0 .. 3 /\ 2 \in 0 .. 3
    OBVIOUS
  <1>2. WideLoadRow(bc) /\ WideLoadRow(hl)
    BY <1>1, Zenon DEF WideLoadRow
  <1>3. WideLoadEntry(1, "LoadNN") /\ WideLoadEntry(33, "LoadNN")
    <2>1. (\E p \in 0 .. 3 : 1 = 16 * p + 1) /\ (\E p \in 0 .. 3 : 33 = 16 * p + 1)
      OBVIOUS
    <2> QED
      BY <2>1 DEF WideLoadEntry
  <1>4. <<1, "LoadNN", "Plain">> \in Entries /\ <<33, "LoadNN", "Plain">> \in Entries
    BY <1>3, WideLoadEntriesListed DEF Entries
  <1>5. /\ bc.instruction = 1 /\ bc.left = val("BC") /\ bc.right = literal(2) /\ bc.width = 1
        /\ hl.instruction = 33 /\ hl.left = val("HL") /\ hl.right = literal(2) /\ hl.width = 1
    BY InstrFields DEF Pair
  <1>6. bc \in FactoryList /\ hl \in FactoryList
    BY <1>2, WideLoadRowsListed DEF FactoryList
  <1> HIDE DEF bc, hl
  <1> QED
    BY <1>4, <1>5, <1>6 DEF Listing

(* LD between registers: with A on one side, each way has its handler.      *)
LEMMA MoveListings ==
  /\ Listing(125, "LoadRR8Bit", val("A"), val("L"))
  /\ Listing(124, "LoadRR8Bit", val("A"), val("H"))
  /\ Listing(111, "LoadNA", val("L"), val("A"))
  /\ Listing(103, "LoadNA", val("H"), val("A"))
  <1> DEFINE Move(x, y) == instr("LD", 64 + 8 * x + y, IF M \in {x, y} THEN 8 ELSE 4,
                                 operand(x), operand(y))
  <1>1. operand(7) = val("A") /\ operand(5) = val("L") /\ operand(4) = val("H")
    BY DEF operand, M, Register8
  <1>2. ASSUME NEW x \in {4, 5, 7}, NEW y \in {4, 5, 7}
        PROVE  /\ Move(x, y) \in FactoryList /\ Move(x, y).instruction = 64 + 8 * x + y
               /\ Move(x, y).left = operand(x) /\ Move(x, y).right = operand(y)
               /\ Move(x, y).width = 1
    <2>1. x \in 0 .. 7 /\ y \in 0 .. 7 /\ <<x, y>> # <<M, M>>
      BY DEF M
    <2>2. MoveRow(Move(x, y))
      BY <2>1, Zenon DEF MoveRow
    <2>3. Move(x, y) \in FactoryList
      BY <2>2, LoadRowsListed DEF LoadRow, FactoryList
    <2> QED
      BY <2>3, InstrFields
  <1>3. /\ LoadEntry(125, "LoadRR8Bit") /\ LoadEntry(124, "LoadRR8Bit")
        /\ LoadEntry(111, "LoadNA") /\ LoadEntry(103, "LoadNA")
    BY DEF LoadEntry, Registers8, IsA, M
  <1>4. /\ <<125, "LoadRR8Bit", "Plain">> \in Entries /\ <<124, "LoadRR8Bit", "Plain">> \in Entries
        /\ <<111, "LoadNA", "Plain">> \in Entries /\ <<103, "LoadNA", "Plain">> \in Entries
    BY <1>3, LoadEntriesListed DEF Entries
  <1> HIDE DEF Move
  <1>5. /\ Move(7, 5).instruction = 125 /\ Move(7, 4).instruction = 124
        /\ Move(5, 7).instruction = 111 /\ Move(4, 7).instruction = 103
    BY <1>2
  <1> QED
    BY <1>1, <1>2, <1>4, <1>5 DEF Listing

LEMMA SumListings ==
  /\ Listing(129, "Add8Bit", val("A"), val("C")) /\ Listing(145, "Sub8Bit", val("A"), val("C"))
  /\ Listing(136, "ADC8Bit", val("A"), val("B")) /\ Listing(152, "SBC8Bit", val("A"), val("B"))
  <1> DEFINE Of(x, y) == instr(Alu[x + 1], 128 + 8 * x + y, Slow(y, 4, 8), val("A"), operand(y))
  <1>1. operand(0) = val("B") /\ operand(1) = val("C") /\ copy(0) = "Plain" /\ copy(1) = "Plain"
    BY DEF operand, copy, M, Register8
  <1>2. ASSUME NEW x \in {0, 1, 2, 3}, NEW y \in {0, 1}
        PROVE  /\ Of(x, y) \in FactoryList /\ Of(x, y).instruction = 128 + 8 * x + y
               /\ Of(x, y).left = val("A") /\ Of(x, y).right = operand(y) /\ Of(x, y).width = 1
               /\ <<128 + 8 * x + y, AluHandler[x + 1], copy(y)>> \in Entries
    <2>1. x \in 0 .. 7 /\ y \in 0 .. 7
      OBVIOUS
    <2>2. AluRow(Of(x, y))
      BY <2>1, Zenon DEF AluRow
    <2>3. AluEntry(128 + 8 * x + y, AluHandler[x + 1], copy(y))
      BY <2>1, Zenon DEF AluEntry
    <2>4. Of(x, y) \in FactoryList
      BY <2>2, AluRowsListed DEF FactoryList
    <2>5. <<128 + 8 * x + y, AluHandler[x + 1], copy(y)>> \in Entries
      BY <2>3, AluEntriesListed DEF Entries
    <2> QED
      BY <2>4, <2>5, InstrFields
  <1>3. /\ AluHandler[0 + 1] = "Add8Bit" /\ AluHandler[1 + 1] = "ADC8Bit"
        /\ AluHandler[2 + 1] = "Sub8Bit" /\ AluHandler[3 + 1] = "SBC8Bit"
    BY DEF AluHandler
  <1> HIDE DEF Of
  <1>4. /\ Of(0, 1).instruction = 129 /\ <<129, "Add8Bit", "Plain">> \in Entries
        /\ Of(2, 1).instruction = 145 /\ <<145, "Sub8Bit", "Plain">> \in Entries
    <2>1. 128 + 8 * 0 + 1 = 129 /\ 128 + 8 * 2 + 1 = 145
      OBVIOUS
    <2> QED
      BY <1>1, <1>2, <1>3, <2>1
  <1>5. /\ Of(1, 0).instruction = 136 /\ <<136, "ADC8Bit", "Plain">> \in Entries
        /\ Of(3, 0).instruction = 152 /\ <<152, "SBC8Bit", "Plain">> \in Entries
    <2>1. 128 + 8 * 1 + 0 = 136 /\ 128 + 8 * 3 + 0 = 152
      OBVIOUS
    <2> QED
      BY <1>1, <1>2, <1>3, <2>1
  <1> QED
    BY <1>1, <1>2, <1>4, <1>5 DEF Listing

LEMMA BuildFields ==
  ASSUME NEW r, NEW raw
  PROVE  /\ Build(r, raw).arg1 = BuildParameter(r.left, raw)
         /\ Build(r, raw).arg2 = BuildParameter(r.right, raw)
         /\ Build(r, raw).instruction_width_bytes = TotalWidth(r)
  BY DEF Build

(* Fetching an opcode listed.                                               *)
LEMMA FetchListed ==
  ASSUME IInv, Fetch, Len(code) <= 65535, code[pc + 1] \notin {0, 203},
         NEW n, NEW left, NEW right, Listing(code[pc + 1], n, left, right),
         NEW w \in Nat, w = 1 + left.width + right.width
  PROVE  /\ ir'.arg1 = BuildParameter(left, SubSeq(code, pc + 1, pc + w))
         /\ ir'.arg2 = BuildParameter(right, SubSeq(code, pc + 1, pc + w))
         /\ ir'.instruction_width_bytes = w /\ pc' = pc + w
         /\ handler'.name = n /\ handler'.form = "Plain" /\ handler' # None
         /\ UNCHANGED <<code, start, reg, flag, pad, sp, mem>>
  <1>1. PICK r \in FactoryList : /\ r.instruction = code[pc + 1] /\ r.left = left
                                 /\ r.right = right /\ r.width = 1
    BY DEF Listing
  <1>2. TotalWidth(r) = w
    BY <1>1 DEF TotalWidth
  <1>3. /\ ir' = Build(r, SubSeq(code, pc + 1, pc + w))
        /\ handler' = Handler(n, "Plain") /\ handler' # None
        /\ pc' = pc + w
        /\ UNCHANGED <<code, start, reg, flag, pad, sp, mem>>
    BY <1>1, <1>2, FetchGives DEF Listing
  <1>4. /\ ir'.arg1 = BuildParameter(r.left, SubSeq(code, pc + 1, pc + w))
        /\ ir'.arg2 = BuildParameter(r.right, SubSeq(code, pc + 1, pc + w))
        /\ ir'.instruction_width_bytes = TotalWidth(r)
    BY <1>3, BuildFields
  <1> QED
    BY <1>1, <1>2, <1>3, <1>4 DEF Handler

(* What is built of a register, and of the two bytes behind the opcode.     *)
LEMMA BuiltArguments ==
  /\ \A name, raw : /\ BuildParameter(val(name), raw).type = "REGISTER"
                    /\ BuildParameter(val(name), raw).reg = name
  /\ literal(2).width = 2 /\ \A name : val(name).width = 0
  /\ \A raw : /\ BuildParameter(literal(2), raw).type = "VALUE"
              /\ BuildParameter(literal(2), raw).val = RawParam(raw, 2)
  BY DEF BuildParameter, val, literal, param

LEMMA RawWord ==
  ASSUME code \in Seq(Byte), NEW i \in Nat, i + 3 <= Len(code)
  PROVE  RawParam(SubSeq(code, i + 1, i + 3), 2) = code[i + 3] * 256 + code[i + 2]
  <1> DEFINE raw == SubSeq(code, i + 1, i + 3)
  <1>1. Len(raw) = 3 /\ raw[3] = code[i + 3] /\ raw[2] = code[i + 2]
    OBVIOUS
  <1> HIDE DEF raw
  <1> QED
    BY <1>1 DEF RawParam, raw

LEMMA RegisterOperand ==
  ASSUME Typed, NEW a, a.type = "REGISTER", a.reg \in Register8Bit
  PROVE  GetParameterValue8Bit(a) = reg[a.reg]
  <1>1. GetParameterValue16Bit(a) = reg[a.reg]
    BY NamedRegisters DEF GetParameterValue16Bit
  <1>2. reg[a.reg] \in Byte
    BY RegisterValues DEF Typed
  <1> QED
    BY <1>1, <1>2, Bounds DEF GetParameterValue8Bit, Wrap8

Adds == code[8] = 129

WideProgram == LoadsBoth /\ SubSeq(code, 7, 12) \in {SumOfPairs, DifferenceOfPairs}

LEMMA WideBytes ==
  ASSUME code \in Seq(Byte), WideProgram
  PROVE  /\ Len(code) = 12 /\ \A i \in 1 .. 12 : code[i] \in Byte
         /\ code[1] = 1 /\ code[4] = 33 /\ code[7] = 125 /\ code[9] = 111
         /\ code[10] = 124 /\ code[12] = 103
         /\ Adds => code[8] = 129 /\ code[11] = 136
         /\ ~Adds => code[8] = 145 /\ code[11] = 152
         /\ SubSeq(code, 7, 12) = SumOfPairs <=> Adds
         /\ SubSeq(code, 7, 12) = DifferenceOfPairs <=> ~Adds
  <1>1. Len(code) = 12 /\ code[1] = 1 /\ code[4] = 33
    BY DEF WideProgram, LoadsBoth
  <1>2. \A i \in 1 .. 12 : code[i] \in Byte
    <2>1. \A i \in 1 .. Len(code) : code[i] \in Byte
      <3> HIDE DEF Byte
      <3> QED
        OBVIOUS
    <2> QED
      BY <1>1, <2>1, Zenon
  <1> DEFINE rest == SubSeq(code, 7, 12)
  <1>3. /\ rest[1] = code[7] /\ rest[2] = code[8] /\ rest[3] = code[9]
        /\ rest[4] = code[10] /\ rest[5] = code[11] /\ rest[6] = code[12]
    BY <1>1
  <1>4. rest = SumOfPairs \/ rest = DifferenceOfPairs
    BY DEF WideProgram
  <1> HIDE DEF rest
  <1>5. rest = SumOfPairs =>
          /\ rest[1] = 125 /\ rest[2] = 129 /\ rest[3] = 111 /\ rest[4] = 124 /\ rest[5] = 136
          /\ rest[6] = 103
    BY DEF SumOfPairs
  <1>6. rest = DifferenceOfPairs =>
          /\ rest[1] = 125 /\ rest[2] = 145 /\ rest[3] = 111 /\ rest[4] = 124 /\ rest[5] = 152
          /\ rest[6] = 103
    BY DEF DifferenceOfPairs
  <1>7. (rest = SumOfPairs <=> Adds) /\ (rest = DifferenceOfPairs <=> ~Adds)
    BY <1>3, <1>4, <1>5, <1>6 DEF Adds
  <1> QED
    BY <1>1, <1>2, <1>3, <1>5, <1>6, <1>7 DEF rest

(* The bytes of the result, and the carry between them.                     *)
LowResult == IF Adds THEN (code[5] + code[2]) % 256 ELSE (code[5] - code[2]) % 256
CarryLow == IF Adds THEN Flag(code[5] + code[2] > 255) ELSE Flag(code[5] >= code[2])
HighResult ==
  IF Adds THEN (code[6] + code[3] + CarryLow) % 256 ELSE (code[6] - code[3] - CarryLow) % 256

Starts == {0, 3, 6, 7, 8, 9, 10, 11}

(* Where the instruction starts that is in hand, or will be next.           *)
Reached == IF handler = None THEN pc ELSE pc - ir.instruction_width_bytes

FromRegister(a, x) == a.type = "REGISTER" /\ a.reg = x

(* The instruction that starts at each of these places.                     *)
Runs(name, target, source) ==
  handler.name = name /\ ir.arg1.reg = target /\ FromRegister(ir.arg2, source)

WideInHand ==
  handler # None =>
    /\ Reached \in Starts /\ handler.form = "Plain"
    /\ pc = Reached + (IF Reached \in {0, 3} THEN 3 ELSE 1)
    /\ Reached \in {0, 3} =>
         /\ handler.name = "LoadNN" /\ ir.arg2.type = "VALUE"
         /\ ir.arg1.reg = IF Reached = 0 THEN "BC" ELSE "HL"
         /\ ir.arg2.val = code[Reached + 3] * 256 + code[Reached + 2]
    /\ Reached = 6 => Runs("LoadRR8Bit", "A", "L")
    /\ Reached = 7 => Runs(IF Adds THEN "Add8Bit" ELSE "Sub8Bit", "A", "C")
    /\ Reached = 8 => Runs("LoadNA", "L", "A")
    /\ Reached = 9 => Runs("LoadRR8Bit", "A", "H")
    /\ Reached = 10 => Runs(IF Adds THEN "ADC8Bit" ELSE "SBC8Bit", "A", "B")
    /\ Reached = 11 => Runs("LoadNA", "H", "A")

(* What the instructions before k have computed.                            *)
Computed(k) ==
  /\ k >= 3 => reg.B = code[3] /\ reg.C = code[2]
  /\ k \in 6 .. 8 => reg.L = code[5]
  /\ k \in 6 .. 11 => reg.H = code[6]
  /\ k = 7 => reg.A = code[5]
  /\ k = 8 => reg.A = LowResult
  /\ k \in 8 .. 10 => flag.C = CarryLow
  /\ k >= 9 => reg.L = LowResult
  /\ k = 10 => reg.A = code[6]
  /\ k = 11 => reg.A = HighResult
  /\ k = 12 => reg.H = HighResult

Computing ==
  WideProgram => Reached \in Starts \cup {12} /\ WideInHand /\ Computed(Reached)

LEMMA FetchLoadNN ==
  ASSUME IInv, Fetch, WideProgram, pc \in {0, 3}
  PROVE  /\ handler'.name = "LoadNN" /\ ir'.arg1.reg = (IF pc = 0 THEN "BC" ELSE "HL")
         /\ ir'.arg2.type = "VALUE" /\ ir'.arg2.val = code[pc + 3] * 256 + code[pc + 2]
         /\ ir'.instruction_width_bytes = 3 /\ pc' = pc + 3
         /\ handler'.form = "Plain" /\ handler' # None
         /\ UNCHANGED <<code, start, reg, flag, pad, sp, mem>>
  <1>1. code \in Seq(Byte)
    BY CodeBytes DEF IInv, Fetched
  <1>2. Len(code) = 12 /\ code[1] = 1 /\ code[4] = 33
    BY <1>1, WideBytes
  <1> DEFINE n == IF pc = 0 THEN "BC" ELSE "HL"
             raw == SubSeq(code, pc + 1, pc + 3)
  <1>3. Listing(code[pc + 1], "LoadNN", val(n), literal(2)) /\ code[pc + 1] \notin {0, 203}
    <2>1. CASE pc = 0
      BY <1>2, <2>1, WideListings
    <2>2. CASE pc = 3
      BY <1>2, <2>2, WideListings
    <2> QED
      BY <2>1, <2>2
  <1>4. 3 = 1 + val(n).width + literal(2).width
    BY BuiltArguments
  <1>5. RawParam(raw, 2) = code[pc + 3] * 256 + code[pc + 2]
    BY <1>1, <1>2, RawWord
  <1> HIDE DEF n, raw
  <1>6. /\ ir'.arg1 = BuildParameter(val(n), raw) /\ ir'.arg2 = BuildParameter(literal(2), raw)
        /\ ir'.instruction_width_bytes = 3 /\ pc' = pc + 3
        /\ handler'.name = "LoadNN" /\ handler'.form = "Plain" /\ handler' # None
        /\ UNCHANGED <<code, start, reg, flag, pad, sp, mem>>
    BY <1>2, <1>3, <1>4, FetchListed DEF raw
  <1> QED
    BY <1>5, <1>6, BuiltArguments DEF n

LEMMA FetchRegisters ==
  ASSUME IInv, Fetch, WideProgram, code[pc + 1] \notin {0, 203},
         NEW name, NEW target, NEW source,
         Listing(code[pc + 1], name, val(target), val(source))
  PROVE  /\ Runs(name, target, source)'
         /\ ir'.instruction_width_bytes = 1 /\ pc' = pc + 1
         /\ handler'.form = "Plain" /\ handler' # None
         /\ UNCHANGED <<code, start, reg, flag, pad, sp, mem>>
  <1>1. Len(code) = 12
    BY DEF WideProgram, LoadsBoth
  <1>2. 1 = 1 + val(target).width + val(source).width
    BY BuiltArguments
  <1> DEFINE raw == SubSeq(code, pc + 1, pc + 1)
  <1>3. /\ ir'.arg1 = BuildParameter(val(target), raw)
        /\ ir'.arg2 = BuildParameter(val(source), raw)
        /\ ir'.instruction_width_bytes = 1 /\ pc' = pc + 1
        /\ handler'.name = name /\ handler'.form = "Plain" /\ handler' # None
        /\ UNCHANGED <<code, start, reg, flag, pad, sp, mem>>
    BY <1>1, <1>2, FetchListed
  <1> HIDE DEF raw
  <1> QED
    BY <1>3, BuiltArguments DEF Runs, FromRegister

LEMMA WideFetched ==
  ASSUME IInv, Fetch, WideProgram, Reached \in Starts \cup {12}, Computed(Reached)
  PROVE  Reached' \in Starts \cup {12} /\ WideInHand' /\ Computed(Reached)'
  <1>1. handler = None /\ Reached = pc /\ pc < Len(code) /\ code \in Seq(Byte)
    BY CodeBytes DEF Fetch, IInv, Fetched, Reached
  <1>2. pc \in Starts
    BY <1>1 DEF WideProgram, LoadsBoth, Starts
  <1>3. /\ code[7] = 125 /\ code[9] = 111 /\ code[10] = 124 /\ code[12] = 103
        /\ Adds => code[8] = 129 /\ code[11] = 136
        /\ ~Adds => code[8] = 145 /\ code[11] = 152
    BY <1>1, WideBytes
  <1>4. /\ UNCHANGED <<code, start, reg, flag, pad, sp, mem>>
        /\ handler' # None /\ handler'.form = "Plain"
        /\ pc' = pc + (IF pc \in {0, 3} THEN 3 ELSE 1)
        /\ ir'.instruction_width_bytes = IF pc \in {0, 3} THEN 3 ELSE 1
        /\ pc \in {0, 3} =>
             /\ handler'.name = "LoadNN" /\ ir'.arg2.type = "VALUE"
             /\ ir'.arg1.reg = IF pc = 0 THEN "BC" ELSE "HL"
             /\ ir'.arg2.val = code[pc + 3] * 256 + code[pc + 2]
        /\ pc = 6 => Runs("LoadRR8Bit", "A", "L")'
        /\ pc = 7 /\ Adds => Runs("Add8Bit", "A", "C")'
        /\ pc = 7 /\ ~Adds => Runs("Sub8Bit", "A", "C")'
        /\ pc = 8 => Runs("LoadNA", "L", "A")'
        /\ pc = 9 => Runs("LoadRR8Bit", "A", "H")'
        /\ pc = 10 /\ Adds => Runs("ADC8Bit", "A", "B")'
        /\ pc = 10 /\ ~Adds => Runs("SBC8Bit", "A", "B")'
        /\ pc = 11 => Runs("LoadNA", "H", "A")'
    <2>1. CASE pc \in {0, 3}
      BY <2>1, FetchLoadNN
    <2>2. CASE pc = 6
      BY <1>3, <2>2, FetchRegisters, MoveListings
    <2>3. CASE pc = 7
      BY <1>3, <2>3, FetchRegisters, SumListings
    <2>4. CASE pc = 8
      BY <1>3, <2>4, FetchRegisters, MoveListings
    <2>5. CASE pc = 9
      BY <1>3, <2>5, FetchRegisters, MoveListings
    <2>6. CASE pc = 10
      BY <1>3, <2>6, FetchRegisters, SumListings
    <2>7. CASE pc = 11
      BY <1>3, <2>7, FetchRegisters, MoveListings
    <2> QED
      BY <1>2, <2>1, <2>2, <2>3, <2>4, <2>5, <2>6, <2>7 DEF Starts
  <1>5. Reached' = pc /\ (Adds' <=> Adds)
    BY <1>2, <1>4 DEF Reached, Starts, Adds
  <1>6. WideInHand'
    BY <1>2, <1>4, <1>5 DEF WideInHand
  <1>7. LowResult' = LowResult /\ CarryLow' = CarryLow /\ HighResult' = HighResult
    BY <1>4 DEF LowResult, CarryLow, HighResult, Adds
  <1>8. Computed(Reached)'
    BY <1>1, <1>4, <1>5, <1>7 DEF Computed
  <1> QED
    BY <1>2, <1>5, <1>6, <1>8

(* What the instructions of these programs do.                              *)
SameBut(r) == \A x \in Register8Bit \ {r} : reg'[x] = reg[x]

LEMMA SumRuns ==
  ASSUME IInv, Next, handler.form = "Plain", NEW x \in Register8Bit, FromRegister(ir.arg2, x),
         handler.name \in {"Add8Bit", "ADC8Bit", "Sub8Bit", "SBC8Bit"}
  PROVE  /\ SameBut("A")
         /\ handler.name = "Add8Bit" => /\ reg'.A = (reg.A + reg[x]) % 256
                                        /\ flag'.C = Flag(reg.A + reg[x] > 255)
         /\ handler.name = "ADC8Bit" => reg'.A = (reg.A + reg[x] + flag.C) % 256
         /\ handler.name = "Sub8Bit" => /\ reg'.A = (reg.A - reg[x]) % 256
                                        /\ flag'.C = Flag(reg.A >= reg[x])
         /\ handler.name = "SBC8Bit" => reg'.A = (reg.A - reg[x] - flag.C) % 256
  <1>1. /\ reg \in RegisterFile /\ reg[x] \in Byte /\ reg.A \in Byte /\ Typed
        /\ flag.C \in {0, 1}
    BY RegisterValues DEF IInv, Typed, FlagBits
  <1>2. Operand(ir.arg2) = reg[x]
    BY <1>1, RegisterOperand DEF Operand, FromRegister
  <1>3. \E n, result, k, h, c : Accumulate(n, result, k, h, Flag(c))
    BY ArithmeticHandlers, Zenon DEF Add8Bit, ADC8Bit, Sub8Bit, SBC8Bit
  <1>4. SameBut("A") /\ flag'.C \in {0, 1}
    <2> PICK n, result, k, h, c : Accumulate(n, result, k, h, Flag(c))
      BY <1>3
    <2>1. reg' = [reg EXCEPT !.A = result] /\ flag'.C = Flag(c)
      BY DEF Accumulate, SetFlags
    <2>2. DOMAIN reg = Register8Bit
      BY <1>1 DEF RegisterFile, Register8Bit
    <2> QED
      BY <2>1, <2>2, FlagValue DEF SameBut
  <1>5. handler.name \in Adding => SumExact(reg[x], CarryIn)
    BY <1>2, SumsExact
  <1>6. handler.name \in Subtracting => DifferenceExact(reg[x], CarryIn)
    BY <1>2, DifferencesExact
  <1> PICK v \in Byte, a \in Byte, k \in {0, 1} : v = reg[x] /\ a = reg.A /\ k = flag.C
    BY <1>1
  <1>7. v \in 0 .. 255 /\ a \in 0 .. 255
    BY DEF Byte
  <1>8. ASSUME handler.name = "Add8Bit"
        PROVE  reg'.A = (a + v) % 256 /\ flag'.C = Flag(a + v > 255)
    <2>1. CarryIn = 0 /\ handler.name \in Adding
      BY <1>8 DEF CarryIn, Adding
    <2>2. reg'.A = (a + v + 0) % 256 /\ (v + 0 <= 255 => (flag'.C = 1 <=> a + v + 0 > 255))
      BY <1>5, <2>1, Zenon DEF SumExact
    <2> QED
      BY <1>4, <1>7, <2>2 DEF Flag
  <1>9. ASSUME handler.name = "ADC8Bit" PROVE reg'.A = (a + v + k) % 256
    <2>1. CarryIn = flag.C /\ handler.name \in Adding
      BY <1>9 DEF CarryIn, Adding
    <2> QED
      BY <1>5, <2>1, Zenon DEF SumExact
  <1>10. ASSUME handler.name = "Sub8Bit"
         PROVE  reg'.A = (a - v) % 256 /\ flag'.C = Flag(a >= v)
    <2>1. CarryIn = 0 /\ handler.name \in Subtracting /\ handler.name # "Cp8Bit"
      BY <1>10 DEF CarryIn, Subtracting
    <2>2. reg'.A = (a - v - 0) % 256 /\ (v + 0 <= 255 => (flag'.C = 1 <=> a >= v + 0))
      BY <1>6, <2>1 DEF DifferenceExact
    <2> QED
      BY <1>4, <1>7, <2>2 DEF Flag
  <1>11. ASSUME handler.name = "SBC8Bit" PROVE reg'.A = (a - v - k) % 256
    <2>1. CarryIn = flag.C /\ handler.name \in Subtracting /\ handler.name # "Cp8Bit"
      BY <1>11 DEF CarryIn, Subtracting
    <2> QED
      BY <1>6, <2>1 DEF DifferenceExact
  <1> QED
    BY <1>4, <1>8, <1>9, <1>10, <1>11

LEMMA RegisterRuns ==
  ASSUME IInv, Next, NEW r \in Register8Bit, ir.arg1.reg = r
  PROVE  /\ \A x \in Register8Bit : handler.name = "LoadRR8Bit" /\ FromRegister(ir.arg2, x) =>
              SameBut(r) /\ reg'[r] = reg[x] /\ flag' = flag
         /\ handler.name = "LoadNA" => SameBut(r) /\ reg'[r] = reg.A /\ flag' = flag
  <1>1. reg \in RegisterFile /\ DOMAIN reg = Register8Bit /\ Typed
    BY DEF IInv, Typed, RegisterFile, Register8Bit
  <1>2. \A x \in Register8Bit : reg[x] \in Byte /\ Wrap8(reg[x]) = reg[x]
    BY <1>1, RegisterValues, Bounds DEF Wrap8
  <1>3. ASSUME NEW x \in Register8Bit, handler.name = "LoadRR8Bit", FromRegister(ir.arg2, x)
        PROVE  SameBut(r) /\ reg'[r] = reg[x] /\ flag' = flag
    <2>1. GetParameterValue8Bit(ir.arg2) = reg[x]
      BY <1>1, <1>3, RegisterOperand DEF FromRegister
    <2>2. reg' = [reg EXCEPT ![r] = reg[x]] /\ flag' = flag
      BY <1>2, <1>3, <2>1, LoadHandlers DEF LoadRR8Bit, LoadRegister
    <2> QED
      BY <1>1, <2>2 DEF SameBut
  <1>4. ASSUME handler.name = "LoadNA"
        PROVE  SameBut(r) /\ reg'[r] = reg.A /\ flag' = flag
    <2>1. Wrap8(reg.A) = reg.A
      BY <1>2 DEF Register8Bit
    <2>2. reg' = [reg EXCEPT ![r] = reg.A] /\ flag' = flag
      BY <1>4, <2>1, LoadHandlers DEF LoadNA, LoadRegister
    <2> QED
      BY <1>1, <2>2 DEF SameBut
  <1> QED
    BY <1>3, <1>4

LEMMA PairRuns ==
  ASSUME IInv, Next, handler.name = "LoadNN", ir.arg2.type = "VALUE",
         NEW hi \in Byte, NEW lo \in Byte, ir.arg2.val = hi * 256 + lo
  PROVE  /\ ir.arg1.reg = "BC" => reg'.B = hi /\ reg'.C = lo
         /\ ir.arg1.reg = "HL" => reg'.H = hi /\ reg'.L = lo /\ reg'.B = reg.B /\ reg'.C = reg.C
  <1> DEFINE v == hi * 256 + lo
  <1>1. hi \in 0 .. 255 /\ lo \in 0 .. 255
    BY DEF Byte
  <1>2. High(v) = hi /\ Low(v) = lo
    BY <1>1 DEF High, Low
  <1> HIDE DEF v
  <1>3. GetParameterValue16Bit(ir.arg2) = v
    BY DEF GetParameterValue16Bit, v
  <1>4. reg' = RegWith(ir.arg1.reg, v)
    BY <1>3, LoadHandlers, Zenon DEF LoadNN, AssignPair
  <1>5. /\ RegWith("BC", v) = [reg EXCEPT !.B = High(v), !.C = Low(v)]
        /\ RegWith("HL", v) = [reg EXCEPT !.H = High(v), !.L = Low(v)]
    BY Zenon DEF RegWith
  <1>6. reg \in RegisterFile
    BY DEF IInv, Typed
  <1>7. ASSUME ir.arg1.reg = "BC" PROVE reg'.B = hi /\ reg'.C = lo
    <2>1. reg' = [reg EXCEPT !.B = hi, !.C = lo]
      BY <1>2, <1>4, <1>5, <1>7
    <2> QED
      BY <1>6, <2>1 DEF RegisterFile
  <1>8. ASSUME ir.arg1.reg = "HL"
        PROVE  reg'.H = hi /\ reg'.L = lo /\ reg'.B = reg.B /\ reg'.C = reg.C
    <2>1. reg' = [reg EXCEPT !.H = hi, !.L = lo]
      BY <1>2, <1>4, <1>5, <1>8
    <2> QED
      BY <1>6, <2>1 DEF RegisterFile
  <1> QED
    BY <1>7, <1>8

(* Two bytes each, added and subtracted as the handlers do.                 *)
AddedUp(h, l, b, c) ==
  256 * ((h + b + Flag(l + c > 255)) % 256) + ((l + c) % 256)
    = Wrap16((l + 256 * h) + (c + 256 * b))
TakenAway(h, l, b, c) ==
  LET difference == 256 * ((h - b - Flag(l >= c)) % 256) + ((l - c) % 256)
  IN  /\ l < c => difference = Wrap16((l + 256 * h) - (c + 256 * b) + 256)
      /\ l >= c => difference = Wrap16((l + 256 * h) - (c + 256 * b) - 256)

LEMMA PairArithmetic ==
  ASSUME NEW h \in 0 .. 255, NEW l \in 0 .. 255, NEW b \in 0 .. 255, NEW c \in 0 .. 255
  PROVE  AddedUp(h, l, b, c) /\ TakenAway(h, l, b, c)
  <1>1. ASSUME NEW x \in Int
        PROVE  /\ 0 <= x /\ x <= 65535 => Wrap16(x) = x
               /\ 0 <= x - 65536 /\ x - 65536 <= 65535 => Wrap16(x) = x - 65536
               /\ 0 <= x + 65536 /\ x + 65536 <= 65535 => Wrap16(x) = x + 65536
    <2>1. 0 <= x /\ x <= 65535 => Wrap16(x) = x
      BY DEF Wrap16
    <2>2. 0 <= x - 65536 /\ x - 65536 <= 65535 => Wrap16(x) = x - 65536
      BY DEF Wrap16
    <2>3. 0 <= x + 65536 /\ x + 65536 <= 65535 => Wrap16(x) = x + 65536
      BY DEF Wrap16
    <2> QED
      BY <2>1, <2>2, <2>3
  <1>2. ASSUME NEW x \in Int, NEW y \in Int,
               0 <= x + 256, x < 512, 0 <= y + 256, y < 512
        PROVE  256 * (x % 256) + (y % 256) = Wrap16(256 * x + (y % 256))
    <2> DEFINE z == y % 256
    <2>1. z \in Int /\ 0 <= z /\ z <= 255
      OBVIOUS
    <2> HIDE DEF z
    <2> DEFINE s == 256 * x + z
    <2>2. s \in Int
      BY <2>1
    <2>3. CASE x < 0
      <3>1. x % 256 = x + 256
        BY <1>2, <2>3
      <3>2. 0 <= s + 65536 /\ s + 65536 <= 65535
        BY <1>2, <2>1, <2>3
      <3>3. Wrap16(s) = s + 65536
        BY <1>1, <2>2, <3>2
      <3> QED
        BY <2>1, <3>1, <3>3 DEF z
    <2>4. CASE 0 <= x /\ x < 256
      <3>1. x % 256 = x
        BY <2>4
      <3>2. 0 <= s /\ s <= 65535
        BY <2>1, <2>4
      <3>3. Wrap16(s) = s
        BY <1>1, <2>2, <3>2
      <3> QED
        BY <2>1, <3>1, <3>3 DEF z
    <2>5. CASE 256 <= x
      <3>1. x % 256 = x - 256
        BY <1>2, <2>5
      <3>2. 0 <= s - 65536 /\ s - 65536 <= 65535
        BY <1>2, <2>1, <2>5
      <3>3. Wrap16(s) = s - 65536
        BY <1>1, <2>2, <3>2
      <3> QED
        BY <2>1, <3>1, <3>3 DEF z
    <2> QED
      BY <2>3, <2>4, <2>5
  <1>3. 256 * ((h + b + (IF l + c > 255 THEN 1 ELSE 0)) % 256) + ((l + c) % 256)
          = Wrap16((l + 256 * h) + (c + 256 * b))
    <2>1. CASE l + c > 255
      <3>1. (l + c) % 256 = l + c - 256 /\ (IF l + c > 255 THEN 1 ELSE 0) = 1
        BY <2>1
      <3>2. 256 * ((h + b + 1) % 256) + ((l + c) % 256)
              = Wrap16(256 * (h + b + 1) + ((l + c) % 256))
        BY <1>2
      <3>3. 256 * (h + b + 1) + (l + c - 256) = (l + 256 * h) + (c + 256 * b)
        OBVIOUS
      <3> QED
        BY <3>1, <3>2, <3>3
    <2>2. CASE l + c <= 255
      <3>1. (l + c) % 256 = l + c /\ (IF l + c > 255 THEN 1 ELSE 0) = 0 /\ h + b + 0 = h + b
        BY <2>2
      <3>2. 256 * ((h + b) % 256) + ((l + c) % 256) = Wrap16(256 * (h + b) + ((l + c) % 256))
        BY <1>2
      <3>3. 256 * (h + b) + (l + c) = (l + 256 * h) + (c + 256 * b)
        OBVIOUS
      <3> QED
        BY <3>1, <3>2, <3>3
    <2> QED
      BY <2>1, <2>2
  <1> DEFINE difference == 256 * ((h - b - (IF l >= c THEN 1 ELSE 0)) % 256) + ((l - c) % 256)
  <1>4. /\ l < c => difference = Wrap16((l + 256 * h) - (c + 256 * b) + 256)
        /\ l >= c => difference = Wrap16((l + 256 * h) - (c + 256 * b) - 256)
    <2>1. CASE l >= c
      <3>1. (l - c) % 256 = l - c /\ (IF l >= c THEN 1 ELSE 0) = 1
        BY <2>1
      <3>2. 256 * ((h - b - 1) % 256) + ((l - c) % 256)
              = Wrap16(256 * (h - b - 1) + ((l - c) % 256))
        <4> DEFINE x == h - b - 1
                   y == l - c
        <4>1. x \in Int /\ y \in Int /\ 0 <= x + 256 /\ x < 512 /\ 0 <= y + 256 /\ y < 512
          OBVIOUS
        <4> HIDE DEF x, y
        <4>2. 256 * (x % 256) + (y % 256) = Wrap16(256 * x + (y % 256))
          BY <1>2, <4>1
        <4> QED
          BY <4>2 DEF x, y
      <3>3. 256 * (h - b - 1) + (l - c) = (l + 256 * h) - (c + 256 * b) - 256
        OBVIOUS
      <3> QED
        BY <3>1, <3>2, <3>3
    <2>2. CASE l < c
      <3>1. (l - c) % 256 = l - c + 256 /\ (IF l >= c THEN 1 ELSE 0) = 0 /\ h - b - 0 = h - b
        BY <2>2
      <3>2. 256 * ((h - b) % 256) + ((l - c) % 256) = Wrap16(256 * (h - b) + ((l - c) % 256))
        BY <1>2
      <3>3. 256 * (h - b) + (l - c + 256) = (l + 256 * h) - (c + 256 * b) + 256
        OBVIOUS
      <3> QED
        BY <2>2, <3>1, <3>2, <3>3
    <2> QED
      BY <2>1, <2>2
  <1>5. AddedUp(h, l, b, c)
    BY <1>3 DEF AddedUp, Flag
  <1>6. TakenAway(h, l, b, c)
    BY <1>4 DEF TakenAway, Flag
  <1> QED
    BY <1>5, <1>6

LEMMA WideRuns ==
  ASSUME IInv, Next, handler # None, WideProgram, WideInHand, Computed(Reached)
  PROVE  Reached' \in Starts \cup {12} /\ WideInHand' /\ Computed(Reached)'
  <1>1. handler' = None /\ pc' = pc /\ UNCHANGED <<code, start>>
    BY ProgramKept
  <1>2. code \in Seq(Byte)
    BY CodeBytes DEF IInv, Fetched
  <1>3. /\ Reached' = pc /\ Reached \in Starts /\ handler.form = "Plain"
        /\ pc = Reached + (IF Reached \in {0, 3} THEN 3 ELSE 1)
    BY <1>1 DEF Reached, WideInHand
  <1>4. Reached' \in Starts \cup {12} /\ WideInHand'
    BY <1>1, <1>3 DEF Starts, WideInHand
  <1>5. /\ LowResult' = LowResult /\ CarryLow' = CarryLow /\ HighResult' = HighResult
        /\ (Adds' <=> Adds)
    BY <1>1 DEF LowResult, CarryLow, HighResult, Adds
  <1>6. /\ {"A", "B", "C", "H", "L"} \subseteq Register8Bit
        /\ \A r : SameBut(r) => \A x \in {"A", "B", "C", "H", "L"} : x # r => reg'[x] = reg[x]
    BY DEF SameBut, Register8Bit
  <1>7. code[2] \in Byte /\ code[3] \in Byte /\ code[5] \in Byte /\ code[6] \in Byte
    <2>1. \A i \in 1 .. 12 : code[i] \in Byte
      BY <1>2, WideBytes
    <2> HIDE DEF Byte
    <2> QED
      BY <2>1
  <1>8. CASE Reached = 0
    <2>1. reg'.B = code[3] /\ reg'.C = code[2]
      BY <1>7, <1>8, PairRuns DEF WideInHand
    <2> QED
      BY <1>1, <1>3, <1>4, <1>5, <1>8, <2>1 DEF Computed
  <1>9. CASE Reached = 3
    <2>1. reg'.H = code[6] /\ reg'.L = code[5] /\ reg'.B = reg.B /\ reg'.C = reg.C
      BY <1>7, <1>9, PairRuns DEF WideInHand
    <2> QED
      BY <1>1, <1>3, <1>4, <1>5, <1>9, <2>1 DEF Computed
  <1>10. CASE Reached = 6
    <2>1. SameBut("A") /\ reg'.A = reg.L
      BY <1>6, <1>10, RegisterRuns DEF WideInHand, Runs
    <2> QED
      BY <1>1, <1>3, <1>4, <1>5, <1>6, <1>10, <2>1 DEF Computed
  <1>11. CASE Reached = 7
    <2>1. SameBut("A") /\ reg'.A = LowResult /\ flag'.C = CarryLow
      <3>1. reg.A = code[5] /\ reg.C = code[2]
        BY <1>11 DEF Computed
      <3>2. /\ handler.name = (IF Adds THEN "Add8Bit" ELSE "Sub8Bit")
            /\ FromRegister(ir.arg2, "C")
        BY <1>11 DEF WideInHand, Runs
      <3> QED
        BY <1>3, <1>6, <3>1, <3>2, SumRuns DEF LowResult, CarryLow
    <2> QED
      BY <1>1, <1>3, <1>4, <1>5, <1>6, <1>11, <2>1 DEF Computed
  <1>12. CASE Reached = 8
    <2>1. SameBut("L") /\ reg'.L = reg.A /\ flag' = flag
      BY <1>6, <1>12, RegisterRuns DEF WideInHand, Runs
    <2> QED
      BY <1>1, <1>3, <1>4, <1>5, <1>6, <1>12, <2>1 DEF Computed
  <1>13. CASE Reached = 9
    <2>1. SameBut("A") /\ reg'.A = reg.H /\ flag' = flag
      BY <1>6, <1>13, RegisterRuns DEF WideInHand, Runs
    <2> QED
      BY <1>1, <1>3, <1>4, <1>5, <1>6, <1>13, <2>1 DEF Computed
  <1>14. CASE Reached = 10
    <2>1. SameBut("A") /\ reg'.A = HighResult
      <3>1. reg.A = code[6] /\ reg.B = code[3] /\ flag.C = CarryLow
        BY <1>14 DEF Computed
      <3>2. /\ handler.name = (IF Adds THEN "ADC8Bit" ELSE "SBC8Bit")
            /\ FromRegister(ir.arg2, "B")
        BY <1>14 DEF WideInHand, Runs
      <3> QED
        BY <1>3, <1>6, <3>1, <3>2, SumRuns DEF HighResult
    <2> QED
      BY <1>1, <1>3, <1>4, <1>5, <1>6, <1>14, <2>1 DEF Computed
  <1>15. CASE Reached = 11
    <2>1. SameBut("H") /\ reg'.H = reg.A /\ flag' = flag
      BY <1>6, <1>15, RegisterRuns DEF WideInHand, Runs
    <2> QED
      BY <1>1, <1>3, <1>4, <1>5, <1>6, <1>15, <2>1 DEF Computed
  <1> QED
    BY <1>3, <1>8, <1>9, <1>10, <1>11, <1>12, <1>13, <1>14, <1>15 DEF Starts

LEMMA WideHolds == Spec => []Computing
  <1>1. Init => Computing
    <2> SUFFICES ASSUME Init PROVE Computing
      OBVIOUS
    <2>1. handler = None /\ Reached = 0
      BY DEF Init, Reached
    <2> QED
      BY <2>1 DEF Computing, WideInHand, Computed, Starts
  <1>2. IInv /\ Computing /\ [Next]_vars => Computing'
    <2> SUFFICES ASSUME IInv, Computing, [Next]_vars, WideProgram'
                 PROVE  Reached' \in Starts \cup {12} /\ WideInHand' /\ Computed(Reached)'
      BY DEF Computing
    <2>1. UNCHANGED <<code, start>>
      BY ProgramKept DEF vars
    <2>2. WideProgram
      BY <2>1 DEF WideProgram, LoadsBoth
    <2>3. Reached \in Starts \cup {12} /\ WideInHand /\ Computed(Reached)
      BY <2>2 DEF Computing
    <2>4. CASE Next /\ handler = None
      BY <2>2, <2>3, <2>4, ProgramKept, WideFetched
    <2>5. CASE Next /\ handler # None
      BY <2>2, <2>3, <2>5, WideRuns
    <2>6. CASE UNCHANGED vars
      <3>1. UNCHANGED <<code, reg, flag, pc, handler, ir>>
        BY <2>6 DEF vars
      <3>2. Reached' = Reached /\ (Adds' <=> Adds)
        BY <3>1 DEF Reached, Adds
      <3>3. LowResult' = LowResult /\ CarryLow' = CarryLow /\ HighResult' = HighResult
        BY <3>1 DEF LowResult, CarryLow, HighResult, Adds
      <3>4. Computed(Reached)'
        BY <2>3, <3>1, <3>2, <3>3 DEF Computed
      <3>5. WideInHand'
        BY <2>3, <3>1, <3>2 DEF WideInHand, Runs, FromRegister
      <3> QED
        BY <2>3, <3>2, <3>4, <3>5
    <2> QED
      BY <2>4, <2>5, <2>6
  <1> QED
    BY <1>1, <1>2, InvariantHolds, PTL DEF Spec

(* The pairs that sums and differences of two bytes each leave, for every   *)
(* two pairs: with ADD and ADC the sum, with SUB and SBC the difference     *)
(* and 256 more or less than it.                                            *)
THEOREM PairsComputed == Spec => []WideArithmetic
  <1>1. IInv /\ Computing => WideArithmetic
    <2> SUFFICES ASSUME IInv, Computing, Over, LoadsBoth
                 PROVE  /\ SubSeq(code, 7, 12) = SumOfPairs => rHL = Wrap16(Loaded(5) + Loaded(2))
                        /\ SubSeq(code, 7, 12) = DifferenceOfPairs =>
                             rHL = Wrap16(Loaded(5) - Loaded(2)
                                            + (IF code[5] < code[2] THEN 256 ELSE -256))
      BY DEF WideArithmetic
    <2> SUFFICES ASSUME WideProgram
                 PROVE  /\ Adds => rHL = Wrap16(Loaded(5) + Loaded(2))
                        /\ ~Adds => rHL = Wrap16(Loaded(5) - Loaded(2)
                                                   + (IF code[5] < code[2] THEN 256 ELSE -256))
      <3>1. WideProgram => /\ SubSeq(code, 7, 12) = SumOfPairs <=> Adds
                           /\ SubSeq(code, 7, 12) = DifferenceOfPairs <=> ~Adds
        BY CodeBytes, WideBytes DEF IInv, Fetched
      <3> QED
        BY <3>1 DEF WideProgram
    <2>1. Reached = 12
      BY DEF Over, Reached, LoadsBoth
    <2>2. reg.H = HighResult /\ reg.L = LowResult
      BY <2>1 DEF Computing, Computed
    <2>3. code[2] \in Byte /\ code[3] \in Byte /\ code[5] \in Byte /\ code[6] \in Byte
      <3>1. \A i \in 1 .. 12 : code[i] \in Byte
        BY CodeBytes, WideBytes DEF IInv, Fetched
      <3> HIDE DEF Byte
      <3> QED
        BY <3>1
    <2> DEFINE c == code[2]
               b == code[3]
               l == code[5]
               h == code[6]
    <2>4. c \in 0 .. 255 /\ b \in 0 .. 255 /\ l \in 0 .. 255 /\ h \in 0 .. 255
      BY <2>3 DEF Byte
    <2>5. Loaded(5) = l + 256 * h /\ Loaded(2) = c + 256 * b
      BY DEF Loaded
    <2>6. /\ Adds => rHL = 256 * ((h + b + (IF l + c > 255 THEN 1 ELSE 0)) % 256) + ((l + c) % 256)
          /\ ~Adds => rHL = 256 * ((h - b - (IF l >= c THEN 1 ELSE 0)) % 256) + ((l - c) % 256)
      BY <2>2 DEF rHL, HighResult, LowResult, CarryLow, Flag
    <2> SUFFICES /\ Adds => rHL = Wrap16(Loaded(5) + Loaded(2))
                 /\ ~Adds => rHL = Wrap16(Loaded(5) - Loaded(2) + (IF l < c THEN 256 ELSE -256))
      OBVIOUS
    <2> HIDE DEF c, b, l, h
    <2>7. AddedUp(h, l, b, c) /\ TakenAway(h, l, b, c)
      BY <2>4, PairArithmetic
    <2> DEFINE difference == 256 * ((h - b - (IF l >= c THEN 1 ELSE 0)) % 256) + ((l - c) % 256)
    <2>8. /\ l < c => difference = Wrap16((l + 256 * h) - (c + 256 * b) + 256)
          /\ l >= c => difference = Wrap16((l + 256 * h) - (c + 256 * b) - 256)
      BY <2>7 DEF TakenAway, Flag
    <2> HIDE DEF difference
    <2>9. (l + 256 * h) - (c + 256 * b) - 256 = (l + 256 * h) - (c + 256 * b) + (-256)
      BY <2>4
    <2>10. l < c \/ l >= c
      BY <2>4
    <2>11. difference = Wrap16((l + 256 * h) - (c + 256 * b) + (IF l < c THEN 256 ELSE -256))
      BY <2>8, <2>9, <2>10
    <2> QED
      BY <2>5, <2>6, <2>7, <2>11 DEF difference, AddedUp, Flag
  <1> QED
    BY <1>1, InvariantHolds, WideHolds, PTL
============================================================================
