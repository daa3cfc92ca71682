------------------------------- MODULE Bytes -------------------------------
(***************************************************************************)
(* Unsigned bytes and words, the bits of a number, and the tests of        *)
(* opcode_handlers.cc for carry and borrow.  A bit is named by its weight, *)
(* 1 for bit 0 up to 128 for bit 7 of a byte, so that the arithmetic stays *)
(* linear.  Flags are numbers, 0 or 1, as the bit fields of rF are.        *)
(***************************************************************************)
EXTENDS Integers

Byte == 0 .. 255
Word == 0 .. 65535

Wrap8(x) == x % 256
Wrap16(x) == x % 65536

(* A byte read as int8_t, or as the signed char of this platform. *)
Signed(x) == IF x >= 128 THEN x - 256 ELSE x

Low(x) == x % 256
High(x) == x \div 256

Flag(b) == IF b THEN 1 ELSE 0
IsZero(x) == Flag(x = 0)

(* The division rounds down, so a negative x has the bits of the unsigned  *)
(* int it is converted to.                                                 *)
NthBit(x, weight) == (x \div weight) % 2

(* Mutant: a carry out of two set bits only is noticed. *)
DoesOverflow_BothOnly(left, right, weight) ==
  NthBit(left, weight) = 1 /\ NthBit(right, weight) = 1

DoesOverflow(left, right, weight) ==
  \/ NthBit(left, weight) = 1 /\ NthBit(right, weight) = 1
  \/ /\ NthBit(left, weight) = 1 \/ NthBit(right, weight) = 1
     /\ NthBit(left + right, weight) = 0

DoesUnderflow(left, right, weight) ==
  \/ /\ NthBit(left, weight) = 0
     /\ NthBit(right, weight) = 1 \/ NthBit(left - right, weight) = 1
  \/ /\ NthBit(left, weight) = 1
     /\ NthBit(right, weight) = 1
     /\ NthBit(left - right, weight) = 1

(* Every argument is converted to the type of the parameter.  That of      *)
(* DoesHalfCarry16 is uint8_t, which has no bit of weight 2048.            *)
DoesCarry8(left, right)      == DoesOverflow(Wrap8(left), Wrap8(right), 128)
DoesHalfCarry8(left, right)  == DoesOverflow(Wrap8(left), Wrap8(right), 8)
DoesCarry16(left, right)     == DoesOverflow(left, right, 32768)
DoesHalfCarry16(left, right) == DoesOverflow(Wrap8(left), Wrap8(right), 2048)
DoesBorrow8(left, right)      == DoesUnderflow(Wrap8(left), Wrap8(right), 128)
DoesHalfBorrow8(left, right)  == DoesUnderflow(Wrap8(left), Wrap8(right), 8)
DoesBorrow16(left, right)     == DoesUnderflow(Wrap16(left), Wrap16(right), 32768)
DoesHalfBorrow16(left, right) == DoesUnderflow(Wrap16(left), Wrap16(right), 2048)

(* The byte whose bit of each weight is Op of the bits of x and y. *)
BitByBit(x, y, Op(_, _)) ==
  LET At(w) == w * Op(NthBit(x, w), NthBit(y, w))
  IN  At(1) + At(2) + At(4) + At(8) + At(16) + At(32) + At(64) + At(128)

And(x, y) == BitByBit(x, y, LAMBDA a, b : a * b)
Or(x, y)  == BitByBit(x, y, LAMBDA a, b : a + b - a * b)
Xor(x, y) == BitByBit(x, y, LAMBDA a, b : (a + b) % 2)
============================================================================
