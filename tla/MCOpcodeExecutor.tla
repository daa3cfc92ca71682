-------------------------- MODULE MCOpcodeExecutor --------------------------
(***************************************************************************)
(* A 64-address machine with three-bit bytes: ROM at 0..15, four bytes of  *)
(* RAM at 20..23, IF at 40, high RAM at 48..62 and IE at 63, with three    *)
(* interrupts (v_blank, timer, joypad) dispatched to 4, 6 and 8.           *)
(***************************************************************************)
EXTENDS OpcodeExecutor, TLC

MCBits == 0 .. 2

Binary(n) == {k \in Bits : (n \div 2^k) % 2 = 1}
Number(b) == (IF 0 \in b THEN 1 ELSE 0) + (IF 1 \in b THEN 2 ELSE 0)
               + (IF 2 \in b THEN 4 ELSE 0)

MCHigh(a) == Binary(a \div 8)
MCLow(a) == Binary(a % 8)
MCWord(h, l) == 8 * Number(h) + Number(l)

MCVector(k) == 4 + 2 * k
MCRomByte(a) == {}
MCRam == 20 .. 23

I(kind_, arg) == [kind |-> kind_, width |-> 1, arg |-> arg]

(* Sleeps until an interrupt; the handlers of v_blank and the joypad may    *)
(* call a subroutine.  SP is in RAM, with room for two frames.              *)
Sleeper ==
  (0 :> I("jp", 10)) @@ (2 :> I("ret", 0))
    @@ (4 :> I("callcc", 2)) @@ (5 :> I("reti", 0))
    @@ (6 :> I("reti", 0))
    @@ (8 :> I("callcc", 2)) @@ (9 :> I("reti", 0))
    @@ (10 :> I("ldsp", 24)) @@ (11 :> I("store", 63)) @@ (12 :> I("ei", 0))
    @@ (13 :> I("halt", 0)) @@ (14 :> I("jr", -2))

(* Calls a routine in high RAM that halts, with interrupts enabled; and     *)
(* returns from it conditionally.                                           *)
Transfer ==
  (0 :> I("ldsp", 24)) @@ (1 :> I("store", 63)) @@ (2 :> I("ei", 0))
    @@ (3 :> I("jp", 10)) @@ (4 :> I("reti", 0)) @@ (6 :> I("reti", 0))
    @@ (8 :> I("jphl", 0))
    @@ (10 :> I("call", 50)) @@ (11 :> I("di", 0)) @@ (12 :> I("halt", 0))
    @@ (50 :> I("jrcc", 1)) @@ (51 :> I("halt", 0)) @@ (52 :> I("retcc", 0))
    @@ (53 :> I("ret", 0))

(* Writes IF itself, lets the joypad handler be interrupted, and keeps its  *)
(* stack at the end of high RAM, as the boot ROM does.                      *)
Poller ==
  (0 :> I("ldsp", 62)) @@ (1 :> I("ei", 0)) @@ (2 :> I("store", 40))
    @@ (3 :> I("jp", 10)) @@ (4 :> I("reti", 0)) @@ (6 :> I("reti", 0))
    @@ (8 :> I("ei", 0)) @@ (9 :> I("ret", 0))
    @@ (10 :> I("store", 63)) @@ (11 :> I("jpcc", 2))
    @@ (12 :> I("rst", 0)) @@ (13 :> I("plain", 0))

(* Jumps back past address 0.                                               *)
Underflow == (0 :> I("jpcc", 2)) @@ (1 :> I("jr", -3)) @@ (2 :> I("jr", -5))

MCPrograms == {Sleeper, Transfer, Poller, Underflow}

MCHLValues == {10, 50}

MCStoreValues == {{0, 1, 2}, {0}}
=============================================================================
