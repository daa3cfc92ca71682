---------------------------- MODULE MCDecompiler ----------------------------
(* Every program of four bytes, at addresses 1 to 4 of a machine of six,    *)
(* over eight instructions that exercise each way of going on.              *)
EXTENDS Decompiler

I(kind, width, arg) == [kind |-> kind, width |-> width, arg |-> arg]

MCInstructions ==
  {I("plain", 1, 0), I("plain", 2, 0), I("jp", 2, 3), I("jrcc", 2, -3),
   I("rst", 1, 1), I("call", 2, 5), I("ret", 1, 0), I("illegal", 1, 0)}

MCImages == [RomMin .. RomMax -> MCInstructions]

MCInitialPaths == {<<1>>, <<2, 1>>}

MCUnexplored == {3, 5}
=============================================================================
