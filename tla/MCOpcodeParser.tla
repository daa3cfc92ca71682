--------------------------- MODULE MCOpcodeParser ---------------------------
(***************************************************************************)
(* A ten-address machine: ROM at 0..4, of which the boot ROM covers 0..1,  *)
(* RAM at 5 and 6, high RAM at 7..8 and IE at 9.  The games are all those  *)
(* with three instructions of MCInstructions at 2..4, the first executed   *)
(* when the boot ROM ends.                                                 *)
(***************************************************************************)
EXTENDS OpcodeParser, TLC

I(kind, width, arg) == [kind |-> kind, width |-> width, arg |-> arg]

MCBoot == (0 :> I("plain", 1, 0)) @@ (1 :> I("store", 1, 0))

MCInstructions ==
  {I("store", 1, 0), I("jphl", 1, 0), I("callcc", 2, 7), I("ret", 1, 0),
   I("jrcc", 1, -5), I("rst", 1, 0)}

Bank(a, b, c) ==
  (0 :> I("reti", 1, 0)) @@ (1 :> I("plain", 1, 0)) @@ (2 :> a) @@ (3 :> b)
    @@ (4 :> c)

MCCartridges ==
  {{Bank(a, b, c), Bank(a, I("plain", 1, 0), c)} :
     a, b, c \in MCInstructions}

MCHighRamImages ==
  {(7 :> I("plain", 1, 0)) @@ (8 :> I("ret", 1, 0)),
   (7 :> I("jphl", 1, 0)) @@ (8 :> I("store", 1, 0)),
   (7 :> I("jrcc", 1, -6)) @@ (8 :> I("jp", 1, 3))}

MCUnformatted == <<0>>
MCFormatted == <<0, 2>>
MCVectors == {0}
MCHLValues == {3, 4, 6, 7}
MCInitialStacks == {<<>>, <<3>>, <<8>>}
=============================================================================
