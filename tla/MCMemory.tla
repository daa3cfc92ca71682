------------------------------ MODULE MCMemory ------------------------------
(* The stores reach every segment and both ends of the echo, set up two     *)
(* tiles, a map entry, a sprite and the palettes, and scroll past the edges *)
(* of the screen buffer.  Pages 1 and 2 of the cartridge hold two sprites   *)
(* each, which a transfer brings to OAM:                                    *)
(*   page 1: both over the background, one column apart; the second, with   *)
(*     the other palette and mirrored from left to right, covers the first  *)
(*     at pixel <<1, 0>>;                                                   *)
(*   page 2: both upside down, with a colour at pixel <<8, 7>>; only the    *)
(*     first is over the background.                                        *)
EXTENDS Memory

MCStores ==
  {<<\h0100, 7>>, <<\hA000, 9>>, <<\hCFFF, 1>>, <<\hFDFF, 3>>, <<\hC19F, 4>>, <<\hFF50, 1>>,
   <<\h8000, \h61>>, <<\h8800, \h0F>>, <<\h9800, 128>>,
   <<\hFF40, \h93>>, <<\hFF40, \h81>>, <<\hFF40, \hB1>>, <<\hFF47, \hE4>>,
   <<\hFE03, \h80>>, <<\hFF48, \h1B>>, <<\hFF43, 254>>, <<\hFF42, 113>>}

MCPages == {0, 1, 2, \hC1, \hE1, \hFE}
MCSelections == {\h10, \h20}
MCUsedKeys == {"b", "right"}

MCkBootROM == [a \in 0 .. 255 |-> IF a \in {3, 159, 255} THEN a ELSE 0]

MCSprites ==
  << <<0, 0, 0, \h80, 0, 1, 0, \hB0>>,
     <<0, 1, 128, \hC0, 0, 2, 128, \h50>> >>

MCCartridge ==
  [a \in 0 .. \h7FFF |->
     IF a \div 256 \in DOMAIN MCSprites
     THEN IF a % 256 < 8 THEN MCSprites[a \div 256][(a % 256) + 1] ELSE (a % 256) \div 159
     ELSE (7 * a + 3) % 256]

MCProbes ==
  UNION {{page * 256 + i : i \in {3, 159}} : page \in MCPages}
    \cup {255, 256, \h8000, \h8800, \h9000, \h97FF, \h9800, \hA000, \hBFFF,
          \hCFFF, \hDDFF, \hEFFF, \hFDFF, \hFFFF}

MCPixels == {<<1, 0>>, <<8, 0>>, <<8, 7>>, <<3, 143>>}
MCGarbage == {0, 255}
=============================================================================
