----------------------------- MODULE FlatMemory -----------------------------
(***************************************************************************)
(* What the memory of the machine promises a program: one byte for each    *)
(* address, work RAM seen twice, ROM that stores do not change, a boot ROM *)
(* that gives way to the cartridge once and for ever, and a transfer that  *)
(* fills OAM with a snapshot of a page.                                    *)
(***************************************************************************)
EXTENDS Integers

CONSTANTS
  Probes,                \* the addresses looked at
  Stores, Pages,         \* the stores <<address, value>>; the pages transferred
  kBootROM, Cartridge    \* the bytes of ROM

VARIABLES flat, overlaid

fvars == <<flat, overlaid>>

IsOAM(a) == \hFE00 <= a /\ a <= \hFE9F
IsWorkRAM(a) == \hC000 <= a /\ a <= \hFDFF   \* and its echo
IsRAM(a) == \h8000 <= a /\ a <= \hFFFF /\ ~(\hFEA0 <= a /\ a <= \hFF7F)

FInit ==
  /\ overlaid = TRUE
  /\ flat = [a \in Probes |-> IF a < 256 THEN kBootROM[a]
                              ELSE IF a < \h8000 THEN Cartridge[a] ELSE 0]

(* Two addresses of one byte of work RAM.                                   *)
Mirrors(a, b) ==
  /\ IsWorkRAM(a) /\ IsWorkRAM(b)
  /\ a = b + 8192 \/ b = a + 8192

(* The memory f after a store, a transfer, and the end of the boot ROM.     *)
Stored(f, address, value) ==
  [b \in Probes |-> IF b = address \/ Mirrors(b, address) THEN value ELSE f[b]]

Transferred(f, page) ==
  [b \in Probes |-> IF IsOAM(b) THEN f[page * 256 + (b - \hFE00)] ELSE f[b]]

Uncovered(f) == [b \in Probes |-> IF b < 256 THEN Cartridge[b] ELSE f[b]]

Store ==
  /\ \E s \in Stores : IsRAM(s[1]) /\ flat' = Stored(flat, s[1], s[2])
  /\ UNCHANGED overlaid

Transfer ==
  /\ \E page \in Pages : flat' = Transferred(flat, page)
  /\ UNCHANGED overlaid

LeaveBootROM ==
  /\ overlaid /\ overlaid' = FALSE
  /\ flat' = Uncovered(flat)

FSpec == FInit /\ [][Store \/ Transfer \/ LeaveBootROM]_fvars
=============================================================================
