----------------------------- MODULE MemoryProofs -----------------------------
(***************************************************************************)
(* The memory package, in four parts.                                      *)
(*   MemoryMap: what the lookup and the translation of addresses           *)
(*     guarantee, for all of the 65536 addresses.                          *)
(*   Memory: it implements the flat memory of FlatMemory, whatever the     *)
(*     game stores, transfers and probes.                                  *)
(*   Joypad: however its two threads interleave, the matrix a game selects *)
(*     shows the keys that are held.                                       *)
(*   MBC1: it implements the registers of BankSelect, and the index it     *)
(*     computes is the rank of the bank selected.                          *)
(***************************************************************************)
EXTENDS Memory, MBC1, FiniteSetTheorems, TLAPS

-----------------------------------------------------------------------------
(* An interval of integers, which the provers would enumerate, as bounds.   *)
LEMMA Interval ==
  ASSUME NEW n \in Int, NEW x
  PROVE  x \in 0 .. n <=> (x \in Int /\ 0 <= x /\ x <= n)
  OBVIOUS

(* The addresses as bounds.                                                 *)
LEMMA AddressBounds ==
  \A x : x \in Address <=> (x \in Int /\ 0 <= x /\ x <= 65535)
  <1> SUFFICES ASSUME NEW x
               PROVE  x \in Address <=> (x \in Int /\ 0 <= x /\ x <= 65535)
    OBVIOUS
  <1> DEFINE last == 65535
  <1>1. Address = 0 .. last
    BY DEF Address
  <1>2. last \in Int
    OBVIOUS
  <1>3. x <= last <=> x <= 65535
    OBVIOUS
  <1> HIDE DEF last
  <1>4. x \in 0 .. last <=> (x \in Int /\ 0 <= x /\ x <= last)
    BY <1>2, Interval
  <1> QED
    BY <1>1, <1>3, <1>4

(* The bounds of the segments as numbers.                                   *)
LEMMA Bounds ==
  ASSUME NEW a \in Address
  PROVE  /\ InRange(1, a) <=> 65280 <= a /\ a <= 65407
         /\ InRange(2, a) <=> 65535 <= a /\ a <= 65535
         /\ InRange(3, a) <=> 49152 <= a /\ a <= 53247
         /\ InRange(4, a) <=> 53248 <= a /\ a <= 57343
         /\ InRange(5, a) <=> 57344 <= a /\ a <= 65023
         /\ InRange(6, a) <=> 65184 <= a /\ a <= 65279
         /\ InRange(7, a) <=> 65408 <= a /\ a <= 65534
         /\ InRange(8, a) <=> 0 <= a /\ a <= 32767
         /\ InRange(9, a) <=> 40960 <= a /\ a <= 49151
         /\ InRange(10, a) <=> 32768 <= a /\ a <= 40959
         /\ InRange(11, a) <=> 65024 <= a /\ a <= 65183
  BY AddressBounds DEF InRange, Between, memory_segments_

(* Every address is in the range of one segment and of no other: the order  *)
(* in which Memory::Init registers the segments decides nothing, and Lookup *)
(* never ends in its fatal error.                                           *)
THEOREM OneOwner ==
  ASSUME NEW a \in Address
  PROVE  \E i \in Ranges : /\ InRange(i, a)
                           /\ \A j \in Ranges : InRange(j, a) => j = i
  <1>1. \A i \in Ranges : i \in {1, 2, 3, 4, 5, 6, 7, 8, 9, 10, 11}
    BY DEF Ranges
  <1>2. \A i, j \in {1, 2, 3, 4, 5, 6, 7, 8, 9, 10, 11} : InRange(i, a) /\ InRange(j, a) => i = j
    <2>1. a \in Int
      BY AddressBounds
    <2> QED
      BY <2>1, Bounds
  <1>3. \E i \in {1, 2, 3, 4, 5, 6, 7, 8, 9, 10, 11} : InRange(i, a)
    BY Bounds, AddressBounds
  <1> QED
    <2>1. PICK i \in {1, 2, 3, 4, 5, 6, 7, 8, 9, 10, 11} : InRange(i, a)
      BY <1>3
    <2>2. i \in Ranges
      BY DEF Ranges
    <2> QED
      BY <1>1, <1>2, <2>1, <2>2

(* So Lookup finds the segment whose range the address is in.               *)
THEOREM LookupFinds ==
  ASSUME NEW a \in Address, NEW i \in Ranges, InRange(i, a)
  PROVE  Lookup(a) = memory_segments_[i][1]
  <1>1. \A j \in Ranges : InRange(j, a) => j = i
    BY OneOwner
  <1>2. First(i, a)
    BY <1>1 DEF First, Ranges
  <1>3. \A j \in Ranges : First(j, a) => j = i
    BY <1>1 DEF First
  <1>4. (CHOOSE j \in Ranges : First(j, a)) = i
    BY <1>2, <1>3
  <1> QED
    BY <1>4 DEF Lookup

-----------------------------------------------------------------------------
(* What answers each address.                                               *)
LEMMA Segments ==
  ASSUME NEW a \in Address
  PROVE  /\ a <= 32767 => Lookup(a) = "mbc"
         /\ 32768 <= a /\ a <= 40959 => Lookup(a) = "vram"
         /\ 40960 <= a /\ a <= 49151 => Lookup(a) = "mbc"
         /\ 49152 <= a /\ a <= 53247 => Lookup(a) = "internal_ram_0"
         /\ 53248 <= a /\ a <= 57343 => Lookup(a) = "internal_ram_1"
         /\ 57344 <= a /\ a <= 65023 => Lookup(a) = "echo"
         /\ 65024 <= a /\ a <= 65183 => Lookup(a) = "oam"
         /\ 65184 <= a /\ a <= 65279 => Lookup(a) = "not_usable"
         /\ 65280 <= a /\ a <= 65407 => Lookup(a) = "flag_container"
         /\ 65408 <= a /\ a <= 65534 => Lookup(a) = "high_ram"
         /\ a = 65535 => Lookup(a) = "interrupt_enable"
  <1>1. \A i \in {1, 2, 3, 4, 5, 6, 7, 8, 9, 10, 11} : i \in Ranges
    BY DEF Ranges
  <1>2. /\ memory_segments_[1][1] = "flag_container" /\ memory_segments_[2][1] = "interrupt_enable"
        /\ memory_segments_[3][1] = "internal_ram_0" /\ memory_segments_[4][1] = "internal_ram_1"
        /\ memory_segments_[5][1] = "echo" /\ memory_segments_[6][1] = "not_usable"
        /\ memory_segments_[7][1] = "high_ram" /\ memory_segments_[8][1] = "mbc"
        /\ memory_segments_[9][1] = "mbc" /\ memory_segments_[10][1] = "vram"
        /\ memory_segments_[11][1] = "oam"
    BY DEF memory_segments_
  <1>3. a \in Nat
    BY AddressBounds
  <1> QED
    BY <1>1, <1>2, <1>3, Bounds, LookupFinds

(* The byte behind each address that keeps what is written, from the        *)
(* cartridge's RAM on.                                                      *)
LEMMA Cells ==
  ASSUME NEW a \in Address
  PROVE  /\ 32768 <= a /\ a <= 38911 => Cell(a) = <<"raw_tile_data", a - 32768>>
         /\ 38912 <= a /\ a <= 39935 => Cell(a) = <<"lower_background_map", a - 38912>>
         /\ 39936 <= a /\ a <= 40959 => Cell(a) = <<"upper_background_map", a - 39936>>
         /\ 40960 <= a /\ a <= 49151 => Cell(a) = <<"ram_bank_0", a - 40960>>
         /\ 49152 <= a /\ a <= 53247 => Cell(a) = <<"internal_ram_0", a - 49152>>
         /\ 53248 <= a /\ a <= 57343 => Cell(a) = <<"internal_ram_1", a - 53248>>
         /\ 57344 <= a /\ a <= 61439 => Cell(a) = <<"internal_ram_0", a - 57344>>
         /\ 61440 <= a /\ a <= 65023 => Cell(a) = <<"internal_ram_1", a - 61440>>
         /\ 65024 <= a /\ a <= 65183 => Cell(a) = <<"oam", a - 65024>>
         /\ 65280 <= a /\ a <= 65407 => Cell(a) = <<"flag", a>>
         /\ 65408 <= a /\ a <= 65534 => Cell(a) = <<"high_ram", a - 65408>>
         /\ a = 65535 => Cell(a) = <<"flag", a>>
  <1>1. a \in Int
    BY AddressBounds
  <1>2. 32768 <= a /\ a <= 38911 => Cell(a) = <<"raw_tile_data", a - 32768>>
    BY <1>1, Segments DEF Cell, VRAMCell, Between
  <1>3. 38912 <= a /\ a <= 39935 => Cell(a) = <<"lower_background_map", a - 38912>>
    BY <1>1, Segments DEF Cell, VRAMCell, Between
  <1>4. 39936 <= a /\ a <= 40959 => Cell(a) = <<"upper_background_map", a - 39936>>
    BY <1>1, Segments DEF Cell, VRAMCell, Between
  <1>5. 40960 <= a /\ a <= 49151 => Cell(a) = <<"ram_bank_0", a - 40960>>
    BY <1>1, Segments DEF Cell
  <1>6. 49152 <= a /\ a <= 53247 => Cell(a) = <<"internal_ram_0", a - 49152>>
    BY <1>1, Segments DEF Cell, RAMCell, Between
  <1>7. 53248 <= a /\ a <= 57343 => Cell(a) = <<"internal_ram_1", a - 53248>>
    BY <1>1, Segments DEF Cell, RAMCell, Between
  <1>8. 57344 <= a /\ a <= 61439 => Cell(a) = <<"internal_ram_0", a - 57344>>
    BY <1>1, Segments DEF Cell, RAMCell, Between, translate_address
  <1>9. 61440 <= a /\ a <= 65023 => Cell(a) = <<"internal_ram_1", a - 61440>>
    BY <1>1, Segments DEF Cell, RAMCell, Between, translate_address
  <1>10. 65024 <= a /\ a <= 65183 => Cell(a) = <<"oam", a - 65024>>
    BY <1>1, Segments DEF Cell
  <1>11. 65280 <= a /\ a <= 65407 => Cell(a) = <<"flag", a>>
    BY <1>1, Segments DEF Cell
  <1>12. 65408 <= a /\ a <= 65534 => Cell(a) = <<"high_ram", a - 65408>>
    BY <1>1, Segments DEF Cell
  <1>13. a = 65535 => Cell(a) = <<"flag", a>>
    BY <1>1, Segments DEF Cell
  <1> QED
    BY <1>2, <1>3, <1>4, <1>5, <1>6, <1>7, <1>8, <1>9, <1>10, <1>11, <1>12, <1>13

(* Addresses that keep what a program stores, the flags left aside.         *)
Keeps(a) ==
  a \in Address /\ (Between(a, \h8000, \hFE9F) \/ Between(a, \hFF80, \hFFFF))

(* Two of these addresses reach one byte only as work RAM and its echo.     *)
THEOREM OneByteEach ==
  ASSUME NEW a, NEW b, Keeps(a), Keeps(b), Cell(a) = Cell(b), a < b
  PROVE  Between(a, \hC000, \hDDFF) /\ b = a + 8192
  <1> USE DEF Keeps, Between
  <1>1. a \in Address /\ b \in Address /\ a \in Int /\ b \in Int
    BY AddressBounds
  <1>2. Cell(a)[1] = Cell(b)[1] /\ Cell(a)[2] = Cell(b)[2]
    OBVIOUS
  <1>3. CASE a <= 49151
    BY <1>1, <1>2, <1>3, Cells
  <1>4. CASE 49152 <= a /\ a <= 57343
    BY <1>1, <1>2, <1>4, Cells
  <1>5. CASE 57344 <= a /\ a <= 65023
    BY <1>1, <1>2, <1>5, Cells
  <1>6. CASE 65024 <= a
    BY <1>1, <1>2, <1>6, Cells, AddressBounds
  <1> QED
    BY <1>1, <1>3, <1>4, <1>5, <1>6

(* And the echo does reach it.                                              *)
THEOREM EchoReaches ==
  ASSUME NEW a \in Address, Between(a, \hC000, \hDDFF)
  PROVE  a + 8192 \in Address /\ Cell(a + 8192) = Cell(a)
  <1> USE DEF Between
  <1>1. a + 8192 \in Address /\ a \in Int
    BY AddressBounds
  <1>2. CASE a <= 53247
    BY <1>1, <1>2, Cells
  <1>3. CASE a > 53247
    BY <1>1, <1>3, Cells
  <1> QED
    BY <1>1, <1>2, <1>3

-----------------------------------------------------------------------------
(* The bytes as bounds.                                                     *)
LEMMA ByteBounds ==
  \A x : x \in Byte <=> (x \in Int /\ 0 <= x /\ x <= 255)
  <1> SUFFICES ASSUME NEW x
               PROVE  x \in Byte <=> (x \in Int /\ 0 <= x /\ x <= 255)
    OBVIOUS
  <1> DEFINE last == 255
  <1>1. Byte = 0 .. last
    BY DEF Byte
  <1>2. last \in Int
    OBVIOUS
  <1>3. x <= last <=> x <= 255
    OBVIOUS
  <1> HIDE DEF last
  <1>4. x \in 0 .. last <=> (x \in Int /\ 0 <= x /\ x <= last)
    BY <1>2, Interval
  <1> QED
    BY <1>1, <1>3, <1>4

(* The indices of OAM as bounds.                                            *)
LEMMA OAMBounds ==
  \A x : x \in OAMIndex <=> (x \in Int /\ 0 <= x /\ x <= 159)
  <1> SUFFICES ASSUME NEW x
               PROVE  x \in OAMIndex <=> (x \in Int /\ 0 <= x /\ x <= 159)
    OBVIOUS
  <1> DEFINE last == 159
  <1>1. OAMIndex = 0 .. last
    BY DEF OAMIndex
  <1>2. last \in Int
    OBVIOUS
  <1>3. x <= last <=> x <= 159
    OBVIOUS
  <1> HIDE DEF last
  <1>4. x \in 0 .. last <=> (x \in Int /\ 0 <= x /\ x <= last)
    BY <1>2, Interval
  <1> QED
    BY <1>1, <1>3, <1>4

-----------------------------------------------------------------------------
(* A byte after one byte has been written.                                  *)
LEMMA AtPut ==
  ASSUME NEW m, NEW c, NEW v, NEW d
  PROVE  At(Put(m, c, v), d) = IF d = c THEN v ELSE At(m, d)
  BY DEF At, Put

(* A byte after OAM has been filled.                                        *)
LEMMA AtFilled ==
  ASSUME NEW m, NEW bytes, NEW kind, NEW i
  PROVE  At(Filled(m, bytes), <<kind, i>>)
           = IF kind = "oam" /\ i \in DOMAIN bytes THEN bytes[i] ELSE At(m, <<kind, i>>)
  <1> DEFINE c == <<kind, i>>
             kept == {e \in DOMAIN m : e[1] # "oam" \/ e[2] \notin DOMAIN bytes}
             new == {<<"oam", j>> : j \in {j \in DOMAIN bytes : bytes[j] # 0}}
             f == [e \in kept \cup new |-> IF e \in kept THEN m[e] ELSE bytes[e[2]]]
  <1>1. Filled(m, bytes) = f
    BY DEF Filled
  <1>2. c[1] = kind /\ c[2] = i
    OBVIOUS
  <1>3. c \in kept <=> (c \in DOMAIN m /\ ~(kind = "oam" /\ i \in DOMAIN bytes))
    BY <1>2
  <1>4. c \in new <=> (kind = "oam" /\ i \in DOMAIN bytes /\ bytes[i] # 0)
    OBVIOUS
  <1>5. DOMAIN f = kept \cup new
    OBVIOUS
  <1>6. c \in kept \cup new => f[c] = IF c \in kept THEN m[c] ELSE bytes[i]
    BY <1>2
  <1> HIDE DEF c, kept, new, f
  <1>7. At(f, c) = IF kind = "oam" /\ i \in DOMAIN bytes THEN bytes[i] ELSE At(m, c)
    BY <1>3, <1>4, <1>5, <1>6 DEF At
  <1> QED
    BY <1>1, <1>7 DEF c

-----------------------------------------------------------------------------
(* What a read returns of the contents m, at an address that is no flag in  *)
(* the container of the flags.                                              *)
SeenIn(m, a) ==
  IF a < 32768 THEN IF a < 256 /\ FlagAt(m, \hFF50) = 0 THEN kBootROM[a] ELSE Cartridge[a]
  ELSE IF Between(a, \hFEA0, \hFEFF) THEN 0 ELSE At(m, Cell(a))

Seen(m) == [a \in Probes |-> SeenIn(m, a)]

(* An address looked at is in ROM, keeps what is written, or is not usable. *)
LEMMA ProbeKinds ==
  ASSUME NEW a \in Probes
  PROVE  /\ a \in Address /\ a \in Int /\ 0 <= a /\ a <= 65535
         /\ a < 32768 \/ Keeps(a) \/ Between(a, \hFEA0, \hFEFF)
         /\ Keeps(a) => 32768 <= a /\ ~Between(a, \hFEA0, \hFEFF)
  <1>1. a \in Address /\ ~Between(a, \hFF00, \hFF7F)
    BY MemoryAssumption
  <1>2. a \in Int /\ 0 <= a /\ a <= 65535
    BY <1>1, AddressBounds
  <1> QED
    BY <1>1, <1>2 DEF Keeps, Between

(* So SeenIn is what MemoryMapper::Read returns.                            *)
LEMMA ReadIsSeen ==
  ASSUME NEW a \in Probes
  PROVE  Read(a) = SeenIn(memory_, a)
  <1>1. a \in Address /\ a \in Int /\ 0 <= a /\ a <= 65535 /\ ~Between(a, \hFF00, \hFF7F)
    BY ProbeKinds, MemoryAssumption
  <1>2. CASE a < 32768
    <2>1. Lookup(a) = "mbc"
      BY <1>1, <1>2, Segments
    <2>2. Read(a) = ReadROM(a)
      BY <2>1, <1>2 DEF Read
    <2> QED
      BY <2>2, <1>2 DEF ReadROM, Overlaid, is_set, SeenIn
  <1>3. CASE Between(a, \hFEA0, \hFEFF)
    <2>1. Lookup(a) = "not_usable"
      BY <1>1, <1>3, Segments DEF Between
    <2> QED
      BY <2>1, <1>1, <1>3 DEF Read, SeenIn, Between
  <1>4. CASE ~(a < 32768) /\ ~Between(a, \hFEA0, \hFEFF)
    <2>1. Lookup(a) \notin {"flag_container", "not_usable"}
      BY <1>1, <1>4, Segments DEF Between
    <2>2. Read(a) = At(memory_, Cell(a))
      BY <2>1, <1>1, <1>4 DEF Read
    <2> QED
      BY <2>2, <1>4 DEF SeenIn
  <1> QED
    BY <1>2, <1>3, <1>4

(* And all of what is observed.                                             *)
LEMMA ObservedIsSeen ==
  Observed = Seen(memory_)
  BY ReadIsSeen DEF Observed, Seen

-----------------------------------------------------------------------------
(* Addresses that keep what is written reach one byte if they are one       *)
(* address, or mirrors.                                                     *)
LEMMA SameCell ==
  ASSUME NEW a, NEW b, Keeps(a), Keeps(b)
  PROVE  Cell(a) = Cell(b) <=> (a = b \/ Flat!Mirrors(a, b))
  <1>1. a \in Address /\ b \in Address /\ a \in Int /\ b \in Int
    BY AddressBounds DEF Keeps
  <1>2. ASSUME Cell(a) = Cell(b) PROVE a = b \/ Flat!Mirrors(a, b)
    <2>1. CASE a < b
      BY <1>1, <1>2, <2>1, OneByteEach DEF Flat!Mirrors, Flat!IsWorkRAM, Between
    <2>2. CASE b < a
      BY <1>1, <1>2, <2>2, OneByteEach DEF Flat!Mirrors, Flat!IsWorkRAM, Between
    <2> QED
      BY <1>1, <2>1, <2>2
  <1>3. ASSUME Flat!Mirrors(a, b) PROVE Cell(a) = Cell(b)
    <2>1. CASE b = a + 8192
      <3>1. Between(a, \hC000, \hDDFF)
        BY <1>1, <1>3, <2>1 DEF Flat!Mirrors, Flat!IsWorkRAM, Between
      <3> QED
        BY <1>1, <2>1, <3>1, EchoReaches
    <2>2. CASE a = b + 8192
      <3>1. Between(b, \hC000, \hDDFF)
        BY <1>1, <1>3, <2>2 DEF Flat!Mirrors, Flat!IsWorkRAM, Between
      <3> QED
        BY <1>1, <2>2, <3>1, EchoReaches
    <2> QED
      BY <1>3, <2>1, <2>2 DEF Flat!Mirrors
  <1> QED
    BY <1>2, <1>3

(* No such address reaches a flag in the container of the flags, nor has    *)
(* one a mirror in ROM or where nothing is usable.                          *)
LEMMA FlagsApart ==
  ASSUME NEW a, Keeps(a)
  PROVE  /\ \A f \in Address : Between(f, \hFF00, \hFF7F) => Cell(a) # <<"flag", f>>
         /\ \A b \in Address : ~Keeps(b) /\ ~Between(b, \hFF00, \hFF7F) =>
              ~Flat!Mirrors(b, a) /\ ~Flat!IsOAM(b) /\ a # b
  <1>1. a \in Address /\ a \in Int /\ 0 <= a /\ a <= 65535
    BY AddressBounds DEF Keeps
  <1>2. ASSUME NEW f \in Address, Between(f, \hFF00, \hFF7F) PROVE Cell(a) # <<"flag", f>>
    <2>1. f \in Int /\ f # 65535
      BY <1>2, AddressBounds DEF Between
    <2>2. Cell(a)[1] = "flag" => Cell(a)[2] = 65535
      BY <1>1, Cells DEF Keeps, Between
    <2> QED
      BY <2>1, <2>2
  <1>3. ASSUME NEW b \in Address, ~Keeps(b), ~Between(b, \hFF00, \hFF7F)
        PROVE  ~Flat!Mirrors(b, a) /\ ~Flat!IsOAM(b) /\ a # b
    <2>1. b \in Int
      BY AddressBounds
    <2> QED
      BY <1>1, <1>3, <2>1 DEF Keeps, Between, Flat!Mirrors, Flat!IsWorkRAM, Flat!IsOAM
  <1> QED
    BY <1>2, <1>3

(* What a store to such an address changes.                                 *)
LEMMA PutKept ==
  ASSUME NEW m, NEW s, Keeps(s), NEW v
  PROVE  /\ Seen(Put(m, Cell(s), v)) = Flat!Stored(Seen(m), s, v)
         /\ FlagAt(Put(m, Cell(s), v), \hFF50) = FlagAt(m, \hFF50)
  <1> DEFINE n == Put(m, Cell(s), v)
  <1>1. \hFF50 \in Address /\ Between(\hFF50, \hFF00, \hFF7F)
    BY AddressBounds DEF Between
  <1>2. FlagAt(n, \hFF50) = FlagAt(m, \hFF50)
    BY <1>1, AtPut, FlagsApart DEF FlagAt
  <1>3. ASSUME NEW b \in Probes
        PROVE  SeenIn(n, b) = IF b = s \/ Flat!Mirrors(b, s) THEN v ELSE SeenIn(m, b)
    <2>1. CASE Keeps(b)
      <3>1. At(n, Cell(b)) = IF b = s \/ Flat!Mirrors(b, s) THEN v ELSE At(m, Cell(b))
        BY <2>1, AtPut, SameCell
      <3>2. SeenIn(n, b) = At(n, Cell(b)) /\ SeenIn(m, b) = At(m, Cell(b))
        BY <2>1, ProbeKinds DEF SeenIn
      <3> QED
        BY <3>1, <3>2
    <2>2. CASE ~Keeps(b)
      <3>1. b \in Address /\ ~Between(b, \hFF00, \hFF7F)
        BY MemoryAssumption
      <3>2. b # s /\ ~Flat!Mirrors(b, s)
        BY <2>2, <3>1, FlagsApart
      <3>3. SeenIn(n, b) = SeenIn(m, b)
        BY <1>2, <2>2, ProbeKinds DEF SeenIn
      <3> QED
        BY <3>2, <3>3
    <2> QED
      BY <2>1, <2>2
  <1> HIDE DEF n
  <1>4. Seen(n) = Flat!Stored(Seen(m), s, v)
    BY <1>3 DEF Seen, Flat!Stored
  <1> QED
    BY <1>2, <1>4 DEF n

(* What a flag in the container changes: nothing, unless it is the flag of  *)
(* the boot ROM.                                                            *)
LEMMA PutFlag ==
  ASSUME NEW m, NEW f \in Address, Between(f, \hFF00, \hFF7F), NEW v
  PROVE  /\ f # \hFF50 => /\ Seen(Put(m, <<"flag", f>>, v)) = Seen(m)
                          /\ FlagAt(Put(m, <<"flag", f>>, v), \hFF50) = FlagAt(m, \hFF50)
         /\ f = \hFF50 /\ FlagAt(m, \hFF50) = 0 =>
              /\ FlagAt(Put(m, <<"flag", f>>, v), \hFF50) = v
              /\ v = 0 => Seen(Put(m, <<"flag", f>>, v)) = Seen(m)
              /\ v # 0 => Seen(Put(m, <<"flag", f>>, v)) = Flat!Uncovered(Seen(m))
  <1> DEFINE n == Put(m, <<"flag", f>>, v)
  <1>1. FlagAt(n, \hFF50) = IF f = \hFF50 THEN v ELSE FlagAt(m, \hFF50)
    BY AtPut DEF FlagAt
  <1>2. ASSUME NEW a, Keeps(a) PROVE At(n, Cell(a)) = At(m, Cell(a))
    BY <1>2, AtPut, FlagsApart
  <1> HIDE DEF n
  <1>3. ASSUME NEW b \in Probes, b >= 32768 PROVE SeenIn(n, b) = SeenIn(m, b)
    BY <1>2, <1>3, ProbeKinds DEF SeenIn
  <1>4. ASSUME NEW b \in Probes, FlagAt(n, \hFF50) = FlagAt(m, \hFF50) PROVE SeenIn(n, b) = SeenIn(m, b)
    BY <1>3, <1>4, ProbeKinds DEF SeenIn
  <1>5. ASSUME NEW b \in Probes, FlagAt(m, \hFF50) = 0, FlagAt(n, \hFF50) # 0
        PROVE  SeenIn(n, b) = IF b < 256 THEN Cartridge[b] ELSE SeenIn(m, b)
    BY <1>3, <1>5, ProbeKinds DEF SeenIn
  <1>6. FlagAt(n, \hFF50) = FlagAt(m, \hFF50) => Seen(n) = Seen(m)
    BY <1>4 DEF Seen
  <1>7. FlagAt(m, \hFF50) = 0 /\ FlagAt(n, \hFF50) # 0 => Seen(n) = Flat!Uncovered(Seen(m))
    BY <1>5 DEF Seen, Flat!Uncovered
  <1> QED
    BY <1>1, <1>6, <1>7 DEF n

(* What a transfer changes.                                                 *)
LEMMA TransferFills ==
  ASSUME NEW page \in Pages
  PROVE  /\ Seen(Transferred(memory_, page)) = Flat!Transferred(Seen(memory_), page)
         /\ FlagAt(Transferred(memory_, page), \hFF50) = FlagAt(memory_, \hFF50)
  <1> DEFINE bytes == [i \in OAMIndex |-> Read(Wrap16(page * 256 + i))]
             n == Filled(memory_, bytes)
  <1>1. Transferred(memory_, page) = n
    BY DEF Transferred
  <1>2. DOMAIN bytes = OAMIndex
    OBVIOUS
  <1>3. \A i \in OAMIndex : bytes[i] = Read(Wrap16(page * 256 + i))
    OBVIOUS
  <1> HIDE DEF bytes
  <1>4. FlagAt(n, \hFF50) = FlagAt(memory_, \hFF50)
    BY AtFilled DEF FlagAt
  <1>5. ASSUME NEW b \in Probes, Flat!IsOAM(b)
        PROVE  SeenIn(n, b) = Seen(memory_)[page * 256 + (b - \hFE00)]
    <2> DEFINE i == b - \hFE00
               source == page * 256 + i
    <2>1. b \in Address /\ b \in Int /\ 65024 <= b /\ b <= 65183
      BY <1>5, ProbeKinds DEF Flat!IsOAM
    <2>2. i \in OAMIndex /\ Cell(b) = <<"oam", i>>
      BY <2>1, OAMBounds, Cells
    <2>3. source \in Probes
      BY <2>1, MemoryAssumption DEF Between
    <2>4. source \in Int /\ 0 <= source /\ source <= 65535
      BY <2>3, ProbeKinds
    <2>5. Wrap16(source) = source
      BY <2>4 DEF Wrap16
    <2>6. At(n, <<"oam", i>>) = bytes[i]
      BY <1>2, <2>2, AtFilled
    <2>7. SeenIn(n, b) = At(n, Cell(b))
      BY <2>1 DEF SeenIn, Between
    <2>8. SeenIn(n, b) = Read(source)
      BY <1>3, <2>2, <2>5, <2>6, <2>7
    <2> QED
      BY <2>3, <2>8, ReadIsSeen DEF Seen
  <1>6. ASSUME NEW b \in Probes, ~Flat!IsOAM(b)
        PROVE  SeenIn(n, b) = SeenIn(memory_, b)
    <2>1. CASE Keeps(b)
      <3>1. b \in Address /\ b \in Int /\ 32768 <= b /\ b <= 65535 /\ ~(65024 <= b /\ b <= 65279)
            /\ ~(65280 <= b /\ b <= 65407)
        BY <1>6, <2>1, ProbeKinds, MemoryAssumption DEF Flat!IsOAM, Between
      <3>2. \E kind, i : Cell(b) = <<kind, i>> /\ kind # "oam"
        BY <3>1, Cells
      <3>3. At(n, Cell(b)) = At(memory_, Cell(b))
        BY <3>2, AtFilled
      <3> QED
        BY <1>4, <3>3 DEF SeenIn
    <2>2. CASE ~Keeps(b)
      BY <1>4, <2>2, ProbeKinds DEF SeenIn
    <2> QED
      BY <2>1, <2>2
  <1> HIDE DEF n
  <1>7. Seen(n) = Flat!Transferred(Seen(memory_), page)
    BY <1>5, <1>6 DEF Seen, Flat!Transferred
  <1> QED
    BY <1>1, <1>4, <1>7

(* What a store does to the contents, by its address.                       *)
LEMMA Written ==
  ASSUME NEW a \in Address, NEW v
  PROVE  \/ WriteTo(memory_, a, v) = memory_ /\ ~Keeps(a)
         \/ WriteTo(memory_, a, v) = Put(memory_, Cell(a), v) /\ Keeps(a)
         \/ /\ Between(a, \hFF00, \hFF7F)
            /\ a = \hFF50 => ~is_set
            /\ \E w : WriteTo(memory_, a, v) = Put(memory_, <<"flag", a>>, w)
  <1>1. a \in Int /\ 0 <= a /\ a <= 65535
    BY AddressBounds
  <1>2. CASE a < 32768
    <2>1. Lookup(a) = "mbc"
      BY <1>1, <1>2, Segments
    <2>2. WriteTo(memory_, a, v) = memory_
      BY <1>2, <2>1 DEF WriteTo
    <2> QED
      BY <1>2, <1>1, <2>2 DEF Keeps, Between
  <1>3. CASE Between(a, \hFEA0, \hFEFF)
    <2>1. Lookup(a) = "not_usable"
      BY <1>1, <1>3, Segments DEF Between
    <2>2. WriteTo(memory_, a, v) = memory_
      BY <2>1 DEF WriteTo
    <2> QED
      BY <1>1, <1>3, <2>2 DEF Keeps, Between
  <1>4. CASE Between(a, \hFF00, \hFF7F)
    <2>1. Lookup(a) = "flag_container"
      BY <1>1, <1>4, Segments DEF Between
    <2>2. WriteTo(memory_, a, v) = WriteFlag(memory_, a, v)
      BY <2>1 DEF WriteTo
    <2>3. \/ WriteFlag(memory_, a, v) = memory_
          \/ /\ a = \hFF50 => ~is_set
             /\ \E w : WriteFlag(memory_, a, v) = Put(memory_, <<"flag", a>>, w)
      BY DEF WriteFlag
    <2> QED
      BY <1>1, <1>4, <2>2, <2>3 DEF Keeps, Between
  <1>5. CASE ~(a < 32768) /\ ~Between(a, \hFEA0, \hFEFF) /\ ~Between(a, \hFF00, \hFF7F)
    <2>1. Keeps(a)
      BY <1>1, <1>5 DEF Keeps, Between
    <2>2. Lookup(a) \notin {"flag_container", "not_usable"}
      BY <1>1, <1>5, Segments DEF Between
    <2>3. WriteTo(memory_, a, v) = Put(memory_, Cell(a), v)
      BY <1>1, <1>5, <2>2 DEF WriteTo
    <2> QED
      BY <2>1, <2>3
  <1> QED
    BY <1>2, <1>3, <1>4, <1>5

-----------------------------------------------------------------------------
(* The history is what reads return.                                        *)
ReadsSeen == reads = Observed

FlatStep == [Flat!Store \/ Flat!Transfer \/ Flat!LeaveBootROM]_<<reads, ~is_set>>

(* The state the memory starts in is that of the flat memory.               *)
LEMMA FlatInit ==
  ASSUME Init
  PROVE  ReadsSeen /\ Flat!FInit
  <1>1. ReadsSeen
    BY DEF Init, ReadsSeen
  <1>2. \A c : At(memory_, c) = 0
    BY DEF Init, At
  <1>3. is_set = FALSE /\ FlagAt(memory_, \hFF50) = 0
    BY <1>2 DEF is_set, FlagAt
  <1>4. ASSUME NEW a \in Probes
        PROVE  SeenIn(memory_, a) = IF a < 256 THEN kBootROM[a]
                                    ELSE IF a < \h8000 THEN Cartridge[a] ELSE 0
    BY <1>2, <1>3, ProbeKinds DEF SeenIn
  <1>5. reads = Seen(memory_)
    BY <1>1, ObservedIsSeen DEF ReadsSeen
  <1>6. reads = [a \in Probes |-> IF a < 256 THEN kBootROM[a]
                                  ELSE IF a < \h8000 THEN Cartridge[a] ELSE 0]
    BY <1>4, <1>5 DEF Seen
  <1> QED
    BY <1>1, <1>3, <1>6 DEF Flat!FInit

(* What is observed after a step.                                           *)
LEMMA ObservedNext ==
  Observed' = Seen(memory_')
  <1>1. (Observed = Seen(memory_))'
    BY ObservedIsSeen, PTL
  <1> QED
    BY <1>1

(* The store of the game.                                                   *)
LEMMA StoreFlat ==
  ASSUME ReadsSeen, Store
  PROVE  ReadsSeen' /\ FlatStep
  <1>1. reads = Seen(memory_) /\ reads' = Seen(memory_') /\ ReadsSeen'
    BY ObservedIsSeen, ObservedNext DEF ReadsSeen, Store
  <1>2. PICK s \in Stores : memory_' = WriteTo(memory_, s[1], s[2])
    BY DEF Store
  <1>3. s[1] \in Address
    BY MemoryAssumption
  <1>4. is_set' = (FlagAt(memory_', \hFF50) # 0) /\ is_set = (FlagAt(memory_, \hFF50) # 0)
    BY DEF is_set, FlagAt, At
  <1>5. CASE memory_' = memory_
    BY <1>1, <1>4, <1>5 DEF FlatStep
  <1>6. CASE memory_' = Put(memory_, Cell(s[1]), s[2]) /\ Keeps(s[1])
    <2>1. Flat!IsRAM(s[1])
      BY <1>6, AddressBounds DEF Keeps, Between, Flat!IsRAM
    <2>2. reads' = Flat!Stored(reads, s[1], s[2]) /\ is_set' = is_set
      BY <1>1, <1>4, <1>6, PutKept
    <2> QED
      BY <1>1, <2>1, <2>2 DEF FlatStep, Flat!Store
  <1>7. CASE /\ Between(s[1], \hFF00, \hFF7F)
             /\ s[1] = \hFF50 => ~is_set
             /\ \E w : memory_' = Put(memory_, <<"flag", s[1]>>, w)
    <2>1. PICK w : memory_' = Put(memory_, <<"flag", s[1]>>, w)
      BY <1>7
    <2> DEFINE f == s[1]
               n == Put(memory_, <<"flag", f>>, w)
    <2>2. f \in Address /\ Between(f, \hFF00, \hFF7F) /\ memory_' = n
      BY <1>3, <1>7, <2>1
    <2>3. f = \hFF50 => FlagAt(memory_, \hFF50) = 0
      BY <1>7 DEF is_set
    <2> HIDE DEF f
    <2>4. /\ f # \hFF50 => Seen(n) = Seen(memory_) /\ FlagAt(n, \hFF50) = FlagAt(memory_, \hFF50)
          /\ f = \hFF50 /\ FlagAt(memory_, \hFF50) = 0 =>
               /\ FlagAt(n, \hFF50) = w
               /\ w = 0 => Seen(n) = Seen(memory_)
               /\ w # 0 => Seen(n) = Flat!Uncovered(Seen(memory_))
      BY <2>2, PutFlag
    <2> HIDE DEF n
    <2>5. CASE f # \hFF50 \/ w = 0
      <3>1. reads' = reads
        BY <1>1, <2>2, <2>3, <2>4, <2>5
      <3>2. FlagAt(memory_', \hFF50) = FlagAt(memory_, \hFF50)
        BY <2>2, <2>3, <2>4, <2>5
      <3>3. is_set' = is_set
        BY <1>4, <3>2
      <3> QED
        BY <1>1, <3>1, <3>3 DEF FlatStep
    <2>6. CASE f = \hFF50 /\ w # 0
      <3>1. reads' = Flat!Uncovered(reads)
        BY <1>1, <2>2, <2>3, <2>4, <2>6
      <3>2. FlagAt(memory_, \hFF50) = 0 /\ FlagAt(memory_', \hFF50) # 0
        BY <2>2, <2>3, <2>4, <2>6
      <3>3. ~is_set /\ is_set'
        BY <3>2 DEF is_set, FlagAt, At
      <3> QED
        BY <1>1, <3>1, <3>3 DEF FlatStep, Flat!LeaveBootROM
    <2> QED
      BY <2>5, <2>6 DEF f
  <1> QED
    BY <1>2, <1>3, <1>5, <1>6, <1>7, Written

(* The transfer.                                                            *)
LEMMA TransferFlat ==
  ASSUME ReadsSeen, Transfer
  PROVE  ReadsSeen' /\ FlatStep
  <1>1. reads = Seen(memory_) /\ reads' = Seen(memory_') /\ ReadsSeen'
    BY ObservedIsSeen, ObservedNext DEF ReadsSeen, Transfer
  <1>2. PICK page \in Pages : memory_' = Transferred(memory_, page)
    BY DEF Transfer
  <1>3. is_set' = (FlagAt(memory_', \hFF50) # 0) /\ is_set = (FlagAt(memory_, \hFF50) # 0)
    BY DEF is_set, FlagAt, At
  <1>4. reads' = Flat!Transferred(reads, page) /\ is_set' = is_set
    BY <1>1, <1>2, <1>3, TransferFills
  <1> QED
    BY <1>1, <1>4 DEF FlatStep, Flat!Transfer

(* The request of the joypad's interrupt, which changes a flag.             *)
LEMMA RequestFlat ==
  ASSUME ReadsSeen, reads' = Observed',
         NEW w, memory_' = Put(memory_, <<"flag", \hFF0F>>, w)
  PROVE  ReadsSeen' /\ FlatStep
  <1>1. reads = Seen(memory_) /\ reads' = Seen(memory_') /\ ReadsSeen'
    BY ObservedIsSeen, ObservedNext DEF ReadsSeen
  <1>2. \hFF0F \in Address /\ Between(\hFF0F, \hFF00, \hFF7F)
    BY AddressBounds DEF Between
  <1>3. is_set' = (FlagAt(memory_', \hFF50) # 0) /\ is_set = (FlagAt(memory_, \hFF50) # 0)
    BY DEF is_set, FlagAt, At
  <1>4. reads' = reads /\ is_set' = is_set
    BY <1>1, <1>2, <1>3, PutFlag
  <1> QED
    BY <1>1, <1>4 DEF FlatStep

(* Every other step leaves memory, and what is read of it, as it was.       *)
LEMMA QuietFlat ==
  ASSUME ReadsSeen, UNCHANGED <<memory_, reads>>
  PROVE  ReadsSeen' /\ FlatStep
  <1>1. ReadsSeen'
    BY ObservedIsSeen, ObservedNext DEF ReadsSeen
  <1>2. is_set' = is_set
    BY DEF is_set, FlagAt, At
  <1> QED
    BY <1>1, <1>2 DEF FlatStep

(* Every step is a step of the flat memory.                                 *)
LEMMA StepFlat ==
  ReadsSeen /\ [Next]_vars => ReadsSeen' /\ FlatStep
  <1> SUFFICES ASSUME ReadsSeen, [Next]_vars
               PROVE  ReadsSeen' /\ FlatStep
    OBVIOUS
  <1>1. CASE Store
    BY <1>1, StoreFlat
  <1>2. CASE Transfer
    BY <1>2, TransferFlat
  <1>3. CASE Select
    BY <1>3, QuietFlat DEF Select
  <1>4. CASE Change
    BY <1>4, QuietFlat DEF Change
  <1>5. CASE Press
    BY <1>5, QuietFlat DEF Press, mvars
  <1>6. CASE Request
    <2>1. CASE UNCHANGED mvars
      BY <2>1, QuietFlat DEF mvars
    <2>2. CASE ~UNCHANGED mvars
      BY <1>6, <2>2, RequestFlat DEF Request
    <2> QED
      BY <2>1, <2>2
  <1>7. CASE Draw
    BY <1>7, QuietFlat DEF Draw
  <1>8. CASE Load
    BY <1>8, QuietFlat DEF Load, vars, mvars
  <1>9. CASE UNCHANGED vars
    BY <1>9, QuietFlat DEF vars, mvars
  <1> QED
    BY <1>1, <1>2, <1>3, <1>4, <1>5, <1>6, <1>7, <1>8, <1>9 DEF Next

(* Whatever the game stores and transfers, in whatever order, and whatever  *)
(* addresses are looked at: the segments, the echo, the parts of VRAM, the  *)
(* boot ROM and the transfer add up to the flat memory.                     *)
THEOREM MemoryIsFlat ==
  Spec => ImplementsFlatMemory
  <1>1. Init => ReadsSeen /\ Flat!FInit
    BY FlatInit
  <1>2. FlatStep => [Flat!Store \/ Flat!Transfer \/ Flat!LeaveBootROM]_Flat!fvars
    BY DEF FlatStep, Flat!fvars
  <1> QED
    BY <1>1, <1>2, StepFlat, PTL DEF Spec, ImplementsFlatMemory, Flat!FSpec

-------------------------------------------------------------------
(* The sum of a set of bits, which SumSet folds in an order it chooses:     *)
(* each bit counts once.                                                    *)
Weigh(s, bit) == IF bit \in s THEN bit ELSE 0

Weight(s) == Weigh(s, 1) + Weigh(s, 2) + Weigh(s, 4) + Weigh(s, 8)

One(s) == CHOOSE x \in s : TRUE

Folded(g, S) ==
  g = [s \in SUBSET S |-> IF s = {} THEN 0 ELSE One(s) + g[s \ {One(s)}]]

LEMMA WeightFolds ==
  ASSUME NEW s \in SUBSET Nibble, s # {}
  PROVE  /\ One(s) \in s
         /\ Weight(s) = One(s) + Weight(s \ {One(s)})
  <1>1. One(s) \in s
    BY DEF One
  <1>2. \A x \in s : Weight(s) = x + Weight(s \ {x})
    BY DEF Weight, Weigh, Nibble
  <1> QED
    BY <1>1, <1>2

LEMMA SumOfBits ==
  ASSUME NEW S \in SUBSET Nibble
  PROVE  SumSet(S) = Weight(S)
  <1> DEFINE f == [s \in SUBSET S |-> Weight(s)]
             g == CHOOSE h : Folded(h, S)
             Size(s) == (IF 1 \in s THEN 1 ELSE 0) + (IF 2 \in s THEN 1 ELSE 0)
                        + (IF 4 \in s THEN 1 ELSE 0) + (IF 8 \in s THEN 1 ELSE 0)
             Agree(n) == \A s \in SUBSET S : Size(s) <= n => g[s] = Weight(s)
  <1>1. SumSet(S) = g[S]
    BY Zenon DEF SumSet, FoldSet, MapThenFoldSet, Folded, One
  <1>2. Weight({}) = 0
    BY DEF Weight, Weigh
  <1>3. \A s \in SUBSET S : s # {} =>
          /\ One(s) \in s
          /\ s \ {One(s)} \in SUBSET S
          /\ Weight(s) = One(s) + Weight(s \ {One(s)})
    BY WeightFolds
  <1>4. Folded(f, S)
    BY <1>2, <1>3 DEF Folded
  <1>5. Folded(g, S)
    BY <1>4, Zenon
  <1> HIDE DEF g
  <1>6. \A s \in SUBSET S :
          g[s] = IF s = {} THEN 0 ELSE One(s) + g[s \ {One(s)}]
    BY <1>5, Zenon DEF Folded
  <1>7. \A s \in SUBSET S : /\ Size(s) <= 0 => s = {}
                            /\ Size(s) \in 0 .. 4
                            /\ s # {} => Size(s \ {One(s)}) = Size(s) - 1
    <2>1. \A s \in SUBSET S : Size(s) <= 0 => s = {}
      BY DEF Nibble
    <2>2. \A s \in SUBSET S : \A x \in s : Size(s \ {x}) = Size(s) - 1
      BY DEF Nibble
    <2> QED
      BY <1>3, <2>1, <2>2
  <1> HIDE DEF Size
  <1>8. Agree(0)
    BY <1>2, <1>6, <1>7
  <1>9. ASSUME NEW n \in Nat, Agree(n) PROVE Agree(n + 1)
    <2> SUFFICES ASSUME NEW s \in SUBSET S, Size(s) <= n + 1
                 PROVE  g[s] = Weight(s)
      OBVIOUS
    <2>1. CASE s = {}
      BY <2>1, <1>2, <1>6
    <2>2. CASE s # {}
      <3>1. s \ {One(s)} \in SUBSET S /\ Size(s \ {One(s)}) <= n
        BY <2>2, <1>3, <1>7
      <3>2. g[s \ {One(s)}] = Weight(s \ {One(s)})
        BY <3>1, <1>9
      <3> QED
        BY <2>2, <3>2, <1>3, <1>6
    <2> QED
      BY <2>1, <2>2
  <1>10. Agree(4)
    <2>1. Agree(0 + 1)
      BY <1>8, <1>9
    <2>2. Agree(1 + 1)
      BY <2>1, <1>9
    <2>3. Agree(2 + 1)
      BY <2>2, <1>9
    <2> QED
      BY <2>3, <1>9
  <1>11. Size(S) <= 4
    <2>1. Size(S) \in 0 .. 4
      BY <1>7, Zenon
    <2> QED
      BY <2>1
  <1> QED
    BY <1>1, <1>10, <1>11

(* The value of the bits that are left when some are cleared.               *)
LEMMA ValueOfRest ==
  ASSUME NEW S \in SUBSET Nibble
  PROVE  Value(Nibble \ S) = 15 - Value(S)
  <1>1. Value(S) = Weight(S) /\ Value(Nibble \ S) = Weight(Nibble \ S)
    BY SumOfBits DEF Value
  <1>2. Weight(Nibble \ S) = 15 - Weight(S)
    BY DEF Weight, Weigh, Nibble
  <1> QED
    BY <1>1, <1>2
-----------------------------------------------------------------------------
(* What the user-interface thread has in hand, and the keys as the matrices *)
(* may know them: those held, but for the one not yet stored.               *)
InHand ==
  \/ pressing = Idle
  \/ \E key \in Keys :
       pressing = [step |-> "matrix", key |-> key, is_pushed |-> key \in held]
  \/ pressing.step \in {"load", "store"}

Known(keys) ==
  /\ keys \in SUBSET Keys
  /\ IF pressing.step = "matrix" THEN keys \ {pressing.key} = held \ {pressing.key}
     ELSE keys = held

ButtonBits(keys) == {Button[key] : key \in keys \cap DOMAIN Button}
DirectionBits(keys) == {Direction[key] : key \in keys \cap DOMAIN Direction}

KeysInv ==
  /\ held \subseteq Keys
  /\ InHand
  /\ \E keys : /\ Known(keys)
               /\ button_keys_ = Nibble \ ButtonBits(keys)
               /\ direction_keys_ = Nibble \ DirectionBits(keys)

LEMMA Matrices ==
  /\ DOMAIN Button = {"a", "b", "select", "start"}
  /\ Button["a"] = 1 /\ Button["b"] = 2 /\ Button["select"] = 4 /\ Button["start"] = 8
  /\ DOMAIN Direction = {"right", "left", "up", "down"}
  /\ Direction["right"] = 1 /\ Direction["left"] = 2 /\ Direction["up"] = 4
  /\ Direction["down"] = 8
  /\ Keys = {"a", "b", "select", "start", "right", "left", "up", "down"}
  BY DEF Button, Direction, Keys

(* No two keys of a matrix share a bit, and no key is in both: to change a  *)
(* key is to change its bit, in its matrix alone.                           *)
LEMMA OneBitEach ==
  ASSUME NEW keys \in SUBSET Keys, NEW key \in Keys
  PROVE  /\ ButtonBits(keys) \in SUBSET Nibble
         /\ DirectionBits(keys) \in SUBSET Nibble
         /\ IF key \in DOMAIN Button
            THEN /\ ButtonBits(keys \ {key}) = ButtonBits(keys) \ {Button[key]}
                 /\ ButtonBits(keys \cup {key}) = ButtonBits(keys) \cup {Button[key]}
                 /\ Button[key] \in Nibble
                 /\ DirectionBits(keys \ {key}) = DirectionBits(keys)
                 /\ DirectionBits(keys \cup {key}) = DirectionBits(keys)
            ELSE /\ DirectionBits(keys \ {key}) = DirectionBits(keys) \ {Direction[key]}
                 /\ DirectionBits(keys \cup {key}) = DirectionBits(keys) \cup {Direction[key]}
                 /\ Direction[key] \in Nibble
                 /\ ButtonBits(keys \ {key}) = ButtonBits(keys)
                 /\ ButtonBits(keys \cup {key}) = ButtonBits(keys)
  <1>1. \A ks \in SUBSET Keys : ButtonBits(ks) \in SUBSET Nibble
                              /\ DirectionBits(ks) \in SUBSET Nibble
    BY Matrices DEF ButtonBits, DirectionBits, Nibble
  <1>2. CASE key \in DOMAIN Button
    <2>1. key \notin DOMAIN Direction /\ Button[key] \in Nibble
      BY <1>2, Matrices DEF Nibble
    <2>2. \A other \in DOMAIN Button : Button[other] = Button[key] => other = key
      BY <1>2, Matrices
    <2>3. ButtonBits(keys \ {key}) = ButtonBits(keys) \ {Button[key]}
      BY <2>2, Zenon DEF ButtonBits
    <2>4. ButtonBits(keys \cup {key}) = ButtonBits(keys) \cup {Button[key]}
      BY <1>2, Zenon DEF ButtonBits
    <2>5. /\ (keys \ {key}) \cap DOMAIN Direction = keys \cap DOMAIN Direction
          /\ (keys \cup {key}) \cap DOMAIN Direction = keys \cap DOMAIN Direction
      BY <2>1, Zenon
    <2> QED
      BY <1>1, <1>2, <2>1, <2>3, <2>4, <2>5, Zenon DEF DirectionBits
  <1>3. CASE key \notin DOMAIN Button
    <2>1. key \in DOMAIN Direction /\ Direction[key] \in Nibble
      BY <1>3, Matrices DEF Nibble
    <2>2. \A other \in DOMAIN Direction : Direction[other] = Direction[key] => other = key
      BY <2>1, Matrices
    <2>3. DirectionBits(keys \ {key}) = DirectionBits(keys) \ {Direction[key]}
      BY <2>2, Zenon DEF DirectionBits
    <2>4. DirectionBits(keys \cup {key}) = DirectionBits(keys) \cup {Direction[key]}
      BY <2>1, Zenon DEF DirectionBits
    <2>5. /\ (keys \ {key}) \cap DOMAIN Button = keys \cap DOMAIN Button
          /\ (keys \cup {key}) \cap DOMAIN Button = keys \cap DOMAIN Button
      BY <1>3, Zenon
    <2> QED
      BY <1>1, <1>3, <2>1, <2>3, <2>4, <2>5, Zenon DEF ButtonBits
  <1> QED
    BY <1>2, <1>3

LEMMA KeysInit == JoypadInit => KeysInv
  <1> SUFFICES ASSUME JoypadInit PROVE KeysInv
    OBVIOUS
  <1>1. pressing.step # "matrix" /\ held = {} /\ InHand
    BY DEF JoypadInit, Idle, InHand
  <1>2. Known({}) /\ ButtonBits({}) = {} /\ DirectionBits({}) = {}
    BY <1>1 DEF Known, ButtonBits, DirectionBits
  <1> QED
    BY <1>1, <1>2 DEF JoypadInit, KeysInv

LEMMA KnownAfter ==
  ASSUME NEW keys, held' \subseteq Keys, InHand', Known(keys)',
         button_keys_' = Nibble \ ButtonBits(keys),
         direction_keys_' = Nibble \ DirectionBits(keys)
  PROVE  KeysInv'
  BY DEF KeysInv, ButtonBits, DirectionBits

LEMMA ChangeKeyInv ==
  ASSUME KeysInv, ChangeKey
  PROVE  KeysInv'
  <1>1. PICK key \in Keys, is_pushed \in BOOLEAN :
          /\ held' = IF is_pushed THEN held \cup {key} ELSE held \ {key}
          /\ pressing' = [step |-> "matrix", key |-> key, is_pushed |-> is_pushed]
    BY KeysAssumption DEF ChangeKey
  <1>2. pressing = Idle /\ UNCHANGED <<button_keys_, direction_keys_>>
    BY DEF ChangeKey, matrices
  <1>3. held' \subseteq Keys /\ held' \ {key} = held \ {key}
    BY <1>1 DEF KeysInv
  <1>4. InHand'
    <2>1. CASE is_pushed = TRUE
      <3>1. (key \in held') = TRUE
        BY <1>1, <2>1
      <3> QED
        BY <1>1, <2>1, <3>1 DEF InHand
    <2>2. CASE is_pushed = FALSE
      <3>1. (key \in held') = FALSE
        BY <1>1, <2>2
      <3> QED
        BY <1>1, <2>2, <3>1 DEF InHand
    <2> QED
      BY <2>1, <2>2
  <1>5. PICK keys : keys = held
    OBVIOUS
  <1>6. /\ button_keys_ = Nibble \ ButtonBits(keys)
        /\ direction_keys_ = Nibble \ DirectionBits(keys)
    BY <1>2, <1>5 DEF KeysInv, Known, Idle
  <1>7. Known(keys)'
    BY <1>1, <1>3, <1>5 DEF Known, KeysInv
  <1> QED
    BY <1>2, <1>3, <1>4, <1>6, <1>7, KnownAfter

LEMMA SetKeyInv ==
  ASSUME KeysInv, SetKey
  PROVE  KeysInv'
  <1>1. PICK key \in Keys :
          pressing = [step |-> "matrix", key |-> key, is_pushed |-> key \in held]
    BY DEF KeysInv, InHand, SetKey, Idle
  <1>2. pressing.key = key /\ (pressing.is_pushed <=> key \in held)
    BY <1>1
  <1>3. PICK keys :
          /\ Known(keys)
          /\ button_keys_ = Nibble \ ButtonBits(keys)
          /\ direction_keys_ = Nibble \ DirectionBits(keys)
    BY DEF KeysInv
  <1>4. /\ keys \in SUBSET Keys
        /\ key \in held => held = keys \cup {key}
        /\ key \notin held => held = keys \ {key}
    <2>1. keys \in SUBSET Keys /\ keys \ {key} = held \ {key}
      BY <1>1, <1>2, <1>3 DEF Known
    <2> QED
      BY <2>1
  <1>5. held' = held /\ pressing' = [step |-> "load"]
    BY DEF SetKey
  <1>6. InHand' /\ held' \subseteq Keys
    BY <1>5 DEF InHand, KeysInv
  <1>7. PICK after : after = held
    OBVIOUS
  <1>8. button_keys_' = Nibble \ ButtonBits(held)
        /\ direction_keys_' = Nibble \ DirectionBits(held)
    <2>1. CASE key \in DOMAIN Button
      <3>1. direction_keys_' = direction_keys_
            /\ button_keys_' = Updated(button_keys_, Button[key], key \in held)
        BY <1>2, <2>1 DEF SetKey, Updated
      <3>2. /\ ButtonBits(keys \ {key}) = ButtonBits(keys) \ {Button[key]}
            /\ ButtonBits(keys \cup {key}) = ButtonBits(keys) \cup {Button[key]}
            /\ Button[key] \in Nibble
            /\ DirectionBits(held) = DirectionBits(keys)
        BY <1>4, <2>1, OneBitEach
      <3>3. CASE key \in held
        BY <1>3, <1>4, <3>1, <3>2, <3>3, Zenon DEF Updated
      <3>4. CASE key \notin held
        BY <1>3, <1>4, <3>1, <3>2, <3>4, Zenon DEF Updated
      <3> QED
        BY <3>3, <3>4
    <2>2. CASE key \notin DOMAIN Button
      <3>1. button_keys_' = button_keys_
            /\ direction_keys_' = Updated(direction_keys_, Direction[key], key \in held)
        BY <1>2, <2>2 DEF SetKey, Updated
      <3>2. /\ DirectionBits(keys \ {key}) = DirectionBits(keys) \ {Direction[key]}
            /\ DirectionBits(keys \cup {key}) = DirectionBits(keys) \cup {Direction[key]}
            /\ Direction[key] \in Nibble
        BY <1>4, <2>2, OneBitEach
      <3>5. ButtonBits(held) = ButtonBits(keys)
        BY <1>4, <2>2, Zenon DEF ButtonBits
      <3>3. CASE key \in held
        BY <1>3, <1>4, <3>1, <3>2, <3>3, <3>5, Zenon DEF Updated
      <3>4. CASE key \notin held
        BY <1>3, <1>4, <3>1, <3>2, <3>4, <3>5, Zenon DEF Updated
      <3> QED
        BY <3>3, <3>4
    <2> QED
      BY <2>1, <2>2
  <1>9. Known(after)'
    BY <1>5, <1>7 DEF Known, KeysInv
  <1> QED
    BY <1>6, <1>7, <1>8, <1>9, KnownAfter

LEMMA RequestInv ==
  ASSUME KeysInv, Request
  PROVE  KeysInv'
  <1>1. pressing.step # "matrix" /\ pressing'.step # "matrix"
    BY DEF Request, LoadRequest, StoreRequest, Idle
  <1>2. InHand'
    BY DEF Request, LoadRequest, StoreRequest, InHand
  <1>3. UNCHANGED <<button_keys_, direction_keys_, held>>
    BY DEF Request, LoadRequest, StoreRequest, matrices
  <1>4. PICK keys : keys = held
    OBVIOUS
  <1>5. /\ button_keys_ = Nibble \ ButtonBits(keys)
        /\ direction_keys_ = Nibble \ DirectionBits(keys)
    BY <1>1, <1>4 DEF KeysInv, Known
  <1>6. Known(keys)' /\ held' \subseteq Keys
    BY <1>1, <1>3, <1>4 DEF Known, KeysInv
  <1> QED
    BY <1>2, <1>3, <1>5, <1>6, KnownAfter

LEMMA KeysUndisturbed ==
  ASSUME KeysInv, UNCHANGED <<button_keys_, direction_keys_, pressing, held>>
  PROVE  KeysInv'
  <1>1. PICK keys :
          /\ Known(keys)
          /\ button_keys_ = Nibble \ ButtonBits(keys)
          /\ direction_keys_ = Nibble \ DirectionBits(keys)
    BY DEF KeysInv
  <1>2. Known(keys)' /\ InHand' /\ held' \subseteq Keys
    BY <1>1 DEF Known, InHand, KeysInv
  <1> QED
    BY <1>1, <1>2 DEF KeysInv, ButtonBits, DirectionBits

LEMMA KeysStep == KeysInv /\ [Next]_vars => KeysInv'
  <1> SUFFICES ASSUME KeysInv, [Next]_vars PROVE KeysInv'
    OBVIOUS
  <1>1. CASE Change
    BY <1>1, ChangeKeyInv DEF Change
  <1>2. CASE Press
    BY <1>2, SetKeyInv DEF Press
  <1>3. CASE Request
    BY <1>3, RequestInv
  <1>4. CASE Select
    BY <1>4, KeysUndisturbed DEF Select, WriteJoypad, matrices
  <1>5. CASE Store \/ Transfer \/ Draw \/ Load \/ UNCHANGED vars
    BY <1>5, KeysUndisturbed
    DEF Store, Transfer, Draw, Load, vars, jvars, matrices
  <1> QED
    BY <1>1, <1>2, <1>3, <1>4, <1>5 DEF Next

LEMMA KeysRead ==
  ASSUME KeysInv
  PROVE  KeysShown
  <1> SUFFICES ASSUME pressing.step # "matrix" PROVE KeysShown
    BY DEF KeysShown
  <1>1. /\ button_keys_ = Nibble \ ButtonBits(held)
        /\ direction_keys_ = Nibble \ DirectionBits(held)
    BY DEF KeysInv, Known
  <1>2. ButtonBits(held) \in SUBSET Nibble /\ DirectionBits(held) \in SUBSET Nibble
    BY OneBitEach, Matrices DEF KeysInv
  <1>3. /\ Value(button_keys_) = 15 - Value(ButtonBits(held))
        /\ Value(direction_keys_) = 15 - Value(DirectionBits(held))
    BY <1>1, <1>2, ValueOfRest
  <1>4. is_button_keys_selected_ /\ ~is_direction_keys_selected_ =>
          ReadJoypad = 0 + 16 + Value(button_keys_)
    BY DEF ReadJoypad, Shown
  <1>5. ~is_button_keys_selected_ /\ is_direction_keys_selected_ =>
          ReadJoypad = 32 + 0 + Value(direction_keys_)
    BY DEF ReadJoypad, Shown
  <1> QED
    BY <1>3, <1>4, <1>5 DEF KeysShown, ButtonBits, DirectionBits

(* Whichever keys are pressed and released, and however the thread of the   *)
(* user interface and the game interleave, the joypad shows the keys held.  *)
THEOREM JoypadShowsKeys == Spec => []KeysShown
  <1>1. Init => KeysInv
    BY KeysInit DEF Init
  <1>2. Spec => []KeysInv
    BY <1>1, KeysStep, PTL DEF Spec
  <1> QED
    BY <1>2, KeysRead, PTL

-----------------------------------------------------------------------------
(* The two parts of a register of seven bits.                               *)
LEMMA Parts ==
  ASSUME NEW r \in 0 .. 127
  PROVE  /\ r % 32 \in 0 .. 31 /\ r \div 32 \in 0 .. 3
         /\ r = 32 * (r \div 32) + (r % 32)
  OBVIOUS

LEMMA Joined ==
  ASSUME NEW u \in 0 .. 3, NEW l \in 0 .. 31
  PROVE  /\ (32 * u) + l \in 0 .. 127
         /\ ((32 * u) + l) % 32 = l /\ ((32 * u) + l) \div 32 = u
  OBVIOUS

(* What a byte leaves in the register.                                      *)
LEMMA LowerWritten ==
  ASSUME NEW r \in 0 .. 127, NEW value \in 0 .. 255
  PROVE  /\ LowerBits(r, value) \in 0 .. 127
         /\ LowerBits(r, value) % 32 # 0
         /\ value % 32 = 0 =>
              LowerBits(r, value) % 32 = 1 /\ LowerBits(r, value) \div 32 = 0
         /\ value % 32 # 0 => /\ LowerBits(r, value) % 32 \in 1 .. 31
                              /\ LowerBits(r, value) \div 32 = r \div 32
  <1>1. value % 32 \in 0 .. 31 /\ r \div 32 \in 0 .. 3
    OBVIOUS
  <1>2. CASE value % 32 = 0
    <2>1. LowerBits(r, value) = 1
      BY <1>2 DEF LowerBits
    <2> QED
      BY <1>2, <2>1
  <1>3. CASE value % 32 # 0
    <2>1. LowerBits(r, value) = (32 * (r \div 32)) + (value % 32)
      BY <1>3 DEF LowerBits
    <2> QED
      BY <1>1, <1>3, <2>1, Joined
  <1> QED
    BY <1>2, <1>3

LEMMA UpperWritten ==
  ASSUME NEW r \in 0 .. 127, NEW value \in 0 .. 255
  PROVE  /\ UpperBits(r, value) \in 0 .. 127
         /\ UpperBits(r, value) % 32 = r % 32
         /\ UpperBits(r, value) \div 32 \in 0 .. 3
  <1>1. value % 4 \in 0 .. 3 /\ r % 32 \in 0 .. 31
    OBVIOUS
  <1>2. UpperBits(r, value) = (32 * (value % 4)) + (r % 32)
    BY <1>1 DEF UpperBits
  <1> QED
    BY <1>1, <1>2, Joined

(* SetLowerBits never leaves the lower bits zero and SetUpperBits keeps     *)
(* them: once selected, they stay a bank.                                   *)
LowerSelected == selected => ~Skipped(register_)

MBCInv == MBCTypeOK /\ LowerSelected

LEMMA GetRAMBankType ==
  ASSUME MBCTypeOK
  PROVE  GetRAMBank \in 0 .. 3
         /\ GetRAMBank = IF is_ram_mode_ THEN register_ \div 32 ELSE 0
  <1>1. register_ \div 32 \in 0 .. 3
    BY Parts DEF MBCTypeOK
  <1>2. (register_ \div 32) % 4 = register_ \div 32
    BY <1>1
  <1> QED
    BY <1>1, <1>2 DEF GetRAMBank

LEMMA MBCInvInit == MBCInit => MBCInv
  <1>1. 0 \in 0 .. 127
    OBVIOUS
  <1> QED
    BY <1>1, Zenon DEF MBCInit, MBCInv, MBCTypeOK, LowerSelected

LEMMA MBCInvStep == MBCInv /\ [MBCNext]_mbcvars => MBCInv'
  <1> SUFFICES ASSUME MBCInv, [MBCNext]_mbcvars PROVE MBCInv'
    OBVIOUS
  <1>1. CASE SetRAMEnabled
    BY <1>1 DEF SetRAMEnabled, MBCInv, MBCTypeOK, LowerSelected
  <1>2. ASSUME NEW value \in LowerValues, SetLowerBits(value)
        PROVE  MBCInv'
    <2>1. value \in 0 .. 255 /\ register_' = LowerBits(register_, value)
      BY <1>2, ValuesAssumption DEF SetLowerBits
    <2>2. register_' \in 0 .. 127 /\ register_' % 32 # 0
      <3>1. register_ \in 0 .. 127
        BY DEF MBCInv, MBCTypeOK
      <3> QED
        BY <2>1, <3>1, LowerWritten
    <2> QED
      BY <1>2, <2>2
      DEF SetLowerBits, MBCInv, MBCTypeOK, LowerSelected, Skipped
  <1>3. CASE SetUpperBits
    <2>1. PICK value \in 0 .. 255 : register_' = UpperBits(register_, value)
      BY <1>3, ValuesAssumption DEF SetUpperBits
    <2>2. register_' \in 0 .. 127 /\ register_' % 32 = register_ % 32
      BY <2>1, UpperWritten DEF MBCInv, MBCTypeOK
    <2> QED
      BY <1>3, <2>2
      DEF SetUpperBits, MBCInv, MBCTypeOK, LowerSelected, Skipped
  <1>4. CASE SetIsRAMMode
    BY <1>4 DEF SetIsRAMMode, MBCInv, MBCTypeOK, LowerSelected
  <1>5. CASE WriteRAM
    BY <1>5, GetRAMBankType DEF WriteRAM, MBCInv, MBCTypeOK, LowerSelected
  <1>6. CASE UNCHANGED mbcvars
    BY <1>6 DEF mbcvars, MBCInv, MBCTypeOK, LowerSelected
  <1> QED
    BY <1>1, <1>2, <1>3, <1>4, <1>5, <1>6 DEF MBCNext

LEMMA MBCInvariant == MBCSpec => []MBCInv
  BY MBCInvInit, MBCInvStep, PTL DEF MBCSpec

(* The registers keep their widths, whatever bytes a game writes.           *)
THEOREM MBCTypeCorrect == MBCSpec => []MBCTypeOK
  <1>1. MBCInv => MBCTypeOK
    BY DEF MBCInv
  <1> QED
    BY <1>1, MBCInvariant, PTL

-----------------------------------------------------------------------------
Rank(bank) == Cardinality({b \in 1 .. bank - 1 : ~Skipped(b)})

(* How many of the banks below one are not skipped: those of the rows of 32 *)
(* below it, all but the first of each, and those of its own row.           *)
LEMMA RankOfBank ==
  ASSUME NEW u \in 0 .. 3, NEW l \in 1 .. 31
  PROVE  Rank((32 * u) + l) = (31 * u) + l - 1
  <1> DEFINE n == (32 * u) + l - 1
             below == 1 .. n
             kept == {b \in below : ~Skipped(b)}
  <1>1. n \in 0 .. 126 /\ n = (32 * u) + l - 1
    OBVIOUS
  <1>2. IsFiniteSet(below) /\ Cardinality(below) = n
    BY <1>1, FS_Interval
  <1>3. /\ u = 0 => kept = below
        /\ u = 1 => kept = below \ {32} /\ 32 \in below
        /\ u = 2 => /\ kept = (below \ {32}) \ {64}
                   /\ 32 \in below /\ 64 \in below \ {32}
        /\ u = 3 => /\ kept = ((below \ {32}) \ {64}) \ {96}
                   /\ 32 \in below /\ 64 \in below \ {32}
                   /\ 96 \in (below \ {32}) \ {64}
    BY DEF Skipped
  <1> HIDE DEF n, below, kept
  <1>4. 32 \in below => /\ IsFiniteSet(below \ {32})
                        /\ Cardinality(below \ {32}) = n - 1
    BY <1>2, FS_RemoveElement
  <1>5. 32 \in below /\ 64 \in below \ {32} =>
          /\ IsFiniteSet((below \ {32}) \ {64})
          /\ Cardinality((below \ {32}) \ {64}) = n - 2
    BY <1>1, <1>4, FS_RemoveElement
  <1>6. 32 \in below /\ 64 \in below \ {32} /\ 96 \in (below \ {32}) \ {64} =>
          Cardinality(((below \ {32}) \ {64}) \ {96}) = n - 3
    BY <1>1, <1>5, FS_RemoveElement
  <1>7. Cardinality(kept) = n - u
    <2>1. u \in {0, 1, 2, 3}
      OBVIOUS
    <2>2. CASE u = 0
      BY <2>2, <1>1, <1>2, <1>3
    <2>3. CASE u = 1
      BY <2>3, <1>3, <1>4
    <2>4. CASE u = 2
      BY <2>4, <1>3, <1>5
    <2>5. CASE u = 3
      BY <2>5, <1>3, <1>6
    <2> QED
      BY <2>1, <2>2, <2>3, <2>4, <2>5
  <1> QED
    BY <1>1, <1>7 DEF kept, below, n, Rank

(* Once a game has selected a bank, the index computed is the rank of the   *)
(* bank among those an MBC1 does not skip, for every order of writes to the *)
(* registers.                                                               *)
THEOREM BanksRanked == MBCSpec => []IndexIsRank
  <1>1. MBCInv => IndexIsRank
    <2> SUFFICES ASSUME MBCInv, selected PROVE IndexIsRank
      BY DEF IndexIsRank
    <2> DEFINE u == IF is_ram_mode_ THEN 0 ELSE register_ \div 32
               l == register_ % 32
    <2>1. /\ register_ \in 0 .. 127 /\ l \in 1 .. 31
          /\ register_ \div 32 \in 0 .. 3 /\ is_ram_mode_ \in BOOLEAN
      BY Parts DEF MBCInv, MBCTypeOK, LowerSelected, Skipped
    <2>2. u \in 0 .. 3
      BY <2>1
    <2>3. Abstract!RomBank = (32 * u) + l
      BY <2>1 DEF Abstract!RomBank
    <2>4. GetROMBank = (32 * u) + l
      <3>1. register_ % 128 = register_ /\ register_ = 32 * (register_ \div 32) + l
        BY <2>1, Parts
      <3> QED
        BY <2>1, <3>1 DEF GetROMBank
    <2> HIDE DEF u, l
    <2>5. ~Skipped((32 * u) + l)
      BY <2>1, <2>2, Joined DEF Skipped
    <2>6. BankIndex((32 * u) + l) = (31 * u) + l - 1
      BY <2>1, <2>2 DEF BankIndex
    <2>7. Rank((32 * u) + l) = (31 * u) + l - 1
      BY <2>1, <2>2, RankOfBank
    <2>8. ComputeROMBank = (31 * u) + l - 1
      BY <2>4, <2>6 DEF ComputeROMBank
    <2>9. ~Skipped(Abstract!RomBank) /\ ComputeROMBank = Rank(Abstract!RomBank)
      BY <2>3, <2>5, <2>7, <2>8
    <2> QED
      BY <2>9, Zenon DEF IndexIsRank, Rank
  <1> QED
    BY <1>1, MBCInvariant, PTL

-----------------------------------------------------------------------------
LEMMA SelectInit == MBCInit => Abstract!Init
  BY DEF MBCInit, Abstract!Init

LEMMA SelectStep ==
  MBCInv /\ [MBCNext]_mbcvars => [Abstract!Next \/ ZeroClearsUpper]_(Abstract!vars)
  <1> SUFFICES ASSUME MBCInv, [MBCNext]_mbcvars
               PROVE  Abstract!Next \/ ZeroClearsUpper \/ UNCHANGED Abstract!vars
    OBVIOUS
  <1>0. register_ \in 0 .. 127
    BY DEF MBCInv, MBCTypeOK
  <1>1. CASE SetRAMEnabled
    BY <1>1 DEF SetRAMEnabled, Abstract!Next, Abstract!Enable
  <1>2. ASSUME NEW value \in LowerValues, SetLowerBits(value)
        PROVE  Abstract!Next \/ ZeroClearsUpper
    <2>1. value \in 0 .. 255 /\ register_' = LowerBits(register_, value)
      BY <1>2, ValuesAssumption DEF SetLowerBits
    <2>2. UNCHANGED <<is_ram_mode_, ram_enabled_, ram>>
      BY <1>2 DEF SetLowerBits
    <2>3. CASE value % 32 = 0 /\ register_ >= 32
      <3>1. register_' \div 32 = 0
        BY <1>0, <2>1, <2>3, LowerWritten
      <3>2. register_ \div 32 # 0
        BY <1>0, <2>3
      <3>3. ASSUME NEW other \in LowerValues, SetLowerBits(other)
            PROVE  other % 32 = 0
        <4>1. other \in 0 .. 255 /\ register_' = LowerBits(register_, other)
          BY <3>3, ValuesAssumption DEF SetLowerBits
        <4> QED
          BY <1>0, <3>1, <3>2, <4>1, LowerWritten
      <3> QED
        BY <1>2, <2>3, <3>3 DEF ZeroClearsUpper
    <2>4. CASE value % 32 = 0 /\ ~(register_ >= 32)
      <3>1. register_' % 32 = 1 /\ register_' \div 32 = 0
        BY <1>0, <2>1, <2>4, LowerWritten
      <3>2. register_ \div 32 = 0
        BY <1>0, <2>4
      <3> QED
        BY <2>2, <3>1, <3>2 DEF Abstract!Next, Abstract!WriteLower
    <2>5. CASE value % 32 # 0
      <3>1. register_' % 32 \in 1 .. 31 /\ register_' \div 32 = register_ \div 32
        BY <1>0, <2>1, <2>5, LowerWritten
      <3> QED
        BY <2>2, <3>1 DEF Abstract!Next, Abstract!WriteLower
    <2> QED
      BY <2>3, <2>4, <2>5
  <1>3. CASE SetUpperBits
    <2>1. PICK value \in 0 .. 255 : register_' = UpperBits(register_, value)
      BY <1>3, ValuesAssumption DEF SetUpperBits
    <2>2. register_' \div 32 \in 0 .. 3 /\ register_' % 32 = register_ % 32
      BY <1>0, <2>1, UpperWritten
    <2> QED
      BY <1>3, <2>2 DEF SetUpperBits, Abstract!Next, Abstract!WriteUpper
  <1>4. CASE SetIsRAMMode
    BY <1>4 DEF SetIsRAMMode, Abstract!Next, Abstract!WriteMode
  <1>5. CASE WriteRAM
    <2>1. GetRAMBank = Abstract!RamBank
      BY GetRAMBankType DEF MBCInv, Abstract!RamBank
    <2> QED
      BY <1>5, <2>1 DEF WriteRAM, Abstract!Next, Abstract!WriteRam
  <1>6. CASE UNCHANGED mbcvars
    BY <1>6 DEF mbcvars, Abstract!vars
  <1> QED
    BY <1>1, <1>2, <1>3, <1>4, <1>5, <1>6 DEF MBCNext

(* The packed register behaves as BankSelect's separate ones, except where  *)
(* zero is written to the lower bits while upper bits are set.              *)
THEOREM BankSelectImplemented == MBCSpec => ImplementsBankSelect
  BY MBCInvariant, SelectInit, SelectStep, PTL
  DEF MBCSpec, ImplementsBankSelect

(* The exception is one: in a state with upper bits set, and the lower ones *)
(* not one already, writing zero (mbc.cc:163) does what no write to the     *)
(* separate registers does.                                                 *)
THEOREM ZeroIsNoBankSelect ==
  ASSUME MBCTypeOK, register_ >= 32, register_ % 32 # 1,
         NEW value \in LowerValues, value % 32 = 0, SetLowerBits(value)
  PROVE  ~[Abstract!Next]_(Abstract!vars)
  <1>1. register_' % 32 = 1 /\ register_' \div 32 = 0
    BY ValuesAssumption, LowerWritten DEF SetLowerBits, MBCTypeOK
  <1>2. register_ \div 32 # 0
    BY DEF MBCTypeOK
  <1> QED
    BY <1>1, <1>2
    DEF Abstract!Next, Abstract!vars, Abstract!WriteLower, Abstract!WriteUpper,
        Abstract!WriteMode, Abstract!Enable, Abstract!WriteRam
=============================================================================
