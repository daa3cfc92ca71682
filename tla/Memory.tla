------------------------------- MODULE Memory -------------------------------
(***************************************************************************)
(* The memory of the machine (cc/backend/memory): what the game reads and  *)
(* writes through MemoryMapper, with a cartridge that has no bank          *)
(* controller, the boot ROM over it, the transfer to OAM, the joypad, and  *)
(* the picture drawn from memory.  Memory::Init puts these parts together. *)
(***************************************************************************)
EXTENDS Renderer, Joypad

CONSTANTS
  Stores,                 \* the stores <<address, value>> the game makes
  Pages,                  \* the pages it transfers
  Selections,             \* what it writes to the joypad
  kBootROM, Cartridge,    \* bytes of ROM, by address
  Probes,                 \* the addresses FlatMemory looks at
  Pixels,                 \* the pixels <<x, y>> of the screen looked at
  Garbage,                \* bytes that may lie behind the screen buffer
  Operations              \* bound: the stores of the game and the keys changed

ASSUME MemoryAssumption ==
  /\ \A s \in Stores : s[1] \in Address /\ s[2] \in Byte
  /\ Probes \subseteq Address
  /\ \A a \in Probes : ~Between(a, \hFF00, \hFF7F)
  /\ Pages \subseteq Byte
  /\ \A page \in Pages : \A b \in Probes :
       Between(b, \hFE00, \hFE9F) => page * 256 + (b - \hFE00) \in Probes
  /\ Pixels \subseteq (0 .. 159) \X (0 .. 143)
  /\ Garbage \subseteq Byte

VARIABLES
  memory_,      \* the bytes that are not zero, by cell
  picture,      \* the raster of the screen, at Pixels
  operations,   \* how many have been made
  reads         \* history: what a read of each of Probes returns

mvars == <<memory_, picture, operations, reads>>
vars == <<mvars, jvars>>

-----------------------------------------------------------------------------
(* InternalROMFlag::is_set.                                                 *)
is_set == FlagAt(memory_, \hFF50) # 0

Overlaid(address) == ~is_set /\ address < 256

ReadFlag(address) ==
  CASE address = JoypadAddress   -> ReadJoypad
    [] address = DMAAddress      -> 255
    [] address \in stored_flags_ -> FlagAt(memory_, address)
    [] OTHER                     -> 0

ReadROM(address) == IF Overlaid(address) THEN kBootROM[address] ELSE Cartridge[address]

(* MemoryMapper::Read.  No segment changes when it is read.                 *)
Read(address) ==
  LET segment == Lookup(address) IN
  CASE segment = "flag_container" -> ReadFlag(address)
    [] segment = "not_usable"     -> 0
    [] segment = "mbc" /\ address < \h8000 -> ReadROM(address)
    [] OTHER -> At(memory_, Cell(address))

Observed == [address \in Probes |-> Read(address)]

Init ==
  /\ memory_ = << >>
  /\ picture = [p \in Pixels |-> 0]
  /\ operations = 0
  /\ JoypadInit
  /\ reads = Observed

Operate == operations < Operations /\ operations' = operations + 1

(* The contents m with a byte changed: only bytes that are not zero appear. *)
Put(m, cell, value) ==
  [c \in (DOMAIN m \ {cell}) \cup (IF value = 0 THEN {} ELSE {cell}) |->
     IF c = cell THEN value ELSE m[c]]

(* Flags that keep a byte, each with the Write of its class: the divider    *)
(* and LY are cleared, the timer control has three bits, and the flag of    *)
(* the boot ROM takes the first value that sets it.                         *)
WriteFlag(m, address, value) ==
  CASE address \in {\hFF04, \hFF44} -> Put(m, <<"flag", address>>, 0)
    [] address = \hFF07 -> Put(m, <<"flag", address>>, value % 8)
    [] address = \hFF50 -> IF is_set THEN m ELSE Put(m, <<"flag", address>>, value)
    [] address \in stored_flags_ \ {\hFF04, \hFF07, \hFF44, \hFF50} -> Put(m, <<"flag", address>>, value)
    [] OTHER -> m

(* MemoryMapper::Write, to all but the joypad and the transfer.             *)
WriteTo(m, address, value) ==
  LET segment == Lookup(address) IN
  CASE segment = "flag_container" -> WriteFlag(m, address, value)
    [] segment = "not_usable"     -> m
    [] segment = "mbc" /\ address < \h8000 -> m
    [] OTHER -> Put(m, Cell(address), value)

Store ==
  /\ Operate
  /\ \E s \in Stores : memory_' = WriteTo(memory_, s[1], s[2])
  /\ reads' = Observed'
  /\ UNCHANGED <<picture, jvars>>

(* DMATransferFlag::Write, from a page of memory that reads bytes[i].  It   *)
(* goes through the mapper byte after byte; none of the sources has been    *)
(* written before it is read, and OAM copied to itself stays as it is.      *)
Filled(m, bytes) ==
  LET kept == {c \in DOMAIN m : c[1] # "oam" \/ c[2] \notin DOMAIN bytes}
  IN  [c \in kept \cup {<<"oam", i>> : i \in {i \in DOMAIN bytes : bytes[i] # 0}}
         |-> IF c \in kept THEN m[c] ELSE bytes[c[2]]]

(* Mutant: the last byte of OAM is left out.                                *)
Transferred_Short(m, page) == Filled(m, [i \in 0 .. 158 |-> Read(Wrap16(page * 256 + i))])

Transferred(m, page) == Filled(m, [i \in OAMIndex |-> Read(Wrap16(page * 256 + i))])

Transfer ==
  /\ Operate
  /\ \E page \in Pages : memory_' = Transferred(memory_, page)
  /\ reads' = Observed'
  /\ UNCHANGED <<picture, jvars>>

Select ==
  /\ Operate
  /\ \E value \in Selections : WriteJoypad(value)
  /\ UNCHANGED <<memory_, picture, reads>>

-----------------------------------------------------------------------------
(* The user-interface thread.                                               *)
Change == Operate /\ ChangeKey /\ UNCHANGED <<memory_, picture, reads>>

Press == SetKey /\ UNCHANGED mvars

Request ==
  \/ LoadRequest(FlagAt(memory_, \hFF0F)) /\ UNCHANGED mvars
  \/ /\ StoreRequest
     /\ memory_' = Put(memory_, <<"flag", \hFF0F>>, Or(pressing.flag, 16))
     /\ reads' = Observed'
     /\ UNCHANGED <<picture, operations>>

(* The graphics controller draws only while the display is on.  A pixel     *)
(* taken from behind the buffer is whatever lies there.                     *)
Draw ==
  /\ LCDControl(memory_, 128)
  /\ \E garbage \in Garbage :
       picture' = [p \in Pixels |->
         LET i == ScreenIndex(memory_, p[1], p[2]) IN
         IF i < kScreenBufferSize * kScreenBufferSize THEN ScreenBuffer(memory_, i) ELSE garbage]
  /\ UNCHANGED <<memory_, operations, reads, jvars>>

(* The game reads memory.                                                   *)
Load == UNCHANGED vars

Next == Store \/ Transfer \/ Select \/ Change \/ Press \/ Request \/ Draw \/ Load

Spec == Init /\ [][Next]_vars

-----------------------------------------------------------------------------
(* At every address looked at, memory is the flat memory of FlatMemory: the *)
(* segments, the echo, the parts of VRAM, the boot ROM and the byte-wise    *)
(* transfer through the mapper add up to it.                                *)
Flat == INSTANCE FlatMemory WITH flat <- reads, overlaid <- ~is_set
ImplementsFlatMemory == Flat!FSpec

(* What the game finds by reading: the colour of a pixel of a tile, and its *)
(* shade at a position of the background or the window.                     *)
ColourAt(tile_address, y, x) ==
  NthBit(Read(tile_address + 2 * y), 2 ^ (7 - x)) + 2 * NthBit(Read(tile_address + 2 * y + 1), 2 ^ (7 - x))

ShadeOf(palette, colour) == 64 * ((Read(palette) \div 4 ^ colour) % 4)

MappedShade(upper_map, lower_tiles, row, column) ==
  LET tile == Read((IF upper_map THEN \h9C00 ELSE \h9800) + 32 * (row \div 8) + (column \div 8))
      first == \h8000 + 16 * (IF lower_tiles THEN tile ELSE (tile + 128) % 256)
  IN  ShadeOf(\hFF47, ColourAt(first, row % 8, column % 8))

(* The window is over the background, as far as whole tiles of it reach.    *)
WindowTop == Read(\hFF4A) + Read(\hFF42)
WindowLeft == Read(\hFF4B) + 7 + Read(\hFF43)
Extent(offset) == (((256 - offset) \div 8) * 8)

InWindow(row, column) ==
  /\ LCDControl(memory_, 32)
  /\ row - WindowTop \in 0 .. Extent(WindowTop) - 1
  /\ column - WindowLeft \in 0 .. Extent(WindowLeft) - 1

(* An exception: the bit is named for the tile data of the background and   *)
(* of the window (bg_window_tile_data_select), but the window is drawn with *)
(* the data that it does not select.                                        *)
LowerTiles == LCDControl(memory_, 16)
WindowLowerTiles == ~LowerTiles

BackgroundShade(row, column) ==
  IF InWindow(row, column)
  THEN MappedShade(LCDControl(memory_, 64), WindowLowerTiles, row - WindowTop, column - WindowLeft)
  ELSE MappedShade(LCDControl(memory_, 8), LowerTiles, row, column)

(* The sprites shown over the background with a pixel at (row, column), and *)
(* its colour.  No sprite here is at the right edge of the buffer.          *)
SpriteColour(k, row, column) ==
  LET y == row - Read(\hFE00 + 4 * k)
      x == column - Read(\hFE00 + 4 * k + 1)
      bits == Read(\hFE00 + 4 * k + 3)
  IN  IF y \in 0 .. 7 /\ x \in 0 .. 7 /\ NthBit(bits, 128) = 1
      THEN ColourAt(\h8000 + 16 * Read(\hFE00 + 4 * k + 2),
                    IF NthBit(bits, 64) = 1 THEN 7 - y ELSE y,
                    IF NthBit(bits, 32) = 1 THEN 7 - x ELSE x)
      ELSE 0

Over(row, column) == {k \in 0 .. kAttributeNumber - 1 : SpriteColour(k, row, column) # 0}

ShadeSeen(row, column) ==
  IF LCDControl(memory_, 2) /\ Over(row, column) # {}
  THEN LET k == Max(Over(row, column)) IN
       ShadeOf(IF NthBit(Read(\hFE00 + 4 * k + 3), 16) = 1 THEN \hFF49 ELSE \hFF48,
               SpriteColour(k, row, column))
  ELSE BackgroundShade(row, column)

(* With the background displayed, a pixel drawn has the shade that the game *)
(* can work out by reading memory: of the last sprite over the background   *)
(* with a colour there, or else of the window, or of the background; a      *)
(* sprite that is not over it is never seen.  Past the right edge of the    *)
(* buffer the picture goes on one row lower.  Two exceptions: the window's  *)
(* tiles are those of WindowLowerTiles, and a pixel that is read behind the *)
(* buffer, as its last rows scrolled right are, has no value to compare.    *)
PictureFromMemory ==
  [][Draw /\ LCDControl(memory_, 1) =>
       \A p \in Pixels :
         LET i == ScreenIndex(memory_, p[1], p[2]) IN
         i < 65536 => picture'[p] = ShadeSeen(i \div 256, i % 256)]_vars
=============================================================================
