----------------------------- MODULE MemoryMap -----------------------------
(***************************************************************************)
(* The memory map (cc/backend/memory): which segment answers an address,   *)
(* and which byte of the machine the segment keeps there.  A byte is named *)
(* by its segment's store and its index in it; a flag by its address.      *)
(***************************************************************************)
EXTENDS Integers

Address == 0 .. \hFFFF

Between(address, lower, upper) == lower <= address /\ address <= upper

(* MemoryMapper::memory_segments_ behind the container of the flags, in the *)
(* order Memory::Init registers them: the inclusive bounds of each, and two *)
(* ranges for the cartridge.                                                *)
memory_segments_ ==
  << <<"flag_container",   \hFF00, \hFF7F>>,
     <<"interrupt_enable", \hFFFF, \hFFFF>>,
     <<"internal_ram_0",   \hC000, \hCFFF>>,
     <<"internal_ram_1",   \hD000, \hDFFF>>,
     <<"echo",             \hE000, \hFDFF>>,
     <<"not_usable",       \hFEA0, \hFEFF>>,
     <<"high_ram",         \hFF80, \hFFFE>>,
     <<"mbc",              \h0000, \h7FFF>>,
     <<"mbc",              \hA000, \hBFFF>>,
     <<"vram",             \h8000, \h9FFF>>,
     <<"oam",              \hFE00, \hFE9F>> >>

Ranges == 1 .. 11

InRange(i, address) ==
  Between(address, memory_segments_[i][2], memory_segments_[i][3])

(* Lookup: the first segment the address is in, a fatal error if none is.   *)
First(i, address) ==
  InRange(i, address) /\ \A j \in 1 .. i - 1 : ~InRange(j, address)

Lookup(address) == memory_segments_[CHOOSE i \in Ranges : First(i, address)][1]

-----------------------------------------------------------------------------
translate_address(address) == address - (\hE000 - \hC000)

(* The byte of a RAM segment that the echo, or the address itself, reaches. *)
RAMCell(address) ==
  CASE Between(address, \hC000, \hCFFF) -> <<"internal_ram_0", address - \hC000>>
    [] Between(address, \hD000, \hDFFF) -> <<"internal_ram_1", address - \hD000>>

(* VRAMSegment tries its parts in this order, so the lower tile data take   *)
(* what both could answer.  The upper tile data begin at 0x8800 but shift   *)
(* every address by 0x800, into the same raw bytes.                         *)
VRAMCell(address) ==
  CASE Between(address, \h9800, \h9BFF) -> <<"lower_background_map", address - \h9800>>
    [] Between(address, \h9C00, \h9FFF) -> <<"upper_background_map", address - \h9C00>>
    [] Between(address, \h8000, \h8FFF) -> <<"raw_tile_data", address - \h8000>>
    [] Between(address, \h9000, \h97FF) -> <<"raw_tile_data", address + \h800 - \h8800>>

(* The bytes of OAM, which begins at 0xfe00.                                *)
OAMIndex == 0 .. 159

(* The byte behind an address of a segment that keeps what is written.      *)
Cell(address) ==
  LET segment == Lookup(address) IN
  CASE segment \in {"internal_ram_0", "internal_ram_1"} -> RAMCell(address)
    [] segment = "echo"     -> RAMCell(translate_address(address))
    [] segment = "high_ram" -> <<"high_ram", address - \hFF80>>
    [] segment = "mbc"      -> <<"ram_bank_0", address - \hA000>>
    [] segment = "vram"     -> VRAMCell(address)
    [] segment = "oam"      -> <<"oam", address - \hFE00>>
    [] segment \in {"flag_container", "interrupt_enable"} -> <<"flag", address>>

-----------------------------------------------------------------------------
(* The flags behind the container.  Two dozen stand for hardware that is    *)
(* not written yet: they read zero and drop what is written.                *)
unimplemented_flags_ ==
  {\hFF01, \hFF02} \cup (\hFF10 .. \hFF14) \cup (\hFF16 .. \hFF1E)
                   \cup (\hFF20 .. \hFF26) \cup (\hFF30 .. \hFF3F)

(* The flags that keep a byte.                                              *)
stored_flags_ ==
  {\hFF04, \hFF05, \hFF06, \hFF07,          \* timer
   \hFF0F,                                  \* interrupt flag
   \hFF40, \hFF41, \hFF42, \hFF43, \hFF44, \hFF45,
   \hFF47, \hFF48, \hFF49, \hFF4A, \hFF4B,  \* graphics
   \hFF50}                                  \* internal ROM

DMAAddress == \hFF46
JoypadAddress == \hFF00
=============================================================================
