# A specification of Turbo Santa

Turbo Santa is a Game Boy emulator. This directory holds TLA+ models of it,
translated from the C++ sources, the TLC configurations that check them on
small machines, and TLAPS proofs of what holds on machines of every size.
Paths below are relative to `src/base_workspace/cc/backend` unless they begin
with `src/`.

## 1. Inventory of the system

| part | state | operations | who calls it | what makes it correct |
|---|---|---|---|---|
| **Clocktroller** `clocktroller/` | `is_paused_`, `is_dead_` (atomic, uninitialised until the first Run), `is_running_`, `thread_` | Init, Run, Pause, Kill, Wait; the execution loop on its own thread | the front end's main thread; `main.cc` calls Kill from an input thread | it stops when told to, never overwrites a joinable thread, and after Wait nothing runs |
| **Opcode executor** `opcode_executor/opcode_executor.*` | registers, `halted_`, `interrupt_master_enable_`, `using_internal_rom_` | ReadInstruction, HandleInterrupts | the loop, once per pass | no interrupt is lost, the most urgent comes first, returns find their frame |
| **Opcode parser** `opcode_executor/opcode_parser.*` | two decompilers, `is_dma_running_` | Init, Reset, FetchInstruction | the executor, before each instruction | the decompiler asked exists and holds what memory holds |
| **Decompiler** `decompiler/` | map of decoded instructions, map of occupied bytes, stack of paths | AddPathStart, Decompile, LookUp | the parser | it decodes the code the CPU can execute, only that, and ends |
| **Tables** `decompiler/instruction_map.cc`, `opcode_executor/opcode_map.cc` | none | instruction factories; opcode to handler | decompiler; executor | every opcode decoded has a handler, and one that finds its operands |
| **Handlers** `opcode_executor/opcode_handlers.cc` | registers, flags, memory | one per opcode | the executor | arithmetic and its flags over sequences of instructions; jumps and the stack |
| **Interrupt flags** `memory/interrupt/` | IF, IE: plain bytes | set or clear a bit, read, write | executor, timer, graphics; the *UI thread* through the joypad | see the executor |
| **Joypad** `memory/joypad/` | two key matrices, selection | eight setters, Read, Write | UI thread; programs | a key is seen before its interrupt |
| **MBC** `memory/mbc/mbc.*` | MBC1's register, mode, RAM enable, banks | Read, Write | programs, the ROM bridge | the bank selected is the bank read |
| **Internal ROM** `memory/mbc/internal_rom.h` | a flag that is set once | Read, Write | programs | it disappears for good |
| **Timer** `memory/timer/` | sum of ticks, counter, modulo, control, divider | Tick, Write | the loop; programs | the counter advances and interrupts recur |
| **Graphics** `graphics/` | clock, mode, LY, STAT, locks; VRAM, OAM, the screen buffer | Tick, Draw; writes of registers | the loop; programs | one V-blank per frame, LY and drawings in step; the picture is what memory describes |
| **Memory mapper** `memory/memory_mapper.cc` | segments, flags | Lookup, Read, Write | everything | each address has one owner, and memory is one flat memory |
| **DMA transfer** `memory/dma_transfer/` | none | a write copies 160 bytes to OAM | programs | OAM receives a snapshot of the page |
| **Stream** `src/base_workspace/cc/utility/stream.h` | list, mutex, condition, `is_closed_` | Put, Take, Close | any threads | nothing is lost, nobody sleeps beside data |
| Java and terminal front ends, debugger, test harness | | | | not part of the emulation; the debugger is commented out of it |

Two threads run: the *emulation* thread (loop, executor, parser, decompiler,
memory, timer, graphics) and the *UI* thread (keys, Kill). They share
`is_paused_`, `is_dead_`, IF and the key matrices, with no lock. Everything else
is sequential, and hard because its steps depend on long histories: failed and
resumed decompilations, mode changes decided before the jump is executed,
frames nested through interrupts, registers written in any order, clocks
sampled once per instruction, flags that several instructions pass on.
`PROJECT.json` lists the hazards, each at its line.

## 2. Modules

| module | what it is |
|---|---|
| `Clocktroller` | the lifecycle; checked as it is, it has no constants |
| `Instructions` | an instruction as decompiler, parser and executor each read it: three ways of computing where a jump goes |
| `Decompiler` | the search; `MCDecompiler` gives it programs |
| `OpcodeParser` | the parser, *composing two instances of `Decompiler`* (`Rom` and `Dma`), and the executor as far as it drives them; `MCOpcodeParser` |
| `OpcodeExecutor` | ReadInstruction and Tick against key presses; `MCOpcodeExecutor` |
| `Bytes` | bytes, words, bits and the carry tests of the handlers |
| `InstructionMap`, `OpcodeMap` | the two tables: what the bytes of a program mean, and which handler runs them |
| `Cpu` | every handler that is not a jump, an action each, *composing the two tables*; `MCCpu` gives it programs |
| `Timer` | the counter, its interrupt and the divider; `MCTimer` |
| `Graphics` | the clock of the graphics controller, its modes, LY and interrupts; `MCGraphics` |
| `MemoryMap` | which segment answers an address, and which byte it keeps there |
| `Renderer` | what the drawing routines put at each index of the screen buffer |
| `Joypad` | the key matrices against the UI thread |
| `Memory` | the machine's memory, *composing `MemoryMap`, `Renderer` and `Joypad`* with the boot ROM, the flags and the transfer; `MCMemory` |
| `FlatMemory` | what memory promises a program; `Memory` implements it |
| `BankSelect`, `MBC1` | the registers as the comments of the code describe them, and MBC1, which implements them with one exception; `MCMBC1` |
| `Stream` | threads in Put and Take against Close; `MCStream` |
| `ThreadProofs` (Clocktroller and Stream), `DecompilerProofs`, `OpcodeParserProofs`, `OpcodeExecutorProofs`, `TickProofs` (Timer and Graphics), `MemoryProofs` (the map, memory, the joypad and MBC1), `CpuProofs` (with the two tables) | theorems |
| `SequenceLemmas` | facts on sequences the proofs cite |

Definitions whose names end in an underscore and a word (`Poll_Swapped`) are
mutants: plausible bugs, substituted for the definition they precede to show
that a property notices them.

### How the models correspond to the code

*Clocktroller.* The variables are the fields. `owner` is where the owning
thread stands in Run or Wait, `loop` where the emulation thread stands in
ExecutionLoop. Every load and store of an atomic is a step, so that a Pause or
Kill, which are single stores, can fall between any two. Uninitialised atomics
start with either value. `overrun` is history: the instructions begun since a
stop was stored.

*Decompiler.* Memory is `image`: which instruction `ROMReader::Read` would
yield at each address. `phase` says whether Decompile is on the C++ stack; one
pass of its loop is one action, an early `return false` leaves the remaining
paths on `codePaths`, as the code does. `LOG(FATAL)` is the phase `fatal`.
`starts` and `rejected` are history. What the search is judged by, `CpuTargets`
and `Flow`, is translated from the handlers that execute the instructions, not
from the decompiler: where a jump goes, that a failed condition goes on, and
that CALL and RST push the address after them, to which their subroutine returns.

*OpcodeParser.* `step` is where ReadInstruction stands; while one of the two
decompilers is running nothing else moves. `Visible` is MBCWrapper's choice
between boot ROM and cartridge. GetJumpAddress is `ParserTargets`: it counts a
JR from the wrong address and, for RST 0x20, reads a variable that was never
assigned, which is every possible value here. HL is an arbitrary member of
`HLValues` at each `JP (HL)`; conditions are arbitrary; a game's store may change bank or
rewrite high RAM.

*OpcodeExecutor.* A byte is the set of its bits. `set_value_bit` is two steps,
the read into `latch` (or `keyLatch`) and the write back, because the other
thread can run between them. `owed` is what IF would be if they were atomic
and `raced` whether two ever overlapped. `frames` records the words pushed to
RAM and not overwritten since. The parser appears only as its effect on
`dma`. The value -1 that JumpRelative may compute is told apart from a target.

*Cpu.* A row of `InstructionMap` or `OpcodeMap` stands for a family of rows of
the C++ table; `CreateInstructionMap` and `CreateOpcodeMap` expand them to one
entry an opcode. `Fetch` decodes the bytes at `pc` and finds the handler; then
one action, named after the handler, runs. `flag` holds the four bit fields of
rF and `pad` what the rest of its storage holds: rF is a struct of `unsigned
int` fields and takes four bytes, so AF does not reach A. The carry tests look
at single bits, as `DoesOverflow` does, with its
arguments narrowed to the types of the C++ parameters. `Ram` are the addresses
memory is modelled at; others read a fixed value and drop what is written.

*Timer.* One `Tick` is TimerModule::Tick with DividerFlag's, for an instruction
of any length. `ticks_` is an `int` that nothing resets: `MaxInt` is its
greatest value and the sum wraps there. (Signed overflow is undefined in C++;
wrapping is what the machine's addition does.) `since` is history: the ticks of running
time since the counter last advanced.

*Graphics.* One `Tick` is GraphicsController::Tick: the clock, the mode, the
requests, LY, and whether it draws. Everything a game can do to the registers
between ticks is an action. `previous_mode_`, which no constructor sets, may
start as no mode. The remaining variables (`drawn`, `blanks`, `lines`,
`whole`, `gap`, `touched`) are history that the properties count with.

*Memory.* The contents `memory_` map cells to the bytes that are not zero. A
cell is a segment's store and an index: the echo and the two parts of VRAM
that share tiles reach the same cells as the C++ pointers do. `Store` is
MemoryMapper::Write with whichever segment's or flag's `Write` it reaches;
`Transfer` is the flag of the transfer, which copies through the mapper. The UI
thread changes a key in the steps of the setters (`Change`, `Press`, `Request`): a press, also of a key that is
held already (a terminal repeats it and never releases one), or the release of a held key,
each changing the matrix first and then requesting the interrupt in two halves; the game's own stores come between them. `Draw`
evaluates `Renderer` at some pixels: instead of painting a buffer, an operator
for each layer says what that layer leaves at one index, from what was below it. What
WriteToScreen reads behind the buffer is any byte. The history `reads` is what
a program would read at each of `Probes`.

*MBC1.* One action per range of addresses of Write. The content of a RAM bank
is one cell, that of a ROM bank the number of the chunk it was read from.

*Stream.* `at` is where each thread stands; the mutex and the condition
variable are state, spurious wake-ups included.

## 3. What the runs check

| run | shows | bounds |
|---|---|---|
| `clocktroller` | Run never terminates the process; at most one instruction begins after a stop; after Wait nothing runs; Kill ends a loop that is not paused; a failure releases Wait | none needed: the state space is finite |
| `decompiler` | the occupied bytes are exactly those of the decoded instructions; nothing is decoded that the CPU cannot come to; no path is forgotten; a search that never failed has decoded all that the CPU can execute, except what only the return of an RST leads to; the search ends | all 4096 programs of four bytes over eight instructions (each way of going on, one and two bytes wide), two sets of first paths, restarts at an inner and an outer address |
| `executor` | no request is lost unless updates overlap; the most urgent interrupt is dispatched; frames are intact; a HALT ends when something can end it | 64 addresses, three interrupts of which one is the key's, four programs: sleeping with nested calls, a high RAM routine, one that writes IF and lets handlers nest, and a jump below zero |
| `parser` | a decompiler is there whenever it is asked; the mode agrees with PC when the jump was foreseen; the emulator dies only of listed causes; the cache agrees with memory not rewritten | ten addresses, all games of three instructions over six, three images of high RAM, `MaxStack` = 2 words |
| `mbc1` | MBC1's one packed register implements `BankSelect`'s separate ones, except where zero is written to the lower bits; bank numbers and indices correspond in every reachable register | every byte a game can write |
| `stream` | elements are conserved in order; no wakeup is lost; a closed stream accepts nothing; data reaches takers | two putters, three takers, `MaxPuts` = 4: more data than takers and more takers than data both happen |
| `cpu` | the two tables agree and every handler finds its operands; ADD, ADC, SUB, SBC, CP, INC, DEC and DAA against arithmetic on integers, with where C and H are wrong; rotations lose no bit; sums of two bytes each, by ADD and ADC, are exact and differences never are; any two pairs pushed and any two popped hold what they should | every opcode and every prefixed one with operands at the ends of a byte, 72 sums and differences, all 256 exchanges of pairs; 60 sets of registers and flags, two stack pointers (one that wraps), two memories |
| `timer` | the counter never rests for a period of the slowest speed until the sum of ticks overflows; a running timer left alone requests interrupts for ever, overflow or not | a counter of three values, instructions of two lengths, an int that overflows shortly after the slowest period, as 31 bits do after minutes |
| `graphics` | one V-blank request a frame; LY advances once a displayed line and at most once more; LY passes every line once or twice between drawings; a display left alone is drawn for ever | a frame of seven lines of eight ticks with the proportions that `GraphicsAssumption` and `PassAssumption` name; instructions of one and two ticks, which fall on and beside every boundary |
| `memory` | reads implement `FlatMemory`; the picture is what a reader of memory would draw; a key is shown before its interrupt | `Operations` = 4 stores, transfers, selections or keys in any order; stores at both ends of every segment and its echo, transfers from boot ROM, RAM, echo and OAM itself; transfers also bring sprites: a pair that overlaps, one of it mirrored from left to right and in the other palette, and a pair upside down of which one is under the background; `kAttributeNumber` = 2 sprites; four pixels, two of them where sprites have a colour and one that scrolls off the buffer |

The small machines keep what the components compare: two regions with a gap
between them and one byte beyond, instructions wide enough to overlap, to
overrun the region and to jump out of it, as many nested frames as it
takes for one to be overwritten, and clocks whose boundaries an instruction
can hit or step over.

Two runs end in a violation, each of a statement the sources make:

- `executor_entry`: an interrupt entry may dispatch nothing, after a key press
  wrote an old IF back or when the push of PC hit IE, although
  `opcode_executor/opcode_executor.cc:80` says that PC is set to the interrupt's address.
- `mbc1_read`: banks above 0x20 are read from an earlier part of the file than
  the log calls by their number.

Three other disagreements are exceptions that a passing property names, so that
everything else it says is still checked:

- `OnlyBehindRst` of `Complete`: the decompiler explores the target of an RST but not
  the address after it, to which `Restart` makes the subroutine return
  (`decompiler/decompiler.cc:50-61` and `199`; `opcode_executor/opcode_handlers.cc:1314`), and
  yet reports "Decompilation complete.". `DecompilerWholeWithoutRst` proves that there is no
  gap but this one.
- `ZeroClearsUpper` of `ImplementsBankSelect`: zero written to MBC1's lower bits
  clears the upper bits too, although `memory/mbc/mbc.cc:162` says that it is translated to
  one and `mbc.h:146` that the bottom five bits are set. `ZeroIsNoBankSelect` proves that such
  a step is none of `BankSelect`'s, unless the lower bits are one already.
- `WindowLowerTiles` of `PictureFromMemory`: the window is drawn with the tile data
  that bit 4 of the control does not select, although `graphics/graphics_flags.h:17` names the
  bit for background and window alike.

`decompiler`, `executor`, `parser`, `cpu` and `timer` are checked without
deadlock: the decompiler after a fatal error, the executor after an
instruction that is not there, the parser after either, `cpu` at the end of
its program and the timer after the speed that has no case really stop. So
does the parser at `MaxStack`, where no more calls are made.

What the models show besides, and no property denies because the code does so plainly:

- `JP (HL)` into RAM aborts the emulator in the ROM reader.
- Scrolled past its last row, the screen buffer is read behind its end; `PictureFromMemory`
  leaves those pixels out, since they have no value to compare with.
- A taker waiting at `Stream::Close` waits for ever: Close notifies nobody.
- The timer control's speed 3 aborts the emulator. `ticks_` is never reset, so
  that after its first period the counter advances at every instruction.
- DIV stays zero: the divider compares the length of one instruction with its
  period (proved as `DividerNeverMoves`).
- STAT is requested at every tick while LY equals LYC, and its coincidence bit
  is never cleared.
- PUSH AF and POP AF move the flags and not A; `SBC` subtracts a carry that `SUB`
  sets when there is no borrow; `ADC` with 0xff and a carry loses the carry.
- The UI thread's update of IF may lose a request of the emulation thread's.

### Fairness

- `Clocktroller`: weak fairness of the loop and of a Run or Wait once begun. The OS
  schedules both threads; nobody is obliged to call anything.
- `Decompiler`: weak fairness of a pass: an ordinary call runs on.
- `OpcodeParser`: weak fairness of Next, since it runs in one thread; none of its
  properties depends on it.
- `OpcodeExecutor`: weak fairness of the emulation thread, and strong fairness
  of the end of a Tick: it raises finitely many interrupts each time, which the model
  does not count. Keys need not be pressed.
- `Timer`, `Graphics`: weak fairness of `Tick`: every instruction of a running
  emulation ends in one. What the game writes is never owed; the liveness
  properties say what they need of it (that the timer is left running, LY left alone).
- `Stream`: weak fairness of each thread inside a call. The mutex is not
  assumed fair, nor that anybody calls.

## 4. What is proved

For every value of the constants that satisfies the named assumptions:

- **Clocktroller** (`ThreadProofs`): `TypeOK`, `NeverTerminates`,
  `AtMostOneInstructionAfterStop`, `EndedForGood`, `QuietAfterWait`. The
  inductive invariant adds `OneThread` (what the loop's position and
  `is_running_` imply of `joinable`) and `OverrunOnce` (an instruction begun
  after a stop had passed both checks, so the loop is past them when
  `overrun` is one).
- **Decompiler** (`DecompilerProofs`): `TypeOK`; `AllocationExact`, inductive
  together with the fact that decoded instructions are those of the image;
  `Sound`, since the CPU can go wherever a path is pushed from an address it can come to;
  `NothingForgotten`, as each pass moves the top of the stack to the decoded
  or rejected and pushes all of its successors; and `Complete`. Its first half adds to
  `Sound` that everything decoded or pending is reached without the return of an RST
  (`Traced`), as IsJumpConditionalOrCall never pushes one; for the second, with an
  empty stack and no rejections the decoded set contains the starts and what the CPU goes on to
  in the region but for those returns, hence all that it reaches without them.
  `DecompilerWholeWithoutRst` is what follows for programs that have no RST. The assumptions say that the region lies in the
  address space and images hold instructions. `DecompilerProofs` cites
  `SequenceLemmas` for what popping and concatenating do to a stack.
- **OpcodeExecutor** (`OpcodeExecutorProofs`): `TypeOK`, `NoRequestLost`,
  `HighestPriorityFirst`, `HaltForever`, `FramesIntact`. The inductive
  invariant adds `Latched` (while no overlap has happened a latched IF is
  still the current one), `InOrder` (the interrupts before the one looked at
  are not due) and `EntryJustified`; for frames, `FramesStored` (their two bytes are in RAM with the
  values pushed).
- **Timer** (`TickProofs`): `TypeOK`, `DividerStandsStill`, `Punctual`.
  `Punctual` is not inductive: the counter advances as soon as the *sum*
  reaches a period, so the invariant `SumCoversRest` adds that, until the sum
  overflows, it is at least the time the counter has rested. The assumption
  bounds the length of an instruction and asks that the int holds more than one.
- **Graphics** (`TickProofs`): `TypeOK`, `OneVBlankPerFrame`,
  `LinesPerFrame`, `DrawsApart`. The first is inductive with `ModeFollowsClock` (the mode
  remembered is that of the clock). The second needs `LinesFollowClock`: within
  the displayed lines LY has advanced once for each line begun, which
  holds because no instruction is so long that it steps over a mode. That
  every tick stays in its line or enters the next, and the quotients and
  remainders that go with it, are lemmas on integers. `GraphicsAssumption` is
  met by the constants of the code (456, 70224, 65664, 80 and 252 ticks, 153).

  `DrawsApart` rests on `PassInvariant`: since a drawing LY counts the
  advances. It is zero again after 154, in mode 2, whence mode 3 follows and
  with it a drawing, unless the frame's last displayed line ends just then; in that case
  LY starts a second pass, of as many lines as the frames since have
  begun, and is at zero with the clock inside a frame when it ends.
  `PassAssumption` says what of the numbers makes that true: there is not one line for
  every value of LY (153 against 144), nor half as many. TLC refutes
  `DrawsApart` on frames where either fails.
- **Memory map** (`MemoryProofs`): over all 65536 addresses, exactly one
  segment's range holds an address (`OneOwner`), so the order of registration
  decides nothing and Lookup never fails; `LookupFinds`; two addresses that keep
  what is stored reach one byte only as work RAM and its echo (`OneByteEach`), and
  the echo does (`EchoReaches`).
- **Memory** (`MemoryProofs`): `MemoryIsFlat`, that `Memory` implements
  `FlatMemory` for every cartridge, every set of stores, pages and
  addresses looked at. The refinement maps `flat` to the history `reads`,
  whose invariant `ReadsSeen` ties it to what Read returns; a store changes
  the reads of its own address and its mirror by `OneByteEach` and
  `EchoReaches`, a flag those of none but the boot ROM, the transfer those of OAM.
  `MemoryAssumption` leaves the flags' addresses out of `Probes` (they are
  not memory) and asks that with an address of OAM its sources are looked at too.

- **Joypad** (`MemoryProofs`): `KeysShown`, in every machine of `Memory`. A read
  of the joypad is a sum over the buttons not held; the lemmas say
  which bit of such a sum is clear, and that a key's request is made after its matrix changed.
- **MBC1** (`MemoryProofs`): `MBCTypeOK`, `IndexIsRank` and `ImplementsBankSelect`.
  The invariant adds `LowerSelected`: once a bank was selected, the lower five bits are
  never zero, as writing the upper bits keeps them. The rank of a bank
  among those that can be selected is `31 u + l - 1` for its two
  parts `u` and `l`, which is what ComputeROMBank returns; each write of the code is a
  write of `BankSelect`'s separate registers under the refinement mapping, but for a zero
  written to the lower bits where upper bits are set. `ZeroIsNoBankSelect` shows
  that such a write is none of `BankSelect`'s.
- **Stream** (`ThreadProofs`): `StreamTypeOK`, `Conserved`, `NoLostWakeup`,
  `MutualExclusion` and `ClosedForGood`, for any numbers of putters and takers.
  `NoLostWakeup` is inductive together with `HeldByOne` (a thread between lock and
  unlock is the one that owns the mutex) and `WaitersListed` (the wait set of the condition is the
  takers that sleep): only a thread in the critical section can find the list
  empty and go to sleep, or put and notify.
- **Opcode parser** (`OpcodeParserProofs`): `TypeOK`, `DecompilerExists`,
  `CacheCoherent`, `ModeTracksPc`, `DeathExplained`, with its two instances of
  `Decompiler`. A decompiler is abstracted to a record (`RomCode`, `DmaCode`)
  and a pass of its loop to four shapes (ending, skipping, rejecting,
  decoding); what these do to the record is proved once and used for both.
  The inductive invariant is built up in layers, each resting on those before it:
  `CodeInv`, that what a decompiler has decoded lies in its region and
  that the successors there are decoded, pending or rejected (`KnownTo`);
  `BootInv`, that until the boot ROM turns itself off control stays in its code;
  `ModePart`, that the instruction executing is the one decoded at PC and that the mode was chosen
  for the place it jumps to; `KnownPart`, that PC, and where a jump in flight goes, are known to
  the decompiler of the mode whenever they are in its region. With all
  pending paths decoded, what is known and not found was rejected, which is
  how `DeathExplained` follows.

  Its assumptions: `LayoutAssumption`, that the two regions do not touch and end below the last
  address; `ProgramsAssumption`, that there is an instruction at every
  address; `StartsAssumption`, that the first paths lie in ROM, and the interrupt
  entries among them; and `BootAssumption`, of the boot ROM, whose bytes
  (`memory/mbc/internal_rom.h:14`) show it: it has no `JP (HL)`, jumps within itself, and leaves
  only behind the store that turns it off, at 0x100. Since it loads SP
  before it calls anything, its RET finds what its CALL pushed; where `Boot` has a
  RET the assumption asks that the words in `InitialStacks`, which stand for whatever a game
  may push, lie in its code as well (none need be there).

- **Cpu** (`CpuProofs`): `TypeOK`, `Executable`, `ArithmeticExact`,
  `BitsConserved`, `StackMovesPairs`, `WideArithmetic`, for every program. The rows and entries of the tables fall
  into families, one for each comprehension of `InstructionMap` and `OpcodeMap`; no opcode has
  two entries (`EntriesOnce`), and every row that a program may use has one
  that suits it (`RowHandled`). The inductive invariant is `Typed` (registers, flags, stack
  pointer and memory keep their widths, whatever handler runs) and
  `Fetched` (the instruction in hand has a handler, which finds its
  arguments), since neither holds without the other: a handler keeps the widths only of arguments
  that are there. The carry and borrow tests on single bits are compared with the sums and
  differences they stand for; the rotations with a byte and its eight
  bits. `WidthsAssumption` asks that programs are sequences of bytes, that what registers, flags,
  stack pointer and memory start with has their width, and that `Ram` lies in the address space.

  The last two speak of a program as a whole, where it starts with any
  registers, flags and memory. What they need of the tables is looked up row by row (`FetchStack`,
  `Listing`), so that a fetch is known to hand out the instruction meant. `StackMovesPairs` then
  rests on `Exchanging`: the instruction in hand is the one before rPC, and after
  `Done` of them the stack, the pairs and A are as `Moved` says. It asks that the four
  bytes below rSP are in `Ram` (elsewhere a PUSH is lost), not that they do not wrap
  around. `WideArithmetic` rests on `Computing`, which says for each of the places where an
  instruction starts what the registers and the carry hold there, for any two pairs loaded: TLC
  takes a handful of pairs, the theorem all of them.

Only model-checked: the liveness properties (`KillEndsTheLoop`, `FailureReleasesWait`,
`DecompileReturns`, `HaltWakes`, `DataReachesTakers`, `RequestsRecur`,
`DrawsRecur`), which with `ENABLED` are out of the prover's reach; and `PictureFromMemory` of
`Memory`, whose sprites are drawn over each other by a recursive function, so that it needs induction
over data. `Complete` and `Sound` quantify over sets that the flow of control stays in, so that no recursive definition is needed.

## 5. Not modelled, and what is left

- *Sprites that reach past the last row of the buffer* (y of 249 or more):
  RenderTile writes beyond the vector, and nothing can be said of the program after
  that. Stores of such a y are not among the stores made.
- *The locks of OAM and VRAM* are computed in `Graphics`, but a store does not look at
  them in `Memory`: the tests in the segments' `Write` are commented out.
- `ForceWrite`, which only tests use, and `HaltAndCatchFire`, which only aborts.
- The loading of a cartridge file into banks, beyond which chunk each bank is,
  and MBC types other than none and MBC1, which the code does not have.
- Printing of assembly, logging, the terminal's drawing, Swing and JNI, the
  debugger (not compiled in) and the test harness.

Worth doing next: a machine of Clocktroller, executor and timer composed.
