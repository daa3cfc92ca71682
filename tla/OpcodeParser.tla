---------------------------- MODULE OpcodeParser ----------------------------
(***************************************************************************)
(* The opcode parser (cc/backend/opcode_executor/opcode_parser.cc): it     *)
(* owns a decompiler for ROM and, while a routine runs in high RAM, one    *)
(* for high RAM, and decides before each instruction is executed which of  *)
(* the two is to find the next one.  It is driven here by an executor      *)
(* whose interrupts, conditions and HL are arbitrary, running programs     *)
(* that may switch ROM banks, rewrite high RAM and turn the boot ROM off.  *)
(* Decompilation is synchronous: nothing else moves until it has returned. *)
(***************************************************************************)
EXTENDS Instructions, SequencesExt

CONSTANTS
  RomLast,                     \* 0x7fff
  HighRamFirst, HighRamLast,   \* 0xff80, 0xfffe
  Boot,                        \* kBootROM, which covers the start of ROM
  Cartridges,                  \* the possible games, each a set of ROM banks
  HighRamImages,               \* what programs leave in high RAM
  Unformatted,                 \* <<0>>: where the boot ROM starts
  Formatted,                   \* restart and interrupt vectors, and 0x100
  Vectors,                     \* the interrupt vectors
  HLValues,
  InitialStacks,               \* words a program may have pushed
  MaxStack                     \* bound: the model makes no call beyond it

RomRegion == 0 .. RomLast
HighRamRegion == HighRamFirst .. HighRamLast

RomImages == [RomRegion -> Instruction]

(* RAM lies between the regions, and IE behind high RAM.                    *)
ASSUME LayoutAssumption ==
  /\ RomLast \in Nat
  /\ HighRamFirst \in Nat
  /\ HighRamLast \in Nat
  /\ RomLast + 1 < HighRamFirst
  /\ HighRamFirst <= HighRamLast
  /\ HighRamLast + 1 \in Address
  /\ Restart20 \in RomRegion

ASSUME ProgramsAssumption ==
  /\ DOMAIN Boot \subseteq RomRegion
  /\ \A a \in DOMAIN Boot : Boot[a] \in Instruction
  /\ \A cartridge \in Cartridges : \A bank \in cartridge :
       DOMAIN bank = RomRegion /\ \A a \in RomRegion : bank[a] \in Instruction
  /\ \A image \in HighRamImages :
       /\ DOMAIN image = HighRamRegion
       /\ \A a \in HighRamRegion : image[a] \in Instruction

ASSUME StartsAssumption ==
  /\ Unformatted \in Seq(RomRegion)
  /\ 0 \in Range(Unformatted)
  /\ Formatted \in Seq(RomRegion)
  /\ Vectors \subseteq Range(Formatted)
  /\ HLValues \subseteq Address
  /\ InitialStacks \subseteq Seq(Address)
  /\ MaxStack \in Nat

(* The code of the boot ROM, which begins at 0: it jumps and returns within *)
(* itself, and the store that turns it off is followed by a place where a   *)
(* formatted ROM starts, 0x100.  It sets SP before it calls, so that its    *)
(* RET pops what its CALL pushed; the words of InitialStacks, which stand   *)
(* for what a game may push, must not come in its way.                      *)
BootClosed(code) ==
  /\ 0 \in code
  /\ \A a \in code :
       LET i == Boot[a]
       IN  /\ i.kind # "jphl"
           /\ IF i.kind = "store"
                THEN a + i.width \in Range(Formatted)
                ELSE GoesOn(i) \/ i.kind \in Calling => a + i.width \in code
           /\ HasStaticTarget(i) => StaticTarget(a, i) \in code
           /\ i.kind \in Returning =>
                \A words \in InitialStacks : Range(words) \subseteq code

ASSUME BootAssumption ==
  \E code \in SUBSET DOMAIN Boot : BootClosed(code)

VARIABLES
  cartridge, bank,   \* the game, and the bank its MBC selects
  internalOff,       \* InternalROMFlag::is_set()
  highRam,           \* the instruction that starts at each address of high RAM
  romMap, romAllocated, romPaths, romPhase, romStarts, romRejected,
  dmaMap, dmaAllocated, dmaPaths, dmaPhase, dmaStarts, dmaRejected,
  dma,               \* is_dma_running_
  usingInternal,     \* OpcodeExecutor::using_internal_rom_
  pc,
  stack,             \* the words on the stack, its top last
  step,              \* where ReadInstruction stands
  fetched,           \* the instruction found at pc
  hl,                \* what HL holds as it executes
  came,              \* history: the kind of instruction that led to pc
  switched,          \* history: FetchInstruction changed mode for it
  rewritten          \* history: addresses that changed since their
                     \* decompiler was built

memory == <<cartridge, bank, internalOff, highRam>>
rom == <<romMap, romAllocated, romPaths, romPhase, romStarts, romRejected>>
highRamCode ==
  <<dmaMap, dmaAllocated, dmaPaths, dmaPhase, dmaStarts, dmaRejected>>
executor == <<usingInternal, pc, stack, step, fetched, hl>>
history == <<came, switched, rewritten>>
vars == <<memory, rom, highRamCode, dma, executor, history>>

(* What MBCWrapper lets the ROM bridge read: the boot ROM until it is off.  *)
Visible(b, off) ==
  [a \in RomRegion |-> IF ~off /\ a \in DOMAIN Boot THEN Boot[a] ELSE b[a]]

romImage == Visible(bank, internalOff)

Rom == INSTANCE Decompiler
  WITH RomMin <- 0, RomMax <- RomLast, Images <- RomImages,
       InitialPaths <- {Unformatted, Formatted}, Unexplored <- Address,
       image <- romImage, opcodeMap <- romMap, allocated <- romAllocated,
       codePaths <- romPaths, phase <- romPhase, starts <- romStarts,
       rejected <- romRejected

Dma == INSTANCE Decompiler
  WITH RomMin <- HighRamFirst, RomMax <- HighRamLast, Images <- HighRamImages,
       InitialPaths <- {<<a>> : a \in Address}, Unexplored <- Address,
       image <- highRam, opcodeMap <- dmaMap, allocated <- dmaAllocated,
       codePaths <- dmaPaths, phase <- dmaPhase, starts <- dmaStarts,
       rejected <- dmaRejected

-----------------------------------------------------------------------------
(* OpcodeParser::Init, which the executor calls before the first            *)
(* instruction, starts to decompile the boot ROM.                           *)
Init ==
  /\ cartridge \in Cartridges
  /\ bank \in cartridge
  /\ internalOff = FALSE
  /\ highRam \in HighRamImages
  /\ Rom!Init
  /\ Dma!Init
  /\ dma = FALSE
  /\ usingInternal = TRUE
  /\ pc = 0
  /\ stack \in InitialStacks
  /\ step = "init"
  /\ fetched = [kind |-> "plain", width |-> 1, arg |-> 0]
  /\ hl = 0
  /\ came = "plain"
  /\ switched = FALSE
  /\ rewritten = {}

InitParser ==
  /\ step = "init"
  /\ step' = "interrupts"
  /\ UNCHANGED <<memory, highRamCode, dma, usingInternal, pc, stack, fetched,
                 hl, history>>
  /\ Rom!Build(Unformatted)

DecompileRom ==
  /\ UNCHANGED <<memory, highRamCode, dma, executor, history>>
  /\ Rom!Decompile

DecompileHighRam ==
  /\ UNCHANGED <<memory, rom, dma, executor, history>>
  /\ Dma!Decompile

Quiet == {romPhase, dmaPhase} \subseteq {"none", "idle"}

At(place) == step = place /\ Quiet

-----------------------------------------------------------------------------
(* HandleInterrupts: none are enabled by the boot ROM, which has no EI, and *)
(* none are taken while a routine runs in high RAM.                         *)
NoInterrupt ==
  /\ At("interrupts")
  /\ step' = "fetch"
  /\ UNCHANGED <<memory, rom, highRamCode, dma, usingInternal, pc, stack,
                 fetched, hl, history>>

Interrupt ==
  /\ At("interrupts")
  /\ ~dma
  /\ ~usingInternal
  /\ Len(stack) < MaxStack
  /\ stack' = Append(stack, pc)
  /\ pc' \in Vectors
  /\ came' = "interrupt"
  /\ switched' = FALSE
  /\ step' = "fetch"
  /\ UNCHANGED <<memory, rom, highRamCode, dma, usingInternal, fetched, hl,
                 rewritten>>

(* SwitchToExternalROM: the ROM is decompiled anew, as a formatted one.     *)
LeavingInternal == usingInternal /\ internalOff

(* Mutant: the boot ROM's decompiler is kept.                               *)
SwitchToExternalROM_Kept ==
  /\ At("fetch")
  /\ LeavingInternal
  /\ usingInternal' = FALSE
  /\ rewritten' = rewritten \ RomRegion
  /\ UNCHANGED <<memory, rom, highRamCode, dma, pc, stack, step, fetched, hl,
                 came, switched>>

SwitchToExternalROM ==
  /\ At("fetch")
  /\ LeavingInternal
  /\ usingInternal' = FALSE
  /\ rewritten' = rewritten \ RomRegion
  /\ UNCHANGED <<memory, highRamCode, dma, pc, stack, step, fetched, hl, came,
                 switched>>
  /\ Rom!Build(Formatted)

-----------------------------------------------------------------------------
(* FetchInstruction, and its two branches.  LookUp asks the decompiler of   *)
(* the current mode.                                                        *)
Code == IF dma THEN dmaMap ELSE romMap

FetchNotFound ==
  /\ At("fetch")
  /\ ~LeavingInternal
  /\ pc \notin DOMAIN Code
  /\ step' = "dead"
  /\ UNCHANGED <<memory, rom, highRamCode, dma, usingInternal, pc, stack,
                 fetched, hl, history>>

(* PollRegister; RAM nobody has pushed to holds zeros.                      *)
TopWord == IF stack = <<>> THEN 0 ELSE Last(stack)

Fetching ==
  /\ At("fetch")
  /\ ~LeavingInternal
  /\ pc \in DOMAIN Code
  /\ fetched' = Code[pc]
  /\ step' = "execute"
  /\ UNCHANGED <<memory, usingInternal, pc, stack, came>>

(* What GetJumpAddress may answer.                                          *)
Targets(h) == ParserTargets(pc, Code[pc], TopWord, h)

FetchStraight ==
  /\ Fetching
  /\ Code[pc].kind \in Straight
  /\ hl' = 0
  /\ switched' = FALSE
  /\ UNCHANGED <<rom, highRamCode, dma, rewritten>>

FetchJumping ==
  /\ Fetching
  /\ Code[pc].kind \in Jumping
  /\ hl' \in IF Code[pc].kind = "jphl" THEN HLValues ELSE {0}

FetchToHighRam ==
  /\ ~dma
  /\ FetchJumping
  /\ dma' = TRUE
  /\ switched' = TRUE
  /\ rewritten' = rewritten \ HighRamRegion
  /\ UNCHANGED rom
  /\ \E t \in Targets(hl') : t >= HighRamFirst /\ Dma!Build(<<t>>)

(* Mutant: the target of a JP (HL) is not explored.                         *)
FetchInRom_Unexplored ==
  /\ ~dma
  /\ FetchJumping
  /\ switched' = FALSE
  /\ UNCHANGED <<rom, highRamCode, dma, rewritten>>
  /\ \E t \in Targets(hl') : t < HighRamFirst

FetchInRom ==
  /\ ~dma
  /\ FetchJumping
  /\ switched' = FALSE
  /\ UNCHANGED <<highRamCode, dma, rewritten>>
  /\ \E t \in Targets(hl') :
       /\ t < HighRamFirst
       /\ IF Code[pc].kind = "jphl" THEN Rom!Explore(t) ELSE UNCHANGED rom

(* Mutant: drops the decompiler and stays in DMA mode.                      *)
FetchToRom_Stays ==
  /\ dma
  /\ FetchJumping
  /\ switched' = TRUE
  /\ \E t \in Targets(hl') : t <= RomLast
  /\ UNCHANGED <<rom, dma, rewritten>>
  /\ Dma!Discard

FetchToRom ==
  /\ dma
  /\ FetchJumping
  /\ dma' = FALSE
  /\ switched' = TRUE
  /\ \E t \in Targets(hl') : t <= RomLast
  /\ UNCHANGED <<rom, rewritten>>
  /\ Dma!Discard

FetchInHighRam ==
  /\ dma
  /\ FetchJumping
  /\ switched' = FALSE
  /\ UNCHANGED <<rom, dma, rewritten>>
  /\ \E t \in Targets(hl') :
       /\ t > RomLast
       /\ IF Code[pc].kind = "jphl" THEN Dma!Explore(t)
                                    ELSE UNCHANGED highRamCode

FetchInstruction ==
  \/ FetchNotFound \/ FetchStraight \/ FetchToHighRam \/ FetchInRom
  \/ FetchToRom \/ FetchInHighRam

-----------------------------------------------------------------------------
(* The instruction's handler.                                               *)
Following == Wrap(pc + fetched.width)

Executing ==
  /\ At("execute")
  /\ step' = "interrupts"
  /\ UNCHANGED <<rom, highRamCode, dma, usingInternal, fetched, switched>>
  /\ hl' = 0

ExecuteStraight ==
  /\ Executing
  /\ fetched.kind \in Straight \ {"store"}
  /\ pc' = Following
  /\ came' = fetched.kind
  /\ UNCHANGED <<memory, stack, rewritten>>

(* The store that matters in the boot ROM turns it off, for good.  A        *)
(* game's may select another bank, or change code in high RAM.              *)
ExecuteStore ==
  /\ Executing
  /\ fetched.kind = "store"
  /\ IF usingInternal
       THEN internalOff' = TRUE /\ UNCHANGED <<bank, highRam>>
       ELSE /\ UNCHANGED internalOff
            /\ \/ bank' \in cartridge /\ UNCHANGED highRam
               \/ highRam' \in HighRamImages /\ UNCHANGED bank
  /\ UNCHANGED <<cartridge, stack>>
  /\ pc' = Following
  /\ came' = "store"
  /\ rewritten' = rewritten
       \union {a \in RomRegion : romImage'[a] # romImage[a]}
       \union {a \in HighRamRegion : highRam'[a] # highRam[a]}

ExecuteNotTaken ==
  /\ Executing
  /\ fetched.kind \in Conditional
  /\ pc' = Following
  /\ came' = "notTaken"
  /\ UNCHANGED <<memory, stack, rewritten>>

Destination ==
  CASE fetched.kind \in Returning -> TopWord
    [] fetched.kind = "jphl" -> hl
    [] fetched.kind \in Relative -> Wrap(Following + fetched.arg)
    [] OTHER -> Wrap(fetched.arg)

(* JumpRelative's result is an int, and -1 is taken for an error.           *)
MinusOne ==
  fetched.kind \in Relative /\ Following + fetched.arg = -1

ExecuteTaken ==
  /\ Executing
  /\ fetched.kind \in Jumping
  /\ ~MinusOne
  /\ fetched.kind \in Calling => Len(stack) < MaxStack
  /\ pc' = Destination
  /\ stack' = CASE fetched.kind \in Calling -> Append(stack, Following)
                [] fetched.kind \in Returning /\ stack # <<>> -> Front(stack)
                [] OTHER -> stack
  /\ came' = fetched.kind
  /\ UNCHANGED <<memory, rewritten>>

ExecuteMinusOne ==
  /\ At("execute")
  /\ MinusOne
  /\ step' = "dead"
  /\ pc' = Following
  /\ came' = "error"
  /\ UNCHANGED <<memory, rom, highRamCode, dma, usingInternal, stack, fetched,
                 hl, switched, rewritten>>

Execute ==
  \/ ExecuteStraight \/ ExecuteStore \/ ExecuteNotTaken \/ ExecuteTaken
  \/ ExecuteMinusOne

ReadInstruction ==
  \/ NoInterrupt \/ Interrupt \/ SwitchToExternalROM \/ FetchInstruction
  \/ Execute

Next ==
  InitParser \/ DecompileRom \/ DecompileHighRam \/ ReadInstruction

(* One thread, which is scheduled.                                          *)
Spec == Init /\ [][Next]_vars /\ WF_vars(Next)

-----------------------------------------------------------------------------
Kinds == InstructionKind \union {"interrupt", "notTaken", "error"}

TypeOK ==
  /\ bank \in cartridge
  /\ internalOff \in BOOLEAN
  /\ Rom!TypeOK
  /\ Dma!TypeOK
  /\ dma \in BOOLEAN
  /\ usingInternal \in BOOLEAN
  /\ pc \in Address
  /\ stack \in Seq(Address)
  /\ step \in {"init", "interrupts", "fetch", "execute", "dead"}
  /\ fetched \in Instruction
  /\ hl \in Address
  /\ came \in Kinds
  /\ switched \in BOOLEAN
  /\ rewritten \subseteq Address

(* The mode agrees with the program counter, as long as control did not     *)
(* come by an instruction whose jump the parser foresees wrongly: a         *)
(* conditional one that is not taken, a JR, or an RST 0x20.                 *)
Foreseen ==
  came # "notTaken" /\ came \notin Relative /\ (came = "rst" => pc # Restart20)

ModeTracksPc ==
  step = "fetch" /\ Foreseen =>
    /\ pc \in RomRegion => ~dma
    /\ pc \in HighRamRegion => dma

(* The emulation dies of an address without an instruction only if the      *)
(* address lies outside the region of the mode, or Decompile gave up on it, *)
(* or before reaching it, or a return led there, or a jump from high RAM    *)
(* into ROM, or the JR at the edge of ROM whose target the parser           *)
(* miscounts; or of a JR to -1.  Whatever else control reaches has been     *)
(* decompiled.                                                              *)
CurrentRegion == IF dma THEN HighRamRegion ELSE RomRegion

GivenUp ==
  IF dma THEN dmaRejected \union Range(dmaPaths)
         ELSE romRejected \union Range(romPaths)

DeathExplained ==
  step = "dead" =>
    \/ pc \notin CurrentRegion
    \/ pc \in GivenUp
    \/ came \in Returning \union {"error"}
    \/ switched /\ (~dma \/ came \in Relative)

(* The instruction LookUp yields is what memory holds, except where a store *)
(* or a bank switch has changed memory since the decompiler was built.      *)
CacheCoherent ==
  /\ \A a \in DOMAIN romMap \ rewritten : romMap[a] = romImage[a]
  /\ \A a \in DOMAIN dmaMap \ rewritten : dmaMap[a] = highRam[a]

(* FetchInstructionDMA dereferences dma_decompiler_, a pointer that is null *)
(* before the first routine and after each: it exists whenever the mode     *)
(* says so, at every point between instructions, interrupts included.       *)
DecompilerExists ==
  /\ step # "init" => romPhase # "none"
  /\ dma <=> dmaPhase # "none"
=============================================================================
