------------------------- MODULE OpcodeParserProofs -------------------------
(***************************************************************************)
(* The opcode parser and its two decompilers, for every layout of memory,  *)
(* every boot ROM that keeps control until it turns itself off, and every  *)
(* game: the mode follows the program counter, the decompiler of the mode  *)
(* exists, what it answers is what memory holds, and every death of the    *)
(* emulation is explained.                                                 *)
(*                                                                         *)
(* The argument has two halves.  The first describes what a decompiler     *)
(* contributes, once for both instances: a record of its state, of which   *)
(* each pass keeps what was known and adds the successors of what it       *)
(* decodes.  The second carries a parser's invariant from one half of an   *)
(* instruction to the other: what was decided when it was fetched still    *)
(* holds of the address it leads to when it is executed.                   *)
(***************************************************************************)
EXTENDS OpcodeParser, SequenceLemmas

(* The arithmetic of the regions.                                           *)
LEMMA Layout ==
  /\ AddressSpace \in Nat /\ RomLast \in Nat
  /\ HighRamFirst \in Nat /\ HighRamLast \in Nat
  /\ RomLast + 1 < HighRamFirst /\ HighRamFirst <= HighRamLast
  /\ HighRamLast + 1 < AddressSpace
  /\ \A a : a \in Address <=> (a \in Int /\ 0 <= a /\ a < AddressSpace)
  /\ \A a : a \in RomRegion <=> (a \in Int /\ 0 <= a /\ a <= RomLast)
  /\ \A a : a \in HighRamRegion <=>
              (a \in Int /\ HighRamFirst <= a /\ a <= HighRamLast)
  BY LayoutAssumption, AddressSpaceAssumption
  DEF Address, RomRegion, HighRamRegion

LEMMA WrapType ==
  ASSUME NEW n \in Int
  PROVE  Wrap(n) \in Address /\ (n \in Address => Wrap(n) = n)
  BY AddressSpaceAssumption DEF Wrap, Address

-----------------------------------------------------------------------------
(* What a decompiler knows of its region.                                   *)
RomCode ==
  [map |-> romMap, paths |-> romPaths, rejected |-> romRejected,
   allocated |-> romAllocated]

DmaCode ==
  [map |-> dmaMap, paths |-> dmaPaths, rejected |-> dmaRejected,
   allocated |-> dmaAllocated]

(* An address it has decoded, or is to decode, or gave up on.               *)
KnownTo(d) == DOMAIN d.map \union Range(d.paths) \union d.rejected

(* The instructions it has decoded lie in the region, and their successors  *)
(* in it are known.                                                         *)
Closed(d, first, last) ==
  \A a \in DOMAIN d.map :
    LET i == d.map[a]
    IN  /\ i \in Instruction
        /\ a + i.width - 1 <= last
        /\ HasStaticTarget(i) /\ StaticTarget(a, i) \in first .. last =>
             StaticTarget(a, i) \in KnownTo(d)
        /\ GoesOn(i) /\ a + i.width <= last => a + i.width \in KnownTo(d)

CodeOK(d, first, last) ==
  /\ DOMAIN d.map \subseteq first .. last
  /\ d.paths \in Seq(Address)
  /\ d.rejected \subseteq Address
  /\ d.allocated \subseteq first .. last
  /\ Closed(d, first, last)

(* From d to e it forgets nothing it knew and nothing it decoded; what it   *)
(* adds to the map is in memory.                                            *)
Grows(d, e, memoryImage) ==
  /\ KnownTo(d) \subseteq KnownTo(e)
  /\ DOMAIN d.map \subseteq DOMAIN e.map
  /\ \A a \in DOMAIN d.map : e.map[a] = d.map[a]
  /\ \A a \in DOMAIN e.map \ DOMAIN d.map : e.map[a] = memoryImage[a]

-----------------------------------------------------------------------------
(* The passes of Decompile, of either instance, as steps of such a record.  *)
Ending(d, e) == e = d

Skipping(d, e) ==
  /\ d.paths # <<>>
  /\ Last(d.paths) \in DOMAIN d.map
  /\ e.map = d.map
  /\ e.paths = Front(d.paths)
  /\ e.rejected = d.rejected
  /\ e.allocated = d.allocated

Rejecting(d, e) ==
  /\ d.paths # <<>>
  /\ e.map = d.map
  /\ e.paths = Front(d.paths)
  /\ e.rejected = d.rejected \union {Last(d.paths)}
  /\ e.allocated = d.allocated

PathTo(condition, a) == IF condition THEN <<a>> ELSE <<>>

Decoding(d, e, memoryImage, first, last) ==
  LET a == Last(d.paths)
      i == memoryImage[a]
  IN  /\ d.paths # <<>>
      /\ a \in first .. last /\ a \notin DOMAIN d.map
      /\ i.kind # "illegal" /\ a + i.width - 1 <= last
      /\ e.map = [b \in DOMAIN d.map \union {a} |->
                    IF b = a THEN i ELSE d.map[b]]
      /\ e.paths =
           Front(d.paths)
             \o (PathTo(HasStaticTarget(i) /\ StaticTarget(a, i) \in first .. last,
                        StaticTarget(a, i))
                 \o PathTo(GoesOn(i) /\ Wrap(a + i.width) <= last, Wrap(a + i.width)))
      /\ e.rejected = d.rejected
      /\ e.allocated = d.allocated \union (a .. a + i.width - 1)

Passed(d, e, memoryImage, first, last) ==
  Ending(d, e) \/ Skipping(d, e) \/ Rejecting(d, e)
    \/ Decoding(d, e, memoryImage, first, last)

LEMMA RomPasses ==
  ASSUME Rom!Decompile
  PROVE  /\ Passed(RomCode, RomCode', romImage, 0, RomLast)
         /\ romPhase = "running" /\ romPhase' \in {"idle", "running", "fatal"}
         /\ UNCHANGED <<romImage, romStarts>>
  <1> USE DEF Rom!Decompile, Rom!memory, Rom!history, Rom!Top, Rom!Below,
              Rom!Exploring, Rom!Fresh, Rom!Decoded, RomCode, Passed
  <1> USE DEF Rom!Last, Last, Rom!Front, Front
  <1>1. CASE Rom!Finish
    BY <1>1 DEF Rom!Finish, Ending
  <1>2. CASE Rom!FatalRead
    BY <1>2 DEF Rom!FatalRead, Ending
  <1>3. CASE Rom!SkipDecoded
    BY <1>3 DEF Rom!SkipDecoded, Skipping
  <1>4. CASE Rom!RejectOccupied
    BY <1>4 DEF Rom!RejectOccupied, Rejecting
  <1>5. CASE Rom!RejectIllegal
    BY <1>5 DEF Rom!RejectIllegal, Rejecting
  <1>6. CASE Rom!Decode
    BY <1>6
    DEF Rom!Decode, Decoding, Rom!Readable, Rom!Region, Rom!Marked,
        Rom!Extent, Rom!Pushed, Rom!TargetPath, Rom!NextPath, PathTo,
        Rom!HasStaticTarget, HasStaticTarget, Rom!StaticTarget, StaticTarget,
        Rom!GoesOn, GoesOn, Rom!Wrap, Wrap, Rom!Relative, Relative,
        Rom!Absolute, Absolute, Rom!Conditional, Conditional, Rom!Straight,
        Straight
  <1> QED
    BY <1>1, <1>2, <1>3, <1>4, <1>5, <1>6

LEMMA DmaPasses ==
  ASSUME Dma!Decompile
  PROVE  /\ Passed(DmaCode, DmaCode', highRam, HighRamFirst, HighRamLast)
         /\ dmaPhase = "running" /\ dmaPhase' \in {"idle", "running", "fatal"}
         /\ UNCHANGED <<highRam, dmaStarts>>
  <1> USE DEF Dma!Decompile, Dma!memory, Dma!history, Dma!Top, Dma!Below,
              Dma!Exploring, Dma!Fresh, Dma!Decoded, DmaCode, Passed
  <1> USE DEF Dma!Last, Last, Dma!Front, Front
  <1>1. CASE Dma!Finish
    BY <1>1 DEF Dma!Finish, Ending
  <1>2. CASE Dma!FatalRead
    BY <1>2 DEF Dma!FatalRead, Ending
  <1>3. CASE Dma!SkipDecoded
    BY <1>3 DEF Dma!SkipDecoded, Skipping
  <1>4. CASE Dma!RejectOccupied
    BY <1>4 DEF Dma!RejectOccupied, Rejecting
  <1>5. CASE Dma!RejectIllegal
    BY <1>5 DEF Dma!RejectIllegal, Rejecting
  <1>6. CASE Dma!Decode
    BY <1>6
    DEF Dma!Decode, Decoding, Dma!Readable, Dma!Region, Dma!Marked,
        Dma!Extent, Dma!Pushed, Dma!TargetPath, Dma!NextPath, PathTo,
        Dma!HasStaticTarget, HasStaticTarget, Dma!StaticTarget, StaticTarget,
        Dma!GoesOn, GoesOn, Dma!Wrap, Wrap, Dma!Relative, Relative,
        Dma!Absolute, Absolute, Dma!Conditional, Conditional, Dma!Straight,
        Straight
  <1> QED
    BY <1>1, <1>2, <1>3, <1>4, <1>5, <1>6

(* A pass keeps the record in order, and all it knew.                       *)
LEMMA PassGrows ==
  ASSUME NEW d, NEW e, NEW memoryImage, NEW first \in Nat, NEW last \in Nat,
         first .. last \subseteq Address,
         \A a \in first .. last : memoryImage[a] \in Instruction,
         CodeOK(d, first, last), Passed(d, e, memoryImage, first, last)
  PROVE  CodeOK(e, first, last) /\ Grows(d, e, memoryImage)
  <1>1. CASE Ending(d, e)
    BY <1>1 DEF Ending, Grows
  <1>2. ASSUME d.paths # <<>>
        PROVE  /\ Last(d.paths) \in Address
               /\ Front(d.paths) \in Seq(Address)
               /\ Range(d.paths) = Range(Front(d.paths)) \union {Last(d.paths)}
    BY <1>2, FrontLast DEF CodeOK
  <1>3. CASE Skipping(d, e)
    <2>1. KnownTo(e) = KnownTo(d)
      BY <1>2, <1>3 DEF Skipping, KnownTo
    <2>2. Closed(e, first, last)
      BY <1>3, <2>1 DEF Skipping, CodeOK, Closed
    <2>3. QED
      BY <1>2, <1>3, <2>1, <2>2 DEF Skipping, CodeOK, Grows
  <1>4. CASE Rejecting(d, e)
    <2>1. KnownTo(e) = KnownTo(d)
      BY <1>2, <1>4 DEF Rejecting, KnownTo
    <2>2. Closed(e, first, last)
      BY <1>4, <2>1 DEF Rejecting, CodeOK, Closed
    <2>3. QED
      BY <1>2, <1>4, <2>1, <2>2 DEF Rejecting, CodeOK, Grows
  <1>5. CASE Decoding(d, e, memoryImage, first, last)
    <2> DEFINE a == Last(d.paths)
               i == memoryImage[a]
               target == PathTo(HasStaticTarget(i) /\ StaticTarget(a, i) \in first .. last,
                                StaticTarget(a, i))
               next == PathTo(GoesOn(i) /\ Wrap(a + i.width) <= last, Wrap(a + i.width))
    <2>1. /\ d.paths # <<>>
          /\ a \in first .. last /\ a \notin DOMAIN d.map
          /\ a + i.width - 1 <= last
          /\ e.map = [b \in DOMAIN d.map \union {a} |->
                        IF b = a THEN i ELSE d.map[b]]
          /\ e.paths = Front(d.paths) \o (target \o next)
          /\ e.rejected = d.rejected
          /\ e.allocated = d.allocated \union (a .. a + i.width - 1)
      BY <1>5 DEF Decoding
    <2>2. i \in Instruction /\ i.width \in 1 .. 3
      BY <2>1 DEF Instruction
    <2>3. /\ target \in Seq(Address)
          /\ HasStaticTarget(i) /\ StaticTarget(a, i) \in first .. last =>
               StaticTarget(a, i) \in Range(target)
      BY DEF PathTo, Range
    <2>4. /\ Wrap(a + i.width) \in Address
          /\ a + i.width <= last => Wrap(a + i.width) = a + i.width
      <3>1. a + i.width \in Int /\ (a + i.width <= last => a + i.width \in Address)
        BY <2>1, <2>2
      <3>2. QED
        BY <3>1, WrapType
    <2>5. /\ next \in Seq(Address)
          /\ GoesOn(i) /\ a + i.width <= last => a + i.width \in Range(next)
      BY <2>4 DEF PathTo, Range
    <2> HIDE DEF target, next
    <2>6. /\ e.paths \in Seq(Address)
          /\ Range(e.paths) = Range(Front(d.paths)) \union Range(target) \union Range(next)
      <3>1. /\ target \o next \in Seq(Address)
            /\ Range(target \o next) = Range(target) \union Range(next)
        BY <2>3, <2>5, RangeConcat
      <3>2. Front(d.paths) \in Seq(Address)
        BY <1>2, <2>1
      <3> DEFINE pushed == target \o next
      <3>3. /\ Front(d.paths) \o pushed \in Seq(Address)
            /\ Range(Front(d.paths) \o pushed) = Range(Front(d.paths)) \union Range(pushed)
        <4>1. pushed \in Seq(Address)
          BY <3>1
        <4> HIDE DEF pushed
        <4>2. QED
          BY <3>2, <4>1, RangeConcat
      <3>4. QED
        BY <2>1, <3>1, <3>3
    <2>7. DOMAIN e.map = DOMAIN d.map \union {a}
      BY <2>1
    <2>8. e.map[a] = i /\ \A b \in DOMAIN d.map : e.map[b] = d.map[b]
      BY <2>1
    <2>9. /\ KnownTo(d) \subseteq KnownTo(e)
          /\ Range(target) \union Range(next) \subseteq KnownTo(e)
      BY <1>2, <2>1, <2>6, <2>7 DEF KnownTo
    <2>10. Grows(d, e, memoryImage)
      BY <2>7, <2>8, <2>9 DEF Grows
    <2>11. Closed(e, first, last)
      BY <2>1, <2>2, <2>3, <2>5, <2>7, <2>8, <2>9 DEF Closed, CodeOK
    <2>12. a .. a + i.width - 1 \subseteq first .. last
      BY <2>1, <2>2
    <2>13. QED
      BY <2>1, <2>6, <2>7, <2>10, <2>11, <2>12 DEF CodeOK
  <1>6. QED
    BY <1>1, <1>3, <1>4, <1>5 DEF Passed

(* A decompiler just built, and one given another path.                     *)
Fresh(e, paths) ==
  /\ DOMAIN e.map = {}
  /\ e.paths = paths
  /\ e.rejected = {}
  /\ e.allocated = {}

Extended(d, e, a) ==
  /\ e.map = d.map
  /\ e.paths = Append(d.paths, a)
  /\ e.rejected = d.rejected
  /\ e.allocated = d.allocated

LEMMA FreshCode ==
  ASSUME NEW e, NEW paths \in Seq(Address), NEW first, NEW last, Fresh(e, paths)
  PROVE  CodeOK(e, first, last) /\ KnownTo(e) = Range(paths)
  BY DEF Fresh, CodeOK, Closed, KnownTo

LEMMA ExtendedCode ==
  ASSUME NEW d, NEW e, NEW first, NEW last, NEW a \in Address, NEW memoryImage,
         CodeOK(d, first, last), Extended(d, e, a)
  PROVE  /\ CodeOK(e, first, last)
         /\ Grows(d, e, memoryImage)
         /\ a \in KnownTo(e)
  <1>1. /\ e.paths \in Seq(Address)
        /\ Range(e.paths) = Range(d.paths) \union {a}
    BY RangeAppend DEF CodeOK, Extended
  <1>2. KnownTo(e) = KnownTo(d) \union {a}
    BY <1>1 DEF KnownTo, Extended
  <1>3. Closed(e, first, last)
    BY <1>2 DEF Extended, CodeOK, Closed
  <1>4. QED
    BY <1>1, <1>2, <1>3 DEF Extended, CodeOK, Grows

LEMMA GrowsNot ==
  ASSUME NEW d, NEW e, NEW memoryImage, e = d
  PROVE  Grows(d, e, memoryImage)
  BY DEF Grows

LEMMA RomOperations ==
  /\ \A paths : Rom!Build(paths) =>
       Fresh(RomCode', paths) /\ romPhase' = "running" /\ romStarts' = Range(paths)
  /\ \A a : Rom!Explore(a) =>
       /\ Extended(RomCode, RomCode', a)
       /\ romPhase' = "running" /\ romStarts' = romStarts \union {a}
  BY DEF Rom!Build, Rom!Explore, Rom!Empty, Rom!Range, Range, Fresh, Extended, RomCode

LEMMA DmaOperations ==
  /\ \A paths : Dma!Build(paths) =>
       Fresh(DmaCode', paths) /\ dmaPhase' = "running" /\ dmaStarts' = Range(paths)
  /\ \A a : Dma!Explore(a) =>
       /\ Extended(DmaCode, DmaCode', a)
       /\ dmaPhase' = "running" /\ dmaStarts' = dmaStarts \union {a}
  /\ Dma!Discard => Fresh(DmaCode', <<>>) /\ dmaPhase' = "none" /\ dmaStarts' = {}
  BY DEF Dma!Build, Dma!Explore, Dma!Discard, Dma!Empty, Dma!Range, Range, Fresh,
         Extended, DmaCode

-----------------------------------------------------------------------------
(* The types of everything that is not a decompiler's.                      *)
MachineTyped ==
  /\ cartridge \in Cartridges /\ bank \in cartridge
  /\ internalOff \in BOOLEAN
  /\ highRam \in HighRamImages
  /\ dma \in BOOLEAN
  /\ usingInternal \in BOOLEAN
  /\ pc \in Address
  /\ stack \in Seq(Address)
  /\ step \in {"init", "interrupts", "fetch", "execute", "dead"}
  /\ fetched \in Instruction
  /\ hl \in Address
  /\ came \in Kinds
  /\ switched \in BOOLEAN
  /\ rewritten \subseteq Address

(* The two decompilers are in order.                                        *)
CodeInv ==
  /\ CodeOK(RomCode, 0, RomLast)
  /\ CodeOK(DmaCode, HighRamFirst, HighRamLast)
  /\ romPhase \in {"none", "idle", "running", "fatal"}
  /\ dmaPhase \in {"none", "idle", "running", "fatal"}
  /\ romStarts \subseteq Address
  /\ dmaStarts \subseteq Address

LEMMA RegionsInAddress ==
  /\ 0 .. RomLast = RomRegion /\ HighRamFirst .. HighRamLast = HighRamRegion
  /\ RomRegion \subseteq Address /\ HighRamRegion \subseteq Address
  /\ RomRegion \intersect HighRamRegion = {}
  BY LayoutAssumption, AddressSpaceAssumption
  DEF RomRegion, HighRamRegion, Address

LEMMA ImagesTyped ==
  ASSUME MachineTyped
  PROVE  /\ \A a \in RomRegion : romImage[a] \in Instruction
         /\ \A a \in HighRamRegion : highRam[a] \in Instruction
  BY ProgramsAssumption DEF MachineTyped, romImage, Visible

(* What GetJumpAddress answers is an address.                               *)
LEMMA TargetsTyped ==
  ASSUME MachineTyped, CodeInv, pc \in DOMAIN Code, NEW h \in Address,
         NEW t \in Targets(h)
  PROVE  t \in Address
  <1>1. Code[pc] \in Instruction /\ pc \in Int
    BY Layout DEF Code, CodeInv, CodeOK, Closed, RomCode, DmaCode, MachineTyped
  <1>2. TopWord \in Address
    BY FrontLast, Layout DEF TopWord, MachineTyped
  <1>3. /\ Wrap(pc + Code[pc].arg) \in Address
        /\ Wrap(Code[pc].arg) \in Address
    BY <1>1, WrapType DEF Instruction
  <1>4. QED
    BY <1>2, <1>3 DEF Targets, ParserTargets

-----------------------------------------------------------------------------
(* What a step of the parser can do to the decompiler of ROM ...            *)
RomAdvances ==
  /\ Grows(RomCode, RomCode', romImage)
  /\ romPhase' = romPhase \/ (romPhase # "none" /\ romPhase' # "none")

RomRebuilt(paths) == Fresh(RomCode', paths) /\ romPhase' = "running"

LEMMA RomEvolves ==
  ASSUME MachineTyped, CodeInv, [Next]_vars
  PROVE  /\ CodeOK(RomCode', 0, RomLast)
         /\ romPhase' \in {"none", "idle", "running", "fatal"}
         /\ romStarts' \subseteq Address
         /\ \/ InitParser /\ RomRebuilt(Unformatted)
            \/ SwitchToExternalROM /\ RomRebuilt(Formatted)
            \/ RomAdvances
  <1>1. CASE UNCHANGED rom
    <2>1. RomCode' = RomCode /\ UNCHANGED <<romPhase, romStarts>>
      BY <1>1 DEF rom, RomCode
    <2>2. CodeOK(RomCode', 0, RomLast) /\ Grows(RomCode, RomCode', romImage)
      BY <2>1, GrowsNot DEF CodeInv
    <2>3. QED
      BY <2>1, <2>2 DEF CodeInv, RomAdvances
  <1>2. CASE InitParser \/ SwitchToExternalROM
    <2>1. Unformatted \in Seq(Address) /\ Formatted \in Seq(Address)
      BY StartsAssumption, RegionsInAddress
    <2>2. Range(Unformatted) \subseteq Address /\ Range(Formatted) \subseteq Address
      BY <2>1 DEF Range
    <2>3. QED
      BY <1>2, <2>1, <2>2, RomOperations, FreshCode
      DEF InitParser, SwitchToExternalROM, RomRebuilt
  <1>3. CASE DecompileRom
    <2>1. /\ Passed(RomCode, RomCode', romImage, 0, RomLast)
          /\ romPhase = "running" /\ romPhase' \in {"idle", "running", "fatal"}
          /\ UNCHANGED romStarts
      BY <1>3, RomPasses DEF DecompileRom
    <2>2. 0 .. RomLast \subseteq Address /\ RomLast \in Nat /\ 0 \in Nat
          /\ \A a \in 0 .. RomLast : romImage[a] \in Instruction
      BY Layout, RegionsInAddress, ImagesTyped
    <2>3. CodeOK(RomCode', 0, RomLast) /\ Grows(RomCode, RomCode', romImage)
      BY <2>1, <2>2, PassGrows DEF CodeInv
    <2>4. QED
      BY <2>1, <2>3 DEF RomAdvances, CodeInv
  <1>4. CASE FetchInRom
    <2>1. CASE UNCHANGED rom
      BY <1>1, <2>1
    <2>2. ASSUME NEW t \in Targets(hl'), Rom!Explore(t)
          PROVE  /\ CodeOK(RomCode', 0, RomLast)
                 /\ romPhase' \in {"none", "idle", "running", "fatal"}
                 /\ romStarts' \subseteq Address
                 /\ RomAdvances
      <3>1. hl' \in Address /\ pc \in DOMAIN Code
        BY <1>4, StartsAssumption, Layout DEF FetchInRom, FetchJumping, Fetching
      <3>2. t \in Address
        BY <2>2, <3>1, TargetsTyped
      <3>3. /\ Extended(RomCode, RomCode', t) /\ romPhase' = "running"
            /\ romStarts' = romStarts \union {t} /\ romPhase = "idle"
        BY <2>2, RomOperations DEF Rom!Explore
      <3>4. QED
        BY <3>2, <3>3, ExtendedCode DEF CodeInv, RomAdvances
    <2>3. QED
      BY <1>4, <2>1, <2>2 DEF FetchInRom
  <1>5. QED
    BY <1>1, <1>2, <1>3, <1>4
    DEF Next, ReadInstruction, FetchInstruction, Execute, vars, DecompileHighRam,
        NoInterrupt, Interrupt, FetchNotFound, FetchStraight, FetchToHighRam,
        FetchToRom, FetchInHighRam, ExecuteStraight, ExecuteStore,
        ExecuteNotTaken, ExecuteTaken, ExecuteMinusOne, Executing

(* ... and to that of high RAM.                                             *)
DmaAdvances ==
  /\ Grows(DmaCode, DmaCode', highRam)
  /\ dmaPhase' = dmaPhase \/ (dmaPhase # "none" /\ dmaPhase' # "none")
  /\ UNCHANGED dma

DmaBuilt(t) ==
  /\ t >= HighRamFirst
  /\ Fresh(DmaCode', <<t>>)
  /\ dmaPhase' = "running"
  /\ dma' = TRUE

DmaDropped == Fresh(DmaCode', <<>>) /\ dmaPhase' = "none" /\ dma' = FALSE

LEMMA DmaEvolves ==
  ASSUME MachineTyped, CodeInv, [Next]_vars
  PROVE  /\ CodeOK(DmaCode', HighRamFirst, HighRamLast)
         /\ dmaPhase' \in {"none", "idle", "running", "fatal"}
         /\ dmaStarts' \subseteq Address
         /\ \/ FetchToHighRam /\ \E t \in Targets(hl') : DmaBuilt(t)
            \/ FetchToRom /\ DmaDropped
            \/ DmaAdvances
  <1>1. CASE UNCHANGED <<highRamCode, dma>>
    <2>1. DmaCode' = DmaCode /\ UNCHANGED <<dmaPhase, dmaStarts, dma>>
      BY <1>1 DEF highRamCode, DmaCode
    <2>2. /\ CodeOK(DmaCode', HighRamFirst, HighRamLast)
          /\ Grows(DmaCode, DmaCode', highRam)
      BY <2>1, GrowsNot DEF CodeInv
    <2>3. QED
      BY <2>1, <2>2 DEF CodeInv, DmaAdvances
  <1>2. ASSUME NEW t \in Targets(hl'), FetchJumping
        PROVE  t \in Address
    <2>1. hl' \in Address /\ pc \in DOMAIN Code
      BY <1>2, StartsAssumption, Layout DEF FetchJumping, Fetching
    <2>2. QED
      BY <2>1, TargetsTyped
  <1>3. CASE FetchToHighRam
    <2>1. PICK t \in Targets(hl') : t >= HighRamFirst /\ Dma!Build(<<t>>)
      BY <1>3 DEF FetchToHighRam
    <2>2. <<t>> \in Seq(Address) /\ Range(<<t>>) \subseteq Address
      BY <1>2, <1>3, <2>1 DEF FetchToHighRam, Range
    <2>3. /\ Fresh(DmaCode', <<t>>) /\ dmaPhase' = "running"
          /\ dmaStarts' = Range(<<t>>)
      BY <2>1, DmaOperations
    <2>4. CodeOK(DmaCode', HighRamFirst, HighRamLast)
      BY <2>2, <2>3, FreshCode
    <2>5. DmaBuilt(t)
      BY <1>3, <2>1, <2>3 DEF DmaBuilt, FetchToHighRam
    <2>6. QED
      BY <1>3, <2>2, <2>3, <2>4, <2>5
  <1>4. CASE FetchToRom
    <2>1. Fresh(DmaCode', <<>>) /\ dmaPhase' = "none" /\ dmaStarts' = {} /\ dma' = FALSE
      BY <1>4, DmaOperations DEF FetchToRom
    <2>2. <<>> \in Seq(Address)
      OBVIOUS
    <2>3. CodeOK(DmaCode', HighRamFirst, HighRamLast)
      BY <2>1, <2>2, FreshCode
    <2>4. QED
      BY <1>4, <2>1, <2>3 DEF DmaDropped
  <1>5. CASE DecompileHighRam
    <2>1. /\ Passed(DmaCode, DmaCode', highRam, HighRamFirst, HighRamLast)
          /\ dmaPhase = "running" /\ dmaPhase' \in {"idle", "running", "fatal"}
          /\ UNCHANGED <<dmaStarts, dma>>
      BY <1>5, DmaPasses DEF DecompileHighRam
    <2>2. /\ HighRamFirst .. HighRamLast \subseteq Address
          /\ HighRamFirst \in Nat /\ HighRamLast \in Nat
          /\ \A a \in HighRamFirst .. HighRamLast : highRam[a] \in Instruction
      BY Layout, RegionsInAddress, ImagesTyped
    <2>3. /\ CodeOK(DmaCode', HighRamFirst, HighRamLast)
          /\ Grows(DmaCode, DmaCode', highRam)
      BY <2>1, <2>2, PassGrows DEF CodeInv
    <2>4. QED
      BY <2>1, <2>3 DEF DmaAdvances, CodeInv
  <1>6. CASE FetchInHighRam
    <2>1. CASE UNCHANGED highRamCode
      BY <1>1, <1>6, <2>1 DEF FetchInHighRam
    <2>2. ASSUME NEW t \in Targets(hl'), Dma!Explore(t)
          PROVE  /\ CodeOK(DmaCode', HighRamFirst, HighRamLast)
                 /\ dmaPhase' \in {"none", "idle", "running", "fatal"}
                 /\ dmaStarts' \subseteq Address
                 /\ DmaAdvances
      <3>1. t \in Address
        BY <1>2, <1>6, <2>2 DEF FetchInHighRam
      <3>2. /\ Extended(DmaCode, DmaCode', t) /\ dmaPhase' = "running"
            /\ dmaStarts' = dmaStarts \union {t} /\ dmaPhase = "idle"
        BY <2>2, DmaOperations DEF Dma!Explore
      <3>3. QED
        BY <1>6, <3>1, <3>2, ExtendedCode DEF CodeInv, DmaAdvances, FetchInHighRam
    <2>3. QED
      BY <1>6, <2>1, <2>2 DEF FetchInHighRam
  <1>7. QED
    BY <1>1, <1>3, <1>4, <1>5, <1>6
    DEF Next, ReadInstruction, FetchInstruction, Execute, vars, DecompileRom,
        InitParser, NoInterrupt, Interrupt, SwitchToExternalROM, FetchNotFound,
        FetchStraight, FetchInRom, ExecuteStraight, ExecuteStore,
        ExecuteNotTaken, ExecuteTaken, ExecuteMinusOne, Executing

LEMMA CodeStep == MachineTyped /\ CodeInv /\ [Next]_vars => CodeInv'
  <1> SUFFICES ASSUME MachineTyped, CodeInv, [Next]_vars
               PROVE  CodeInv'
    OBVIOUS
  <1>1. QED
    BY RomEvolves, DmaEvolves DEF CodeInv

-----------------------------------------------------------------------------
(* Types.                                                                   *)
LEMMA CodeTyped ==
  ASSUME CodeInv
  PROVE  /\ \A a \in DOMAIN Code : Code[a] \in Instruction
         /\ \A a \in DOMAIN romMap : romMap[a] \in Instruction
         /\ \A a \in DOMAIN dmaMap : dmaMap[a] \in Instruction
         /\ DOMAIN romMap \subseteq RomRegion
         /\ DOMAIN dmaMap \subseteq HighRamRegion
  BY RegionsInAddress DEF CodeInv, CodeOK, Closed, RomCode, DmaCode, Code

LEMMA FollowingTyped ==
  ASSUME MachineTyped
  PROVE  /\ Following \in Address
         /\ TopWord \in Address
         /\ Destination \in Address
  <1>1. pc \in Int /\ fetched.width \in Int /\ fetched.arg \in Int
    BY Layout DEF MachineTyped, Instruction
  <1>2. Following \in Address
    BY <1>1, WrapType DEF Following
  <1>3. TopWord \in Address
    BY FrontLast, Layout DEF TopWord, MachineTyped
  <1>4. Following \in Int
    BY <1>2, Layout
  <1>5. /\ Wrap(Following + fetched.arg) \in Address
        /\ Wrap(fetched.arg) \in Address
    BY <1>1, <1>4, WrapType
  <1>6. QED
    BY <1>2, <1>3, <1>5 DEF Destination, MachineTyped

LEMMA VectorsInRom == Vectors \subseteq RomRegion /\ Range(Formatted) \subseteq RomRegion
  BY StartsAssumption DEF Range

LEMMA MachineStep == MachineTyped /\ CodeInv /\ [Next]_vars => MachineTyped'
  <1> SUFFICES ASSUME MachineTyped, CodeInv, [Next]_vars
               PROVE  MachineTyped'
    OBVIOUS
  <1>1. CASE UNCHANGED <<memory, executor, history, dma>>
    BY <1>1 DEF memory, executor, history, MachineTyped
  <1>2. CASE InitParser \/ NoInterrupt \/ FetchNotFound
    BY <1>2 DEF InitParser, NoInterrupt, FetchNotFound, MachineTyped, memory, history
  <1>3. CASE Interrupt
    <2>1. pc' \in Address /\ Append(stack, pc) \in Seq(Address)
      BY <1>3, VectorsInRom, RegionsInAddress DEF Interrupt, MachineTyped
    <2>2. "interrupt" \in Kinds
      BY DEF Kinds
    <2>3. QED
      BY <1>3, <2>1, <2>2 DEF Interrupt, MachineTyped, memory
  <1>4. CASE SwitchToExternalROM
    BY <1>4 DEF SwitchToExternalROM, MachineTyped, memory
  <1>5. CASE FetchStraight \/ FetchToHighRam \/ FetchInRom \/ FetchToRom \/ FetchInHighRam
    <2>1. Fetching /\ Code[pc] \in Instruction
      BY <1>5, CodeTyped
      DEF FetchStraight, FetchToHighRam, FetchInRom, FetchToRom, FetchInHighRam,
          FetchJumping, Fetching
    <2>2. hl' \in Address
      BY <1>5, StartsAssumption, Layout
      DEF FetchStraight, FetchToHighRam, FetchInRom, FetchToRom, FetchInHighRam,
          FetchJumping
    <2>3. dma' \in BOOLEAN /\ switched' \in BOOLEAN /\ rewritten' \subseteq Address
      BY <1>5
      DEF FetchStraight, FetchToHighRam, FetchInRom, FetchToRom, FetchInHighRam,
          MachineTyped
    <2>4. QED
      BY <2>1, <2>2, <2>3 DEF Fetching, MachineTyped, memory
  <1>6. CASE ExecuteStraight \/ ExecuteNotTaken
    <2>1. fetched.kind \in Kinds /\ "notTaken" \in Kinds /\ 0 \in Address
      BY Layout DEF MachineTyped, Instruction, Kinds
    <2>2. QED
      BY <1>6, <2>1, FollowingTyped
      DEF ExecuteStraight, ExecuteNotTaken, Executing, MachineTyped, memory
  <1>7. CASE ExecuteStore
    <2>1. "store" \in Kinds /\ 0 \in Address
      BY Layout DEF Kinds, InstructionKind, Straight
    <2>2. rewritten' \subseteq Address
      BY <1>7, RegionsInAddress DEF ExecuteStore, MachineTyped
    <2>3. /\ cartridge' \in Cartridges /\ bank' \in cartridge'
          /\ internalOff' \in BOOLEAN /\ highRam' \in HighRamImages
      BY <1>7 DEF ExecuteStore, MachineTyped
    <2>4. QED
      BY <1>7, <2>1, <2>2, <2>3, FollowingTyped
      DEF ExecuteStore, Executing, MachineTyped
  <1>8. CASE ExecuteTaken
    <2>1. fetched.kind \in Kinds /\ 0 \in Address
      BY Layout DEF MachineTyped, Instruction, Kinds
    <2>2. stack' \in Seq(Address)
      <3>1. stack' \in {Append(stack, Following), stack} \/ (stack # <<>> /\ stack' = Front(stack))
        BY <1>8 DEF ExecuteTaken
      <3>2. QED
        BY <3>1, FollowingTyped, FrontLast DEF MachineTyped
    <2>3. QED
      BY <1>8, <2>1, <2>2, FollowingTyped
      DEF ExecuteTaken, Executing, MachineTyped, memory
  <1>9. CASE ExecuteMinusOne
    <2>1. "error" \in Kinds
      BY DEF Kinds
    <2>2. QED
      BY <1>9, <2>1, FollowingTyped DEF ExecuteMinusOne, MachineTyped, memory
  <1>10. QED
    BY <1>1, <1>2, <1>3, <1>4, <1>5, <1>6, <1>7, <1>8, <1>9
    DEF Next, ReadInstruction, FetchInstruction, Execute, vars, DecompileRom,
        DecompileHighRam

TypeInv == MachineTyped /\ CodeInv

LEMMA TypeInvIsType == TypeInv => TypeOK
  <1> SUFFICES ASSUME TypeInv
               PROVE  TypeOK
    OBVIOUS
  <1>1. romImage \in RomImages
    <2>1. romImage = [a \in RomRegion |-> romImage[a]]
      BY DEF romImage, Visible
    <2>2. QED
      BY <2>1, ImagesTyped DEF RomImages, TypeInv
  <1>2. Rom!TypeOK
    BY <1>1, CodeTyped
    DEF TypeInv, CodeInv, CodeOK, RomCode, Rom!TypeOK, Rom!Decoded, Rom!Region,
        Rom!Address, Address, Rom!Instruction, Instruction, Rom!InstructionKind,
        InstructionKind, Rom!Jumping, Jumping, Rom!Straight, Straight,
        Rom!Relative, Relative, Rom!Absolute, Absolute, Rom!Returning, Returning
  <1>3. Dma!TypeOK
    BY CodeTyped
    DEF TypeInv, CodeInv, CodeOK, DmaCode, MachineTyped, Dma!TypeOK, Dma!Decoded,
        Dma!Region, Dma!Address, Address, Dma!Instruction, Instruction,
        Dma!InstructionKind, InstructionKind, Dma!Jumping, Jumping,
        Dma!Straight, Straight, Dma!Relative, Relative, Dma!Absolute, Absolute,
        Dma!Returning, Returning
  <1>4. QED
    BY <1>2, <1>3 DEF TypeInv, MachineTyped, TypeOK

LEMMA TypeInvInit == Init => TypeInv
  <1> SUFFICES ASSUME Init
               PROVE  TypeInv
    OBVIOUS
  <1>1. Fresh(RomCode, <<>>) /\ romPhase = "none" /\ romStarts = {}
    BY DEF Init, Rom!Init, Rom!Empty, Fresh, RomCode
  <1>2. Fresh(DmaCode, <<>>) /\ dmaPhase = "none" /\ dmaStarts = {}
    BY DEF Init, Dma!Init, Dma!Empty, Fresh, DmaCode
  <1>3. <<>> \in Seq(Address)
    OBVIOUS
  <1>4. CodeInv
    BY <1>1, <1>2, <1>3, FreshCode DEF CodeInv
  <1>5. /\ stack \in Seq(Address) /\ 0 \in Address
        /\ fetched \in Instruction /\ came \in Kinds
    BY StartsAssumption, Layout
    DEF Init, Instruction, Kinds, InstructionKind, Straight
  <1>6. MachineTyped
    BY <1>5 DEF Init, MachineTyped
  <1>7. QED
    BY <1>4, <1>6 DEF TypeInv

LEMMA TypeInvariant == Spec => []TypeInv
  <1>1. TypeInv /\ [Next]_vars => TypeInv'
    BY MachineStep, CodeStep DEF TypeInv
  <1>2. QED
    BY <1>1, TypeInvInit, PTL DEF Spec

(* Every variable of the parser and of both its decompilers keeps its type. *)
THEOREM ParserTypeCorrect == Spec => []TypeOK
  BY TypeInvariant, TypeInvIsType, PTL

-----------------------------------------------------------------------------
(* The pointer that FetchInstructionDMA dereferences is never null: the     *)
(* decompiler of high RAM exists exactly while the mode says so, that of    *)
(* ROM from the first instruction on.                                       *)
THEOREM DecompilerAlwaysExists == Spec => []DecompilerExists
  <1>1. Init => DecompilerExists
    BY DEF Init, Dma!Init, DecompilerExists
  <1>2. TypeInv /\ DecompilerExists /\ [Next]_vars => DecompilerExists'
    <2> SUFFICES ASSUME TypeInv, DecompilerExists, [Next]_vars
                 PROVE  DecompilerExists'
      OBVIOUS
    <2>1. dma' <=> dmaPhase' # "none"
      <3>1. \/ dma' = TRUE /\ dmaPhase' # "none"
            \/ dma' = FALSE /\ dmaPhase' = "none"
            \/ dma' = dma /\ (dmaPhase' = "none" <=> dmaPhase = "none")
        BY DmaEvolves DEF TypeInv, DmaAdvances, DmaBuilt, DmaDropped
      <3>2. dma <=> dmaPhase # "none"
        BY DEF DecompilerExists
      <3>3. QED
        BY Zenon, <3>1, <3>2
    <2>2. step' # "init" => step # "init" \/ InitParser
      BY DEF Next, ReadInstruction, FetchInstruction, Execute, vars, executor,
             DecompileRom, DecompileHighRam, NoInterrupt, Interrupt, At,
             SwitchToExternalROM, FetchNotFound, FetchStraight, FetchToHighRam,
             FetchInRom, FetchToRom, FetchInHighRam, FetchJumping, Fetching,
             ExecuteStraight, ExecuteStore, ExecuteNotTaken, ExecuteTaken,
             Executing, ExecuteMinusOne
    <2>3. step' # "init" => romPhase' # "none"
      <3>1. CASE InitParser
        BY <3>1, RomOperations DEF InitParser
      <3>2. CASE step # "init"
        BY <3>2, RomEvolves DEF TypeInv, DecompilerExists, RomAdvances, RomRebuilt
      <3>3. QED
        BY <2>2, <3>1, <3>2
    <2>4. QED
      BY <2>1, <2>3 DEF DecompilerExists
  <1>3. QED
    BY <1>1, <1>2, TypeInvariant, PTL DEF Spec

-----------------------------------------------------------------------------
(* Memory changes only where rewritten says so.                             *)
LEMMA RewrittenTracks ==
  ASSUME [Next]_vars
  PROVE  /\ \A a \in RomRegion \ rewritten' :
              /\ romImage'[a] = romImage[a]
              /\ a \in rewritten => SwitchToExternalROM
         /\ \A a \in HighRamRegion \ rewritten' :
              /\ highRam'[a] = highRam[a]
              /\ a \in rewritten => FetchToHighRam
  <1>1. CASE UNCHANGED <<memory, rewritten>>
    BY <1>1 DEF memory, romImage
  <1>2. CASE SwitchToExternalROM
    BY <1>2, RegionsInAddress DEF SwitchToExternalROM, memory, romImage
  <1>3. CASE FetchToHighRam
    BY <1>3, RegionsInAddress DEF FetchToHighRam, FetchJumping, Fetching, memory, romImage
  <1>4. CASE ExecuteStore
    BY <1>4 DEF ExecuteStore
  <1>5. QED
    BY <1>1, <1>2, <1>3, <1>4
    DEF Next, ReadInstruction, FetchInstruction, Execute, vars, history, memory,
        InitParser, DecompileRom, DecompileHighRam, NoInterrupt, Interrupt,
        FetchNotFound, FetchStraight, FetchInRom, FetchToRom, FetchInHighRam,
        FetchJumping, Fetching, ExecuteStraight, ExecuteNotTaken, ExecuteTaken,
        ExecuteMinusOne

(* What LookUp yields is what memory holds, except where a store or a bank  *)
(* switch has changed memory since the decompiler was built.                *)
THEOREM CacheIsCoherent == Spec => []CacheCoherent
  <1>1. Init => CacheCoherent
    BY DEF Init, Rom!Init, Dma!Init, Rom!Empty, Dma!Empty, CacheCoherent
  <1>2. TypeInv /\ CacheCoherent /\ [Next]_vars => CacheCoherent'
    <2> SUFFICES ASSUME TypeInv, CacheCoherent, [Next]_vars
                 PROVE  CacheCoherent'
      OBVIOUS
    <2>1. DOMAIN romMap' \subseteq RomRegion /\ DOMAIN dmaMap' \subseteq HighRamRegion
      BY RomEvolves, DmaEvolves, RegionsInAddress DEF TypeInv, CodeOK, RomCode, DmaCode
    <2>2. ASSUME NEW a \in DOMAIN romMap' \ rewritten'
          PROVE  romMap'[a] = romImage'[a]
      <3>1. (RomAdvances /\ ~SwitchToExternalROM) \/ DOMAIN romMap' = {}
        BY RomEvolves, RomOperations
        DEF TypeInv, RomRebuilt, Fresh, RomCode, SwitchToExternalROM
      <3>2. CASE RomAdvances /\ ~SwitchToExternalROM
        <4>1. romImage'[a] = romImage[a] /\ a \notin rewritten
          BY <2>1, <2>2, <3>2, RewrittenTracks
        <4>2. /\ a \in DOMAIN romMap => romMap'[a] = romMap[a]
              /\ a \notin DOMAIN romMap => romMap'[a] = romImage[a]
          BY <2>2, <3>2 DEF RomAdvances, Grows, RomCode
        <4>3. QED
          BY <4>1, <4>2 DEF CacheCoherent
      <3>3. QED
        BY <2>2, <3>1, <3>2
    <2>3. ASSUME NEW a \in DOMAIN dmaMap' \ rewritten'
          PROVE  dmaMap'[a] = highRam'[a]
      <3>1. (DmaAdvances /\ ~FetchToHighRam) \/ DOMAIN dmaMap' = {}
        BY DmaEvolves, DmaOperations
        DEF TypeInv, DmaBuilt, DmaDropped, Fresh, DmaCode, FetchToHighRam
      <3>2. CASE DmaAdvances /\ ~FetchToHighRam
        <4>1. highRam'[a] = highRam[a] /\ a \notin rewritten
          BY <2>1, <2>3, <3>2, RewrittenTracks
        <4>2. /\ a \in DOMAIN dmaMap => dmaMap'[a] = dmaMap[a]
              /\ a \notin DOMAIN dmaMap => dmaMap'[a] = highRam[a]
          BY <2>3, <3>2 DEF DmaAdvances, Grows, DmaCode
        <4>3. QED
          BY <4>1, <4>2 DEF CacheCoherent
      <3>3. QED
        BY <2>3, <3>1, <3>2
    <2>4. QED
      BY <2>2, <2>3 DEF CacheCoherent
  <1>3. QED
    BY <1>1, <1>2, TypeInvariant, PTL DEF Spec

-----------------------------------------------------------------------------
(* Between instructions the mode agrees with the program counter, if the    *)
(* parser foresaw how control got there.                                    *)
ModeInv ==
  step \in {"init", "interrupts", "fetch"} /\ Foreseen =>
    /\ pc \in RomRegion => ~dma
    /\ pc \in HighRamRegion => dma

(* While an instruction executes, it is the one its decompiler found at pc, *)
(* unless the mode has changed for it, which only a jump brings about.      *)
FetchedInv ==
  step = "execute" =>
    /\ ~switched => pc \in DOMAIN Code /\ fetched = Code[pc]
    /\ switched => fetched.kind \in Jumping
    /\ switched /\ dma => pc \in RomRegion /\ pc + fetched.width <= RomLast + 1

(* The jumps whose target the parser gets wrong.                            *)
Miscounted ==
  \/ fetched.kind \in Relative
  \/ fetched.kind = "rst" /\ fetched.arg = Restart20

(* The mode has been chosen for the place any other jump goes to.           *)
JumpInv ==
  step = "execute" /\ fetched.kind \in Jumping /\ ~Miscounted =>
    /\ dma => Destination > RomLast
    /\ ~dma => Destination < HighRamFirst

ModePart == ModeInv /\ FetchedInv /\ JumpInv

ModeCode == IF dma THEN DmaCode ELSE RomCode

(* As long as neither decompiler is replaced, the mode's forgets nothing.   *)
LEMMA CodeAdvances ==
  ASSUME RomAdvances, DmaAdvances
  PROVE  /\ \A a \in DOMAIN Code : a \in DOMAIN Code' /\ Code'[a] = Code[a]
         /\ KnownTo(ModeCode) \subseteq KnownTo(ModeCode')
  <1>1. dma' = dma /\ KnownTo(RomCode) \subseteq KnownTo(RomCode')
        /\ KnownTo(DmaCode) \subseteq KnownTo(DmaCode')
    BY DEF RomAdvances, DmaAdvances, Grows
  <1>2. KnownTo(ModeCode) \subseteq KnownTo(ModeCode')
    BY <1>1 DEF ModeCode
  <1>3. /\ \A a \in DOMAIN romMap : a \in DOMAIN romMap' /\ romMap'[a] = romMap[a]
        /\ \A a \in DOMAIN dmaMap : a \in DOMAIN dmaMap' /\ dmaMap'[a] = dmaMap[a]
    BY DEF RomAdvances, DmaAdvances, Grows, RomCode, DmaCode
  <1>4. QED
    BY <1>1, <1>2, <1>3 DEF Code

(* The step of the machine tells which decompilers are replaced.            *)
LEMMA Advancing ==
  ASSUME TypeInv, [Next]_vars
  PROVE  /\ ~InitParser /\ ~SwitchToExternalROM => RomAdvances
         /\ ~FetchToHighRam /\ ~FetchToRom => DmaAdvances
  BY RomEvolves, DmaEvolves DEF TypeInv

(* A kind is of one class.                                                  *)
LEMMA KindsApart ==
  /\ Straight \intersect Jumping = {}
  /\ Relative \intersect (Absolute \union Returning \union {"jphl"}) = {}
  /\ Absolute \intersect (Returning \union {"jphl"}) = {}
  /\ Jumping = Relative \union Absolute \union Returning \union {"jphl"}
  /\ "rst" \in Absolute /\ "jphl" \notin Returning
  /\ "notTaken" \notin Jumping /\ "store" \in Straight
  BY DEF Straight, Jumping, Relative, Absolute, Returning

(* What the parser looked at is where the jump will go.                     *)
LEMMA TargetIsDestination ==
  ASSUME FetchJumping, ~Miscounted', NEW t \in Targets(hl')
  PROVE  t = Destination'
  <1>1. /\ fetched' = Code[pc] /\ stack' = stack
        /\ Code[pc].kind \in Jumping
    BY DEF FetchJumping, Fetching
  <1>2. TopWord' = TopWord
    BY <1>1 DEF TopWord
  <1>3. /\ Code[pc].kind \notin Relative
        /\ ~(Code[pc].kind = "rst" /\ Code[pc].arg = Restart20)
    BY <1>1 DEF Miscounted
  <1>4. CASE Code[pc].kind \in Returning
    BY <1>1, <1>2, <1>3, <1>4, KindsApart DEF Targets, ParserTargets, Destination
  <1>5. CASE Code[pc].kind = "jphl"
    BY <1>1, <1>3, <1>5, KindsApart DEF Targets, ParserTargets, Destination
  <1>6. CASE Code[pc].kind \in Absolute
    BY <1>1, <1>3, <1>6, KindsApart DEF Targets, ParserTargets, Destination
  <1>7. QED
    BY <1>1, <1>3, <1>4, <1>5, <1>6, KindsApart

(* The address after an instruction of the mode's region.                   *)
LEMMA FollowingNear ==
  ASSUME TypeInv, FetchedInv, step = "execute", ~switched
  PROVE  /\ fetched \in Instruction /\ pc \in DOMAIN Code /\ fetched = Code[pc]
         /\ Following = pc + fetched.width
         /\ dma => pc \in HighRamRegion /\ Following > RomLast /\ Following <= HighRamLast + 1
         /\ ~dma => pc \in RomRegion /\ Following < HighRamFirst /\ Following <= RomLast + 1
  <1>1. pc \in DOMAIN Code /\ fetched = Code[pc]
    BY DEF FetchedInv
  <1>2. fetched \in Instruction /\ fetched.width \in 1 .. 3
    BY <1>1, CodeTyped DEF TypeInv, Instruction
  <1>3. /\ dma => pc \in HighRamRegion /\ pc + fetched.width <= HighRamLast + 1
        /\ ~dma => pc \in RomRegion /\ pc + fetched.width <= RomLast + 1
    <2>1. CASE dma
      <3>1. pc \in DOMAIN dmaMap /\ fetched = dmaMap[pc]
        BY <1>1, <2>1 DEF Code
      <3>2. pc + fetched.width - 1 <= HighRamLast /\ pc \in HighRamRegion
        BY <3>1, CodeTyped DEF TypeInv, CodeInv, CodeOK, Closed, DmaCode
      <3>3. QED
        BY <1>2, <2>1, <3>2, Layout
    <2>2. CASE ~dma
      <3>1. pc \in DOMAIN romMap /\ fetched = romMap[pc]
        BY <1>1, <2>2 DEF Code
      <3>2. pc + fetched.width - 1 <= RomLast /\ pc \in RomRegion
        BY <3>1, CodeTyped DEF TypeInv, CodeInv, CodeOK, Closed, RomCode
      <3>3. QED
        BY <1>2, <2>2, <3>2, Layout
    <2>3. QED
      BY <2>1, <2>2
  <1>4. pc + fetched.width \in Address
    BY <1>2, <1>3, Layout DEF TypeInv, MachineTyped
  <1>5. Following = pc + fetched.width
    BY <1>4, WrapType, Layout DEF Following
  <1>6. QED
    BY <1>1, <1>2, <1>3, <1>5, Layout

(* Where the actions stand, so that each is told from the others.           *)
LEMMA Places ==
  /\ InitParser => step = "init"
  /\ SwitchToExternalROM => step = "fetch" /\ LeavingInternal
  /\ Fetching => step = "fetch" /\ ~LeavingInternal
  /\ FetchToHighRam => ~dma /\ FetchJumping /\ dma'
  /\ FetchToRom => dma /\ FetchJumping /\ ~dma'
  /\ FetchJumping => Fetching
  BY DEF InitParser, SwitchToExternalROM, Fetching, FetchToHighRam, FetchToRom,
         FetchJumping, At

(* An instruction fetched without a change of mode.                         *)
LEMMA FetchedHere ==
  ASSUME TypeInv, [Next]_vars, Fetching, ~FetchToHighRam, ~FetchToRom
  PROVE  pc' \in DOMAIN Code' /\ fetched' = Code'[pc']
  <1>1. ~InitParser /\ ~SwitchToExternalROM
    BY Places
  <1>2. RomAdvances /\ DmaAdvances
    BY <1>1, Advancing
  <1>3. QED
    BY <1>2, CodeAdvances DEF Fetching

LEMMA FetchMode ==
  ASSUME TypeInv, [Next]_vars, FetchInstruction
  PROVE  ModePart'
  <1>1. CASE FetchNotFound
    BY <1>1 DEF FetchNotFound, ModePart, ModeInv, FetchedInv, JumpInv
  <1>2. CASE Fetching
    <2>1. step' = "execute" /\ UNCHANGED <<pc, stack>> /\ fetched' = Code[pc]
          /\ pc \in DOMAIN Code
      BY <1>2 DEF Fetching
    <2>2. CASE FetchStraight
      <3>1. ~FetchToHighRam /\ ~FetchToRom /\ ~switched'
            /\ fetched'.kind \notin Jumping
        BY <2>1, <2>2, KindsApart DEF FetchStraight, FetchToHighRam, FetchToRom, FetchJumping
      <3>2. QED
        BY <1>2, <2>1, <3>1, FetchedHere DEF ModePart, ModeInv, FetchedInv, JumpInv
    <2>3. CASE FetchInRom \/ FetchInHighRam
      <3>1. ~FetchToHighRam /\ ~FetchToRom /\ ~switched' /\ FetchJumping /\ dma' = dma
        BY <2>3 DEF FetchInRom, FetchInHighRam, FetchToHighRam, FetchToRom
      <3>2. PICK t \in Targets(hl') : /\ dma => t > RomLast
                                      /\ ~dma => t < HighRamFirst
        BY <2>3 DEF FetchInRom, FetchInHighRam
      <3>3. JumpInv'
        BY <3>1, <3>2, TargetIsDestination DEF JumpInv
      <3>4. QED
        BY <1>2, <2>1, <3>1, <3>3, FetchedHere DEF ModePart, ModeInv, FetchedInv
    <2>4. CASE FetchToHighRam
      <3>1. ~dma /\ FetchJumping /\ dma' = TRUE /\ switched' = TRUE
            /\ fetched'.kind \in Jumping
        BY <2>1, <2>4 DEF FetchToHighRam, FetchJumping
      <3>2. PICK t \in Targets(hl') : t >= HighRamFirst
        BY <2>4 DEF FetchToHighRam
      <3>3. t \in Address
        BY <2>1, <3>1, StartsAssumption, Layout, TargetsTyped DEF TypeInv, FetchJumping
      <3>4. t > RomLast
        BY <3>2, <3>3, Layout
      <3>5. JumpInv'
        BY <3>1, <3>2, <3>4, TargetIsDestination DEF JumpInv
      <3>6. pc \in RomRegion /\ pc + fetched'.width <= RomLast + 1
        <4>1. pc \in DOMAIN romMap /\ fetched' = romMap[pc]
          BY <2>1, <3>1 DEF Code
        <4>2. pc + fetched'.width - 1 <= RomLast /\ pc \in RomRegion
          BY <4>1, CodeTyped DEF TypeInv, CodeInv, CodeOK, Closed, RomCode
        <4>3. fetched'.width \in Int /\ pc \in Int
          <5>1. fetched' \in Instruction /\ pc \in RomRegion
            BY <4>1, CodeTyped DEF TypeInv
          <5>2. QED
            BY <5>1, Layout DEF Instruction
        <4>4. QED
          BY <4>2, <4>3, Layout
      <3>7. FetchedInv'
        BY <2>1, <3>1, <3>6 DEF FetchedInv
      <3>8. QED
        BY <2>1, <3>5, <3>7 DEF ModePart, ModeInv
    <2>5. CASE FetchToRom
      <3>1. dma /\ FetchJumping /\ dma' = FALSE /\ switched' = TRUE
            /\ fetched'.kind \in Jumping
        BY <2>1, <2>5 DEF FetchToRom, FetchJumping
      <3>2. PICK t \in Targets(hl') : t <= RomLast
        BY <2>5 DEF FetchToRom
      <3>3. t \in Address
        BY <2>1, <3>1, StartsAssumption, Layout, TargetsTyped DEF TypeInv, FetchJumping
      <3>4. t < HighRamFirst
        BY <3>2, <3>3, Layout
      <3>5. JumpInv'
        BY <3>1, <3>2, <3>4, TargetIsDestination DEF JumpInv
      <3>6. QED
        BY <2>1, <3>1, <3>5 DEF ModePart, ModeInv, FetchedInv
    <2>6. QED
      BY <1>2, <2>2, <2>3, <2>4, <2>5, Places DEF FetchInstruction, FetchNotFound, Fetching
  <1>3. QED
    BY <1>1, <1>2
    DEF FetchInstruction, FetchStraight, FetchToHighRam, FetchInRom, FetchToRom,
        FetchInHighRam, FetchJumping

LEMMA ExecuteMode ==
  ASSUME TypeInv, ModePart, Execute
  PROVE  ModePart'
  <1>1. CASE ExecuteMinusOne
    BY <1>1 DEF ExecuteMinusOne, ModePart, ModeInv, FetchedInv, JumpInv
  <1>2. CASE Executing
    <2>1. step = "execute" /\ step' = "interrupts" /\ dma' = dma /\ switched' = switched
      BY <1>2 DEF Executing, At
    <2>2. CASE ExecuteStraight \/ ExecuteStore
      <3>1. ~switched /\ pc' = Following
        BY <2>1, <2>2, KindsApart DEF ExecuteStraight, ExecuteStore, ModePart, FetchedInv
      <3>2. /\ dma => Following > RomLast
            /\ ~dma => Following < HighRamFirst
            /\ Following \in Int
        BY <2>1, <3>1, FollowingNear, FollowingTyped, Layout DEF ModePart, TypeInv
      <3>3. QED
        BY <2>1, <3>1, <3>2, Layout DEF ModePart, ModeInv, FetchedInv, JumpInv
    <2>3. CASE ExecuteNotTaken
      BY <2>1, <2>3 DEF ExecuteNotTaken, Foreseen, ModePart, ModeInv, FetchedInv, JumpInv
    <2>4. CASE ExecuteTaken
      <3>1. /\ pc' = Destination /\ came' = fetched.kind
            /\ fetched.kind \in Jumping /\ Destination \in Address
        BY <2>4, FollowingTyped DEF ExecuteTaken, TypeInv
      <3>2. Foreseen' => ~Miscounted
        <4>1. CASE fetched.kind \in Relative
          BY <3>1, <4>1 DEF Foreseen
        <4>2. CASE fetched.kind = "rst" /\ fetched.arg = Restart20
          <5>1. Destination = Wrap(Restart20)
            BY <4>2, KindsApart DEF Destination
          <5>2. Destination = Restart20
            BY <5>1, WrapType, RegionsInAddress, LayoutAssumption, Layout
          <5>3. QED
            BY <3>1, <4>2, <5>2 DEF Foreseen
        <4>3. QED
          BY <4>1, <4>2 DEF Miscounted
      <3>3. QED
        BY <2>1, <3>1, <3>2, Layout DEF ModePart, ModeInv, FetchedInv, JumpInv
    <2>5. QED
      BY <1>2, <2>2, <2>3, <2>4 DEF Execute, ExecuteMinusOne, Executing
  <1>3. QED
    BY <1>1, <1>2
    DEF Execute, ExecuteStraight, ExecuteStore, ExecuteNotTaken, ExecuteTaken

LEMMA ModeStep == TypeInv /\ ModePart /\ [Next]_vars => ModePart'
  <1> SUFFICES ASSUME TypeInv, ModePart, [Next]_vars
               PROVE  ModePart'
    OBVIOUS
  <1>1. CASE UNCHANGED <<executor, history, dma>>
    <2>1. UNCHANGED <<pc, stack, step, fetched, hl, came, switched, dma>>
      BY <1>1 DEF executor, history
    <2>2. ModeInv' /\ JumpInv'
      BY <2>1
      DEF ModePart, ModeInv, JumpInv, Foreseen, Miscounted, Destination, TopWord, Following
    <2>3. ASSUME step = "execute"
          PROVE  RomAdvances /\ DmaAdvances
      <3>1. ~InitParser /\ ~SwitchToExternalROM /\ ~FetchToHighRam /\ ~FetchToRom
        BY <2>3, Places
      <3>2. QED
        BY <3>1, Advancing
    <2>4. FetchedInv'
      BY <2>1, <2>3, CodeAdvances DEF ModePart, FetchedInv
    <2>5. QED
      BY <2>2, <2>4 DEF ModePart
  <1>2. CASE InitParser \/ NoInterrupt \/ SwitchToExternalROM
    BY <1>2
    DEF InitParser, NoInterrupt, SwitchToExternalROM, At, history, Foreseen,
        ModePart, ModeInv, FetchedInv, JumpInv
  <1>3. CASE Interrupt
    <2>1. pc' \in RomRegion /\ dma' = dma /\ ~dma /\ step' = "fetch"
      BY <1>3, VectorsInRom DEF Interrupt
    <2>2. pc' \notin HighRamRegion
      BY <2>1, RegionsInAddress
    <2>3. QED
      BY <2>1, <2>2 DEF ModePart, ModeInv, FetchedInv, JumpInv
  <1>4. CASE FetchInstruction
    BY <1>4, FetchMode
  <1>5. CASE Execute
    BY <1>5, ExecuteMode
  <1>6. QED
    BY <1>1, <1>2, <1>3, <1>4, <1>5
    DEF Next, ReadInstruction, vars, DecompileRom, DecompileHighRam

LEMMA ModeInvariant == Spec => []ModePart
  <1>1. Init => ModePart
    <2>1. 0 \notin HighRamRegion
      BY Layout
    <2>2. QED
      BY <2>1 DEF Init, ModePart, ModeInv, FetchedInv, JumpInv
  <1>2. QED
    BY <1>1, ModeStep, TypeInvariant, PTL DEF Spec

(* The parser fetches from the decompiler of the region the program counter *)
(* is in, unless control came by a jump it foresees wrongly.                *)
THEOREM ModeFollowsPc == Spec => []ModeTracksPc
  <1>1. ModePart => ModeTracksPc
    BY DEF ModePart, ModeInv, ModeTracksPc
  <1>2. QED
    BY <1>1, ModeInvariant, PTL

-----------------------------------------------------------------------------
(* The boot ROM keeps control until it turns itself off, and hands it to a  *)
(* place where the formatted ROM is decompiled from.                        *)
BootCode == CHOOSE code \in SUBSET DOMAIN Boot : BootClosed(code)

BootReturns == \E a \in BootCode : Boot[a].kind \in Returning

InBoot == usingInternal /\ ~internalOff /\ step # "dead"

BootInv ==
  /\ step = "init" => pc = 0 /\ ~dma /\ usingInternal
  /\ InBoot =>
       /\ rewritten = {}
       /\ pc \in BootCode
       /\ step = "execute" => fetched = Boot[pc]
       /\ BootReturns => Range(stack) \subseteq BootCode
  /\ usingInternal /\ internalOff =>
       step \in {"interrupts", "fetch"} /\ pc \in Range(Formatted)

LEMMA BootFacts == BootCode \subseteq DOMAIN Boot /\ BootClosed(BootCode)
  <1>1. \E code \in SUBSET DOMAIN Boot : BootClosed(code)
    BY BootAssumption
  <1>2. BootCode \in SUBSET DOMAIN Boot /\ BootClosed(BootCode)
    BY <1>1 DEF BootCode
  <1>3. QED
    BY <1>2

LEMMA BootTyped ==
  ASSUME NEW a \in BootCode
  PROVE  a \in RomRegion /\ a \in DOMAIN Boot /\ Boot[a] \in Instruction
  BY BootFacts, ProgramsAssumption

(* No instruction of ROM reaches past the end of memory.                    *)
LEMMA RomFollowing ==
  ASSUME NEW a \in RomRegion, NEW i \in Instruction
  PROVE  /\ Wrap(a + i.width) = a + i.width
         /\ a + i.width \in Address
  <1>1. i.width \in 1 .. 3
    BY DEF Instruction
  <1>2. a + i.width \in Address
    BY <1>1, Layout
  <1>3. QED
    BY <1>2, WrapType, Layout

(* Wherever the boot ROM's instruction leads, but for the last, is its code. *)
LEMMA BootLeads ==
  ASSUME TypeInv, BootInv, InBoot, step = "execute"
  PROVE  /\ fetched.kind # "jphl"
         /\ fetched.kind = "store" => Following \in Range(Formatted)
         /\ (GoesOn(fetched) /\ fetched.kind # "store") \/ fetched.kind \in Calling =>
              Following \in BootCode
         /\ fetched.kind \in Jumping => Destination \in BootCode
  <1>1. /\ pc \in BootCode /\ fetched = Boot[pc]
        /\ BootReturns => Range(stack) \subseteq BootCode
    BY DEF BootInv
  <1>2. /\ pc \in RomRegion /\ fetched \in Instruction
        /\ Following = pc + fetched.width
    BY <1>1, BootTyped, RomFollowing DEF Following
  <1>3. /\ fetched.kind # "jphl"
        /\ fetched.kind = "store" => pc + fetched.width \in Range(Formatted)
        /\ fetched.kind # "store" /\ (GoesOn(fetched) \/ fetched.kind \in Calling) =>
             pc + fetched.width \in BootCode
        /\ HasStaticTarget(fetched) => StaticTarget(pc, fetched) \in BootCode
        /\ 0 \in BootCode
    BY <1>1, BootFacts DEF BootClosed
  <1>4. "store" \notin Calling
    BY DEF Calling
  <1>5. ASSUME fetched.kind \in Jumping
        PROVE  Destination \in BootCode
    <2>1. CASE fetched.kind \in Returning
      <3>1. Range(stack) \subseteq BootCode
        BY <1>1, <2>1 DEF BootReturns
      <3>2. TopWord \in BootCode
        BY <1>3, <3>1, FrontLast DEF TopWord, TypeInv, MachineTyped
      <3>3. QED
        BY <2>1, <3>2, KindsApart DEF Destination
    <2>2. CASE fetched.kind \in Relative \union Absolute
      <3>1. Destination = StaticTarget(pc, fetched)
        BY <1>2, <2>2, KindsApart DEF Destination, StaticTarget
      <3>2. QED
        BY <1>3, <2>2, <3>1 DEF HasStaticTarget
    <2>3. QED
      BY <1>3, <1>5, <2>1, <2>2, KindsApart
  <1>6. QED
    BY <1>2, <1>3, <1>4, <1>5

LEMMA BootExecute ==
  ASSUME TypeInv, BootInv, Execute
  PROVE  BootInv'
  <1>1. step = "execute" /\ step' \in {"interrupts", "dead"} /\ usingInternal' = usingInternal
    BY DEF Execute, ExecuteStraight, ExecuteStore, ExecuteNotTaken, ExecuteTaken,
           Executing, ExecuteMinusOne, At
  <1>2. CASE ~usingInternal
    BY <1>1, <1>2 DEF BootInv, InBoot
  <1>3. CASE usingInternal
    <2>1. InBoot
      BY <1>1, <1>3 DEF BootInv, InBoot
    <2>2. /\ ~internalOff /\ rewritten = {} /\ stack \in Seq(Address)
          /\ BootReturns => Range(stack) \subseteq BootCode
      BY <2>1 DEF BootInv, InBoot, TypeInv, MachineTyped
    <2>3. ASSUME rewritten' = rewritten, internalOff' = internalOff, pc' \in BootCode,
                 BootReturns => Range(stack') \subseteq BootCode,
                 step' = "interrupts"
          PROVE  BootInv'
      BY <2>2, <2>3 DEF BootInv, InBoot
    <2>4. CASE ExecuteStraight \/ ExecuteNotTaken
      <3>1. GoesOn(fetched) /\ fetched.kind # "store" /\ pc' = Following
            /\ UNCHANGED <<rewritten, stack, internalOff>> /\ step' = "interrupts"
        BY <2>4
        DEF ExecuteStraight, ExecuteNotTaken, Executing, memory, GoesOn, Conditional, Straight
      <3>2. QED
        BY <1>1, <2>1, <2>2, <2>3, <3>1, BootLeads
    <2>5. CASE ExecuteStore
      BY <1>1, <1>3, <2>1, <2>5, BootLeads DEF ExecuteStore, Executing, BootInv, InBoot
    <2>6. CASE ExecuteTaken
      <3>1. /\ pc' = Destination /\ fetched.kind \in Jumping
            /\ UNCHANGED <<rewritten, internalOff>> /\ step' = "interrupts"
            /\ fetched.kind \in Calling => stack' = Append(stack, Following)
            /\ \/ fetched.kind \in Calling
               \/ stack # <<>> /\ stack' = Front(stack)
               \/ stack' = stack
        <4>1. Calling \intersect Returning = {}
          BY DEF Calling, Returning
        <4>2. QED
          BY <2>6, <4>1 DEF ExecuteTaken, Executing, memory
      <3>2. ASSUME BootReturns
            PROVE  Range(stack') \subseteq BootCode
        <4>1. CASE fetched.kind \in Calling
          <5>1. Following \in BootCode /\ Following \in Address
            BY <1>1, <2>1, <4>1, BootLeads, FollowingTyped DEF TypeInv
          <5>2. /\ stack' = Append(stack, Following)
                /\ Range(Append(stack, Following)) = Range(stack) \union {Following}
            BY <2>2, <3>1, <4>1, <5>1, RangeAppend
          <5>3. QED
            BY <2>2, <3>2, <5>1, <5>2
        <4>2. CASE stack # <<>> /\ stack' = Front(stack)
          BY <2>2, <3>2, <4>2, FrontLast
        <4>3. CASE stack' = stack
          BY <2>2, <3>2, <4>3
        <4>4. QED
          BY <3>1, <4>1, <4>2, <4>3
      <3>3. QED
        BY <1>1, <2>1, <2>3, <3>1, <3>2, BootLeads
    <2>7. CASE ExecuteMinusOne
      BY <2>2, <2>7 DEF ExecuteMinusOne, memory, BootInv, InBoot
    <2>8. QED
      BY <2>4, <2>5, <2>6, <2>7 DEF Execute
  <1>4. QED
    BY <1>2, <1>3

LEMMA BootStep == TypeInv /\ CacheCoherent /\ BootInv /\ [Next]_vars => BootInv'
  <1> SUFFICES ASSUME TypeInv, CacheCoherent, BootInv, [Next]_vars
               PROVE  BootInv'
    OBVIOUS
  <1>1. CASE UNCHANGED <<memory, executor, history, dma>>
    BY <1>1 DEF memory, executor, history, BootInv, InBoot
  <1>2. CASE InitParser \/ NoInterrupt
    BY <1>2 DEF InitParser, NoInterrupt, At, memory, history, BootInv, InBoot
  <1>3. CASE Interrupt
    BY <1>3 DEF Interrupt, At, BootInv, InBoot
  <1>4. CASE SwitchToExternalROM
    BY <1>4 DEF SwitchToExternalROM, At, BootInv, InBoot
  <1>5. CASE FetchNotFound
    BY <1>5 DEF FetchNotFound, LeavingInternal, At, memory, history, BootInv, InBoot
  <1>6. CASE FetchStraight \/ FetchToHighRam \/ FetchInRom \/ FetchToRom \/ FetchInHighRam
    <2>1. Fetching /\ rewritten' \subseteq rewritten
      BY <1>6
      DEF FetchStraight, FetchToHighRam, FetchInRom, FetchToRom, FetchInHighRam,
          FetchJumping
    <2>2. /\ step = "fetch" /\ step' = "execute" /\ ~LeavingInternal
          /\ UNCHANGED <<pc, stack, usingInternal, internalOff>>
          /\ pc \in DOMAIN Code /\ fetched' = Code[pc]
      BY <2>1 DEF Fetching, At, memory
    <2>3. ASSUME InBoot
          PROVE  fetched' = Boot[pc]
      <3>1. rewritten = {} /\ pc \in BootCode /\ ~internalOff
        BY <2>3 DEF BootInv, InBoot
      <3>2. pc \in DOMAIN Boot /\ pc \in RomRegion /\ pc \notin HighRamRegion
        BY <3>1, BootTyped, RegionsInAddress
      <3>3. pc \in DOMAIN romMap /\ fetched' = romMap[pc]
        BY <2>2, <3>2, CodeTyped DEF Code, TypeInv
      <3>4. fetched' = romImage[pc]
        BY <3>1, <3>3 DEF CacheCoherent
      <3>5. QED
        BY <3>1, <3>2, <3>4 DEF romImage, Visible
    <2>4. QED
      BY <2>1, <2>2, <2>3 DEF BootInv, InBoot, LeavingInternal
  <1>7. CASE Execute
    BY <1>7, BootExecute
  <1>8. QED
    BY <1>1, <1>2, <1>3, <1>4, <1>5, <1>6, <1>7
    DEF Next, ReadInstruction, FetchInstruction, vars, DecompileRom, DecompileHighRam

LEMMA BootInvariant == Spec => []BootInv
  <1>1. Init => BootInv
    <2> SUFFICES ASSUME Init
                 PROVE  BootInv
      OBVIOUS
    <2>1. 0 \in BootCode /\ (BootReturns => Range(stack) \subseteq BootCode)
      BY BootFacts DEF BootClosed, BootReturns, Init
    <2>2. QED
      BY <2>1 DEF Init, BootInv, InBoot
  <1>2. QED
    BY <1>1, BootStep, TypeInvariant, CacheIsCoherent, PTL DEF Spec

-----------------------------------------------------------------------------
(* Between instructions, the program counter is known to the decompiler of  *)
(* the mode, or lies outside its region, or control came in a way no        *)
(* decompiler foresees.                                                     *)
PcKnown ==
  step \in {"interrupts", "fetch"} =>
    \/ pc \notin CurrentRegion
    \/ pc \in KnownTo(ModeCode)
    \/ came \in Returning
    \/ switched /\ (~dma \/ came \in Relative)

(* The target of a jump through HL, or of an absolute one that started a    *)
(* decompiler, has been handed to it.                                       *)
JumpKnown ==
  step = "execute" /\ (fetched.kind = "jphl" \/ (fetched.kind \in Absolute /\ switched))
      /\ (switched => dma) =>
    Destination \notin CurrentRegion \/ Destination \in KnownTo(ModeCode)

FormattedKnown == ~usingInternal => Range(Formatted) \subseteq KnownTo(RomCode)

KnownPart == PcKnown /\ JumpKnown /\ FormattedKnown

LEMMA FormattedStep ==
  ASSUME TypeInv, BootInv, FormattedKnown, [Next]_vars
  PROVE  FormattedKnown'
  <1>1. CASE InitParser
    BY <1>1, Places DEF InitParser, BootInv, FormattedKnown
  <1>2. CASE SwitchToExternalROM
    <2>1. Fresh(RomCode', Formatted)
      BY <1>2, RomOperations DEF SwitchToExternalROM
    <2>2. Range(Formatted) \subseteq KnownTo(RomCode')
      BY <2>1 DEF Fresh, KnownTo
    <2>3. QED
      BY <2>2 DEF FormattedKnown
  <1>3. CASE ~InitParser /\ ~SwitchToExternalROM
    <2>1. KnownTo(RomCode) \subseteq KnownTo(RomCode')
      BY <1>3, Advancing DEF RomAdvances, Grows
    <2>2. usingInternal' = usingInternal
      BY <1>3
      DEF Next, ReadInstruction, FetchInstruction, Execute, vars, executor,
          DecompileRom, DecompileHighRam, NoInterrupt, Interrupt, FetchNotFound,
          FetchStraight, FetchToHighRam, FetchInRom, FetchToRom, FetchInHighRam,
          FetchJumping, Fetching, ExecuteStraight, ExecuteStore,
          ExecuteNotTaken, ExecuteTaken, Executing, ExecuteMinusOne
    <2>3. QED
      BY <2>1, <2>2 DEF FormattedKnown
  <1>4. QED
    BY <1>1, <1>2, <1>3

(* The successors of the instruction that executes.                         *)
LEMMA SuccessorsKnown ==
  ASSUME TypeInv, FetchedInv, step = "execute", ~switched
  PROVE  /\ HasStaticTarget(fetched) /\ Destination \in CurrentRegion =>
              Destination \in KnownTo(ModeCode)
         /\ GoesOn(fetched) => Following \notin CurrentRegion \/ Following \in KnownTo(ModeCode)
  <1>1. /\ pc \in DOMAIN Code /\ fetched = Code[pc] /\ fetched \in Instruction
        /\ Following = pc + fetched.width
    BY FollowingNear
  <1>2. HasStaticTarget(fetched) => Destination = StaticTarget(pc, fetched)
    BY <1>1, KindsApart DEF HasStaticTarget, StaticTarget, Destination
  <1>3. CASE dma
    <2>1. ModeCode = DmaCode /\ CurrentRegion = HighRamRegion /\ Code = dmaMap
      BY <1>3 DEF ModeCode, CurrentRegion, Code
    <2>2. /\ HasStaticTarget(fetched) /\ StaticTarget(pc, fetched) \in HighRamRegion =>
               StaticTarget(pc, fetched) \in KnownTo(DmaCode)
          /\ GoesOn(fetched) /\ pc + fetched.width <= HighRamLast =>
               pc + fetched.width \in KnownTo(DmaCode)
      BY <1>1, <2>1, RegionsInAddress DEF TypeInv, CodeInv, CodeOK, Closed, DmaCode
    <2>3. Following \in HighRamRegion => Following <= HighRamLast
      BY Layout
    <2>4. QED
      BY <1>1, <1>2, <2>1, <2>2, <2>3
  <1>4. CASE ~dma
    <2>1. ModeCode = RomCode /\ CurrentRegion = RomRegion /\ Code = romMap
      BY <1>4 DEF ModeCode, CurrentRegion, Code
    <2>2. /\ HasStaticTarget(fetched) /\ StaticTarget(pc, fetched) \in RomRegion =>
               StaticTarget(pc, fetched) \in KnownTo(RomCode)
          /\ GoesOn(fetched) /\ pc + fetched.width <= RomLast =>
               pc + fetched.width \in KnownTo(RomCode)
      BY <1>1, <2>1, RegionsInAddress DEF TypeInv, CodeInv, CodeOK, Closed, RomCode
    <2>3. Following \in RomRegion => Following <= RomLast
      BY Layout
    <2>4. QED
      BY <1>1, <1>2, <2>1, <2>2, <2>3
  <1>5. QED
    BY <1>3, <1>4

LEMMA FetchKnown ==
  ASSUME TypeInv, [Next]_vars, Fetching
  PROVE  (PcKnown /\ JumpKnown)'
  <1>1. /\ step' = "execute" /\ fetched' = Code[pc] /\ UNCHANGED <<pc, stack>>
        /\ pc \in DOMAIN Code
    BY DEF Fetching
  <1>2. /\ \/ FetchStraight \/ FetchToHighRam \/ FetchInRom
           \/ FetchToRom \/ FetchInHighRam
        /\ ~InitParser /\ ~SwitchToExternalROM
    <2>1. step = "fetch" /\ ~LeavingInternal
      BY Places
    <2>2. QED
      BY <1>1, <2>1, Places
      DEF Next, ReadInstruction, FetchInstruction, FetchNotFound, Execute, vars,
          executor, DecompileRom, DecompileHighRam, NoInterrupt, Interrupt, At,
          ExecuteStraight, ExecuteStore, ExecuteNotTaken, ExecuteTaken,
          Executing, ExecuteMinusOne
  <1>3. ASSUME fetched'.kind = "jphl", FetchJumping, NEW t \in Targets(hl')
        PROVE  Destination' = t
    BY <1>3, TargetIsDestination, KindsApart DEF Miscounted
  <1>4. JumpKnown'
    <2>1. CASE FetchStraight
      BY <1>1, <2>1, KindsApart DEF FetchStraight, JumpKnown, Jumping
    <2>2. CASE FetchToRom
      BY <2>2 DEF FetchToRom, JumpKnown
    <2>3. CASE FetchToHighRam
      <3>1. PICK t \in Targets(hl') : DmaBuilt(t)
        <4>1. \E t \in Targets(hl') : t >= HighRamFirst /\ Dma!Build(<<t>>)
          BY <2>3 DEF FetchToHighRam
        <4>2. QED
          BY <2>3, <4>1, DmaOperations DEF FetchToHighRam, DmaBuilt
      <3>2. /\ dma' = TRUE /\ ModeCode' = DmaCode' /\ CurrentRegion' = HighRamRegion
            /\ FetchJumping
        BY <2>3 DEF FetchToHighRam, ModeCode, CurrentRegion
      <3>3. t \in KnownTo(DmaCode')
        BY <3>1 DEF DmaBuilt, Fresh, KnownTo, Range
      <3>4. CASE Miscounted' /\ fetched'.kind \in Absolute
        <4>1. Destination' = Wrap(Restart20)
          BY <3>4, KindsApart DEF Destination, Miscounted
        <4>2. Destination' = Restart20
          BY <4>1, WrapType, RegionsInAddress, LayoutAssumption, Layout
        <4>3. Destination' \notin HighRamRegion
          BY <4>2, RegionsInAddress, LayoutAssumption
        <4>4. QED
          BY <3>2, <4>3 DEF JumpKnown
      <3>5. CASE ~Miscounted'
        BY <3>2, <3>3, <3>5, TargetIsDestination DEF JumpKnown
      <3>6. CASE fetched'.kind = "jphl"
        BY <1>3, <3>2, <3>3, <3>6 DEF JumpKnown
      <3>7. QED
        BY <3>4, <3>5, <3>6 DEF JumpKnown
    <2>4. CASE FetchInRom
      <3>1. ~dma /\ dma' = dma /\ ~switched' /\ FetchJumping /\ ModeCode' = RomCode'
        BY <2>4 DEF FetchInRom, ModeCode
      <3>2. ASSUME fetched'.kind = "jphl"
            PROVE  Destination' \in KnownTo(RomCode')
        <4>1. PICK t \in Targets(hl') : Rom!Explore(t)
          BY <1>1, <2>4, <3>2 DEF FetchInRom
        <4>2. t \in Address
          BY <1>1, <3>1, StartsAssumption, Layout, TargetsTyped DEF TypeInv, FetchJumping
        <4>3. t \in KnownTo(RomCode')
          BY <4>1, <4>2, RomOperations, ExtendedCode DEF TypeInv, CodeInv
        <4>4. QED
          BY <1>3, <3>1, <3>2, <4>3
      <3>3. QED
        BY <3>1, <3>2 DEF JumpKnown
    <2>5. CASE FetchInHighRam
      <3>1. dma /\ dma' = dma /\ ~switched' /\ FetchJumping /\ ModeCode' = DmaCode'
        BY <2>5 DEF FetchInHighRam, ModeCode
      <3>2. ASSUME fetched'.kind = "jphl"
            PROVE  Destination' \in KnownTo(DmaCode')
        <4>1. PICK t \in Targets(hl') : Dma!Explore(t)
          BY <1>1, <2>5, <3>2 DEF FetchInHighRam
        <4>2. t \in Address
          BY <1>1, <3>1, StartsAssumption, Layout, TargetsTyped DEF TypeInv, FetchJumping
        <4>3. t \in KnownTo(DmaCode')
          BY <4>1, <4>2, DmaOperations, ExtendedCode DEF TypeInv, CodeInv
        <4>4. QED
          BY <1>3, <3>1, <3>2, <4>3
      <3>3. QED
        BY <3>1, <3>2 DEF JumpKnown
    <2>6. QED
      BY <1>2, <2>1, <2>2, <2>3, <2>4, <2>5
  <1>5. QED
    BY <1>1, <1>4 DEF PcKnown

LEMMA ExecuteKnown ==
  ASSUME TypeInv, FetchedInv, JumpKnown, Execute
  PROVE  (PcKnown /\ JumpKnown)'
  <1>1. CASE ExecuteMinusOne
    BY <1>1 DEF ExecuteMinusOne, PcKnown, JumpKnown
  <1>2. CASE Executing
    <2>1. /\ step = "execute" /\ step' = "interrupts"
          /\ ModeCode' = ModeCode /\ CurrentRegion' = CurrentRegion
          /\ dma' = dma /\ switched' = switched
      BY <1>2
      DEF Executing, At, rom, highRamCode, ModeCode, RomCode, DmaCode, CurrentRegion
    <2>2. CASE ExecuteStraight \/ ExecuteStore
      <3>1. /\ fetched.kind \in Straight /\ pc' = Following
            /\ GoesOn(fetched) /\ ~switched
        BY <2>1, <2>2, KindsApart DEF ExecuteStraight, ExecuteStore, GoesOn, FetchedInv
      <3>2. QED
        BY <2>1, <3>1, SuccessorsKnown DEF PcKnown, JumpKnown
    <2>3. CASE ExecuteNotTaken
      <3>1. pc' = Following /\ GoesOn(fetched)
        BY <2>3 DEF ExecuteNotTaken, GoesOn
      <3>2. CASE ~switched
        BY <2>1, <3>1, <3>2, SuccessorsKnown DEF PcKnown, JumpKnown
      <3>3. CASE switched /\ dma
        <4>1. pc \in RomRegion /\ pc + fetched.width <= RomLast + 1
          BY <2>1, <3>3 DEF FetchedInv
        <4>2. Following = pc + fetched.width
          BY <4>1, RomFollowing DEF Following, TypeInv, MachineTyped
        <4>3. Following \notin CurrentRegion
          BY <3>3, <4>1, <4>2, Layout DEF CurrentRegion
        <4>4. QED
          BY <2>1, <3>1, <4>3 DEF PcKnown, JumpKnown
      <3>4. CASE switched /\ ~dma
        BY <2>1, <3>4 DEF PcKnown, JumpKnown
      <3>5. QED
        BY <3>2, <3>3, <3>4
    <2>4. CASE ExecuteTaken
      <3>1. pc' = Destination /\ came' = fetched.kind /\ fetched.kind \in Jumping
        BY <2>4 DEF ExecuteTaken
      <3>2. CASE fetched.kind \in Returning \/ (switched /\ ~dma)
        BY <2>1, <3>1, <3>2 DEF PcKnown, JumpKnown
      <3>3. CASE fetched.kind \in Relative /\ switched
        BY <2>1, <3>1, <3>3 DEF PcKnown, JumpKnown
      <3>4. CASE fetched.kind \in Relative \union Absolute /\ ~switched
        BY <2>1, <3>1, <3>4, SuccessorsKnown DEF PcKnown, JumpKnown, HasStaticTarget
      <3>5. CASE (fetched.kind = "jphl" \/ (fetched.kind \in Absolute /\ switched))
                   /\ (switched => dma)
        BY <2>1, <3>1, <3>5 DEF PcKnown, JumpKnown
      <3>6. QED
        BY <3>1, <3>2, <3>3, <3>4, <3>5, KindsApart
    <2>5. QED
      BY <1>2, <2>2, <2>3, <2>4 DEF Execute, ExecuteMinusOne, Executing
  <1>3. QED
    BY <1>1, <1>2
    DEF Execute, ExecuteStraight, ExecuteStore, ExecuteNotTaken, ExecuteTaken

LEMMA KnownStep ==
  TypeInv /\ BootInv /\ FetchedInv /\ KnownPart /\ [Next]_vars => KnownPart'
  <1> SUFFICES ASSUME TypeInv, BootInv, FetchedInv, PcKnown, JumpKnown,
                      FormattedKnown, [Next]_vars
               PROVE  (PcKnown /\ JumpKnown)'
    BY FormattedStep DEF KnownPart
  <1>1. CASE UNCHANGED <<executor, history, dma>>
    <2>1. UNCHANGED <<pc, stack, step, fetched, hl, came, switched, dma>>
      BY <1>1 DEF executor, history
    <2>2. Destination' = Destination /\ CurrentRegion' = CurrentRegion
      BY <2>1 DEF Destination, TopWord, Following, CurrentRegion
    <2>3. ~InitParser
      BY <2>1 DEF InitParser
    <2>4. ~SwitchToExternalROM
      <3>1. SwitchToExternalROM => usingInternal /\ usingInternal' = FALSE
        BY DEF SwitchToExternalROM, LeavingInternal
      <3>2. usingInternal' = usingInternal
        BY <1>1 DEF executor
      <3>3. QED
        BY Zenon, <3>1, <3>2
    <2>5. ~FetchToHighRam /\ ~FetchToRom
      BY <2>1 DEF FetchToHighRam, FetchToRom, FetchJumping, Fetching, At
    <2>6. RomAdvances /\ DmaAdvances
      BY <2>3, <2>4, <2>5, Advancing
    <2>7. QED
      BY <2>1, <2>2, <2>6, CodeAdvances DEF PcKnown, JumpKnown
  <1>2. CASE InitParser
    <2>1. /\ pc' = 0 /\ ~dma' /\ Fresh(RomCode', Unformatted) /\ step' = "interrupts"
      BY <1>2, RomOperations DEF InitParser, BootInv
    <2>2. 0 \in KnownTo(ModeCode')
      BY <2>1, StartsAssumption DEF ModeCode, Fresh, KnownTo
    <2>3. QED
      BY <2>1, <2>2 DEF PcKnown, JumpKnown
  <1>3. CASE NoInterrupt
    <2>1. /\ UNCHANGED <<pc, came, switched, dma>> /\ ModeCode' = ModeCode
          /\ CurrentRegion' = CurrentRegion /\ step = "interrupts" /\ step' = "fetch"
      BY <1>3 DEF NoInterrupt, At, history, rom, highRamCode, ModeCode, RomCode,
                  DmaCode, CurrentRegion
    <2>2. QED
      BY <2>1 DEF PcKnown, JumpKnown
  <1>4. CASE Interrupt
    <2>1. /\ pc' \in Vectors /\ ~usingInternal /\ step' = "fetch"
          /\ ModeCode' = RomCode
      BY <1>4 DEF Interrupt, rom, ModeCode, RomCode
    <2>2. pc' \in KnownTo(RomCode)
      BY <2>1, StartsAssumption DEF FormattedKnown
    <2>3. QED
      BY <2>1, <2>2 DEF PcKnown, JumpKnown
  <1>5. CASE SwitchToExternalROM
    <2>1. /\ pc' = pc /\ dma' = dma /\ step' = "fetch" /\ pc \in Range(Formatted)
          /\ Fresh(RomCode', Formatted)
      BY <1>5, RomOperations DEF SwitchToExternalROM, LeavingInternal, BootInv, At
    <2>2. pc \in RomRegion /\ pc \notin HighRamRegion
      BY <2>1, VectorsInRom, RegionsInAddress
    <2>3. ~dma => pc \in KnownTo(ModeCode')
      BY <2>1 DEF ModeCode, Fresh, KnownTo
    <2>4. QED
      BY <2>1, <2>2, <2>3 DEF PcKnown, JumpKnown, CurrentRegion
  <1>6. CASE FetchNotFound
    BY <1>6 DEF FetchNotFound, PcKnown, JumpKnown
  <1>7. CASE Fetching
    BY <1>7, FetchKnown
  <1>8. CASE Execute
    BY <1>8, ExecuteKnown
  <1>9. QED
    BY <1>1, <1>2, <1>3, <1>4, <1>5, <1>6, <1>7, <1>8
    DEF Next, ReadInstruction, FetchInstruction, FetchStraight, FetchToHighRam,
        FetchInRom, FetchToRom, FetchInHighRam, FetchJumping, vars, DecompileRom,
        DecompileHighRam

LEMMA KnownInvariant == Spec => []KnownPart
  <1>1. Init => KnownPart
    BY DEF Init, KnownPart, PcKnown, JumpKnown, FormattedKnown
  <1>2. ModePart => FetchedInv
    BY DEF ModePart
  <1>3. QED
    BY <1>1, <1>2, KnownStep, TypeInvariant, BootInvariant, ModeInvariant, PTL
    DEF Spec

-----------------------------------------------------------------------------
(* A dead emulation moves no more: the decompilers rest.                    *)
DeathInv == DeathExplained /\ (step = "dead" => Quiet)

LEMMA DeathStep == TypeInv /\ PcKnown /\ DeathInv /\ [Next]_vars => DeathInv'
  <1> SUFFICES ASSUME TypeInv, PcKnown, DeathInv, [Next]_vars, step' = "dead"
               PROVE  DeathInv'
    BY DEF DeathInv, DeathExplained
  <1>1. CASE UNCHANGED vars
    BY <1>1
    DEF vars, rom, highRamCode, executor, history, DeathInv, DeathExplained,
        CurrentRegion, GivenUp, Quiet
  <1>2. CASE FetchNotFound
    <2>1. /\ pc \notin DOMAIN Code /\ step = "fetch" /\ Quiet
          /\ UNCHANGED <<pc, came, switched, dma, romPhase, dmaPhase,
                         romPaths, romRejected, dmaPaths, dmaRejected>>
      BY <1>2 DEF FetchNotFound, At, history, rom, highRamCode
    <2>2. CurrentRegion' = CurrentRegion /\ GivenUp' = GivenUp /\ Quiet'
      BY <2>1 DEF CurrentRegion, GivenUp, Quiet
    <2>3. KnownTo(ModeCode) = DOMAIN Code \union GivenUp
      BY DEF KnownTo, ModeCode, RomCode, DmaCode, Code, GivenUp
    <2>4. QED
      BY <2>1, <2>2, <2>3 DEF PcKnown, DeathInv, DeathExplained
  <1>3. CASE ExecuteMinusOne
    BY <1>3 DEF ExecuteMinusOne, At, rom, highRamCode, DeathInv, DeathExplained, Quiet
  <1>4. step = "dead" => UNCHANGED vars
    BY DEF DeathInv, Quiet, Rom!Decompile, Rom!Finish, Rom!SkipDecoded,
           Rom!RejectOccupied, Rom!FatalRead, Rom!RejectIllegal, Rom!Decode,
           Rom!Fresh, Rom!Exploring, Dma!Decompile, Dma!Finish,
           Dma!SkipDecoded, Dma!RejectOccupied, Dma!FatalRead,
           Dma!RejectIllegal, Dma!Decode, Dma!Fresh, Dma!Exploring,
           Next, DecompileRom, DecompileHighRam, InitParser, ReadInstruction,
           FetchInstruction, Execute, NoInterrupt, Interrupt, At,
           SwitchToExternalROM, FetchNotFound, FetchStraight, FetchToHighRam,
           FetchInRom, FetchToRom, FetchInHighRam, FetchJumping, Fetching,
           ExecuteStraight, ExecuteStore, ExecuteNotTaken, ExecuteTaken,
           Executing, ExecuteMinusOne
  <1>5. step # "dead" => FetchNotFound \/ ExecuteMinusOne
    BY DEF Next, DecompileRom, DecompileHighRam, executor, vars, InitParser,
           ReadInstruction, FetchInstruction, Execute, NoInterrupt, Interrupt,
           SwitchToExternalROM, FetchStraight, FetchToHighRam,
           FetchInRom, FetchToRom, FetchInHighRam, FetchJumping, Fetching,
           ExecuteStraight, ExecuteStore, ExecuteNotTaken, ExecuteTaken,
           Executing
  <1>6. QED
    BY <1>1, <1>2, <1>3, <1>4, <1>5

(* The emulation dies of an address without an instruction only where the   *)
(* decompiler of the mode gave up, outside its region, or where control     *)
(* came by a return, by a jump out of high RAM, by a relative jump that was *)
(* miscounted, or by the JR to -1: everything else control reaches has been *)
(* decompiled.                                                              *)
THEOREM DeathsExplained == Spec => []DeathExplained
  <1>1. Init => DeathInv
    BY DEF Init, DeathInv, DeathExplained
  <1>2. KnownPart => PcKnown
    BY DEF KnownPart
  <1>3. DeathInv => DeathExplained
    BY DEF DeathInv
  <1>4. QED
    BY <1>1, <1>2, <1>3, DeathStep, TypeInvariant, KnownInvariant, PTL DEF Spec
=============================================================================
