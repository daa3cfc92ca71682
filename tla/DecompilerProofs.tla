-------------------------- MODULE DecompilerProofs --------------------------
(***************************************************************************)
(* For every region, every program in it and every history of builds and   *)
(* restarts: the decompiler's types, the exactness of its allocation map,  *)
(* and that it decodes the code the CPU can execute, nothing else, and all *)
(* of it but what only the return of an RST leads to.                      *)
(***************************************************************************)
EXTENDS Decompiler, SequenceLemmas

-----------------------------------------------------------------------------
(* What a pass pushes are addresses.                                        *)
LEMMA WrapTyped == \A n \in Int : Wrap(n) \in Address
  BY AddressSpaceAssumption DEF Wrap, Address

LEMMA PathsTyped ==
  ASSUME NEW a \in Region, NEW i \in Instruction
  PROVE  TargetPath(a, i) \in Seq(Address) /\ NextPath(a, i) \in Seq(Address)
  <1>1. a + i.width \in Int
    BY RegionAssumption, AddressSpaceAssumption DEF Region, Instruction, Address
  <1>2. Region \subseteq Address
    BY RegionAssumption, AddressSpaceAssumption DEF Region, Address
  <1>3. TargetPath(a, i) \in Seq(Address)
    BY <1>2 DEF TargetPath
  <1>4. NextPath(a, i) \in Seq(Address)
    BY <1>1, WrapTyped DEF NextPath
  <1>5. QED
    BY <1>3, <1>4

LEMMA ImageTyped ==
  ASSUME image \in Images, NEW a \in Region
  PROVE  image[a] \in Instruction
  BY ImagesAssumption DEF Region

LEMMA RegionInAddress == Region \subseteq Address
  BY RegionAssumption, AddressSpaceAssumption DEF Region, Address

(* The stack after a decoding pass: the rest of it and the successors.      *)
LEMMA DecodeStack ==
  ASSUME TypeOK, Exploring, Top \in Region, image[Top].kind # "illegal"
  PROVE  LET rest == Below \o Pushed(Top, image[Top])
         IN  /\ rest \in Seq(Address)
             /\ Range(rest) = Range(Below) \union Successors(Top)
  <1> DEFINE i == image[Top]
             pushed == Pushed(Top, i)
  <1>1. i \in Instruction
    BY ImageTyped DEF TypeOK
  <1>2. TargetPath(Top, i) \in Seq(Address) /\ NextPath(Top, i) \in Seq(Address)
    BY <1>1, PathsTyped
  <1>3. Below \in Seq(Address)
    BY FrontLast DEF TypeOK, Exploring, Below
  <1>4. pushed \in Seq(Address) /\ Range(pushed) = Successors(Top)
    BY <1>2 DEF Pushed, Successors
  <1>5. /\ Below \o pushed \in Seq(Address)
        /\ Range(Below \o pushed) = Range(Below) \union Range(pushed)
    <2> HIDE DEF pushed
    <2>1. QED
      BY <1>3, <1>4, RangeConcat
  <1>6. QED
    BY <1>4, <1>5

-----------------------------------------------------------------------------
(* TypeOK is inductive.                                                     *)
LEMMA TypeInit == Init => TypeOK
  BY DEF Init, TypeOK, Empty, Decoded

LEMMA TypeStep == TypeOK /\ [Next]_vars => TypeOK'
  <1> SUFFICES ASSUME TypeOK, [Next]_vars
               PROVE  TypeOK'
    OBVIOUS
  <1> USE DEF TypeOK, Decoded
  <1>1. ASSUME NEW paths \in InitialPaths, Build(paths)
        PROVE  TypeOK'
    <2>1. paths \in Seq(Address) /\ Range(paths) \subseteq Address
      BY PathsAssumption DEF Range
    <2>2. QED
      BY <1>1, <2>1 DEF Build, Empty
  <1>2. ASSUME NEW a \in Unexplored, Explore(a)
        PROVE  TypeOK'
    BY <1>2, PathsAssumption DEF Explore
  <1>3. CASE Finish
    BY <1>3 DEF Finish, memory, history
  <1>4. CASE SkipDecoded
    BY <1>4, FrontLast DEF SkipDecoded, Exploring, Below, history
  <1>5. CASE RejectOccupied
    BY <1>5, FrontLast DEF RejectOccupied, Exploring, Below, Top
  <1>6. CASE FatalRead
    BY <1>6 DEF FatalRead, memory, history
  <1>7. CASE RejectIllegal
    BY <1>7, FrontLast DEF RejectIllegal, Fresh, Exploring, Below, Top
  <1>8. CASE Decode
    <2> DEFINE i == image[Top]
    <2>1. /\ Exploring /\ Top \in Region
          /\ i.kind # "illegal" /\ Top + i.width - 1 <= RomMax
          /\ opcodeMap' = [a \in Decoded \union {Top} |->
                              IF a = Top THEN i ELSE opcodeMap[a]]
          /\ allocated' = allocated \union Extent(Top, i)
          /\ codePaths' = Below \o Pushed(Top, i)
          /\ UNCHANGED <<image, phase, starts, rejected>>
      BY <1>8 DEF Decode, Fresh, Readable, Marked, history
    <2>2. i \in Instruction
      BY <2>1, ImageTyped
    <2>3. DOMAIN opcodeMap' = DOMAIN opcodeMap \union {Top}
      BY <2>1
    <2>4. \A a \in DOMAIN opcodeMap' : opcodeMap'[a] \in Instruction
      BY <2>1, <2>2
    <2>5. Extent(Top, i) \subseteq Region
      BY <2>1, <2>2, RegionAssumption, AddressSpaceAssumption DEF Extent, Region, Instruction, Address
    <2>6. codePaths' \in Seq(Address)
      BY <2>1, DecodeStack
    <2>7. QED
      BY <2>1, <2>3, <2>4, <2>5, <2>6
  <1>9. CASE UNCHANGED vars
    BY <1>9 DEF vars, memory, history
  <1>10. CASE Discard
    BY <1>10 DEF Discard, Empty
  <1>11. QED
    BY <1>1, <1>2, <1>3, <1>4, <1>5, <1>6, <1>7, <1>8, <1>9, <1>10
    DEF Next, Decompile

(* Every variable keeps its type, whatever is decompiled in whatever order. *)
THEOREM TypeCorrect == Spec => []TypeOK
  BY TypeInit, TypeStep, PTL DEF Spec

-----------------------------------------------------------------------------
(* What popping leaves on the stack.                                        *)
LEMMA Pop ==
  ASSUME TypeOK, Exploring
  PROVE  Range(codePaths) = Range(Below) \union {Top}
  BY FrontLast DEF TypeOK, Exploring, Below, Top

(* How a decoding pass changes the map, spelled out once.                   *)
LEMMA DecodeMap ==
  ASSUME TypeOK, Decode
  PROVE  /\ Exploring /\ Top \in Region /\ image[Top].kind # "illegal"
         /\ Top \notin Decoded
         /\ Decoded' = Decoded \union {Top}
         /\ opcodeMap'[Top] = image[Top]
         /\ \A a \in Decoded : opcodeMap'[a] = opcodeMap[a]
         /\ allocated' = allocated \union Extent(Top, image[Top])
         /\ Range(codePaths)' = Range(Below) \union Successors(Top)
         /\ UNCHANGED <<image, phase, starts, rejected>>
  <1>1. /\ Exploring /\ Top \in Region /\ image[Top].kind # "illegal"
        /\ Top \notin Decoded
        /\ opcodeMap' = [a \in Decoded \union {Top} |->
                            IF a = Top THEN image[Top] ELSE opcodeMap[a]]
        /\ allocated' = allocated \union Extent(Top, image[Top])
        /\ codePaths' = Below \o Pushed(Top, image[Top])
        /\ UNCHANGED <<image, phase, starts, rejected>>
    BY DEF Decode, Fresh, Readable, Marked, history
  <1>2. Range(codePaths') = Range(Below) \union Successors(Top)
    BY <1>1, DecodeStack
  <1>3. Range(codePaths)' = Range(codePaths')
    OBVIOUS
  <1>4. Decoded' = Decoded \union {Top}
    BY <1>1 DEF Decoded
  <1>5. QED
    BY <1>1, <1>2, <1>3, <1>4 DEF Decoded

(* A pass that rejects or skips the address only moves it off the stack.    *)
LEMMA SkipOrReject ==
  ASSUME TypeOK, SkipDecoded \/ RejectOccupied \/ RejectIllegal
  PROVE  /\ Range(codePaths) = Range(codePaths)' \union {Top}
         /\ UNCHANGED <<image, opcodeMap, allocated, starts>>
         /\ Top \in Decoded \/ rejected' = rejected \union {Top}
         /\ rejected \subseteq rejected'
  <1>1. Exploring
    BY DEF SkipDecoded, RejectOccupied, RejectIllegal, Fresh
  <1>2. codePaths' = Below /\ UNCHANGED <<image, opcodeMap, allocated, starts>>
    BY DEF SkipDecoded, RejectOccupied, RejectIllegal, history
  <1>3. Range(codePaths) = Range(codePaths)' \union {Top}
    BY <1>1, <1>2, Pop
  <1>4. Top \in Decoded \/ rejected' = rejected \union {Top}
    BY DEF SkipDecoded, RejectOccupied, RejectIllegal
  <1>5. rejected \subseteq rejected'
    BY DEF SkipDecoded, RejectOccupied, RejectIllegal, history
  <1>6. QED
    BY <1>2, <1>3, <1>4, <1>5

-----------------------------------------------------------------------------
(* The allocation map and the instruction map.                              *)
MapInv == AllocationExact /\ LookUpFaithful

LEMMA MapStep == TypeOK /\ MapInv /\ [Next]_vars => MapInv'
  <1> SUFFICES ASSUME TypeOK, MapInv, [Next]_vars
               PROVE  MapInv'
    OBVIOUS
  <1> USE DEF MapInv, AllocationExact, LookUpFaithful
  <1>1. ASSUME NEW paths \in InitialPaths, Build(paths)
        PROVE  MapInv'
    BY <1>1 DEF Build, Empty, Decoded
  <1>2. ASSUME UNCHANGED <<image, opcodeMap, allocated>>
        PROVE  MapInv'
    BY <1>2 DEF Decoded
  <1>3. CASE Decode
    <2>1. LookUpFaithful'
      BY <1>3, DecodeMap
    <2>2. AllocationExact'
      <3> DEFINE before == {Extent(a, opcodeMap[a]) : a \in Decoded}
                 after == {Extent(a, opcodeMap'[a]) : a \in Decoded'}
      <3>1. after = before \union {Extent(Top, image[Top])}
        BY <1>3, DecodeMap
      <3>2. UNION after = (UNION before) \union Extent(Top, image[Top])
        BY <3>1
      <3>3. allocated' = UNION after
        BY <1>3, <3>2, DecodeMap
      <3>4. QED
        BY <3>3 DEF Extent
    <2>3. QED
      BY <2>1, <2>2
  <1>4. CASE Discard
    BY <1>4 DEF Discard, Empty, Decoded
  <1>5. QED
    BY <1>1, <1>2, <1>3, <1>4
    DEF Next, Decompile, Explore, Finish, SkipDecoded, RejectOccupied,
        FatalRead, RejectIllegal, vars, memory

LEMMA MapInvariant == Spec => []MapInv
  <1>1. Init => MapInv
    BY DEF Init, Empty, Decoded, MapInv, AllocationExact, LookUpFaithful
  <1>2. QED
    BY <1>1, MapStep, TypeCorrect, PTL DEF Spec

(* The bytes marked as allocated are those of the decoded instructions, so  *)
(* the search for the owner of an occupied address always finds one.        *)
THEOREM AllocationIsExact == Spec => []AllocationExact
  BY MapInvariant, PTL DEF MapInv

(* LookUp returns what the region holds, as long as nobody rewrites it.     *)
THEOREM LookUpIsFaithful == Spec => []LookUpFaithful
  BY MapInvariant, PTL DEF MapInv

-----------------------------------------------------------------------------
(* The successors Decompile takes are those of the CPU, but for the return  *)
(* of an RST.                                                               *)
Direct == Flow(Calling \ {"rst"})

LEMMA SuccessorsInFlow ==
  ASSUME image \in Images, NEW a \in Region
  PROVE  /\ Successors(a) \subseteq Direct[a]
         /\ Direct[a] \intersect Region \subseteq Successors(a)
  <1> DEFINE i == image[a]
             next == Wrap(a + i.width)
             target == CpuTargets(a, i)
             resumed == Calling \ {"rst"}
             goes == i.kind \in Straight \union Conditional \union resumed
  <1>1. i \in Instruction /\ i.kind \in InstructionKind
    BY ImageTyped DEF Instruction
  <1>2. Direct[a] = target \union {b \in {next} : goes}
    BY DEF Direct, Flow
  <1>3. goes <=> GoesOn(i)
    BY DEF GoesOn, Calling, Conditional, Straight
  <1>4. target = IF HasStaticTarget(i) THEN {StaticTarget(a, i)} ELSE {}
    BY DEF CpuTargets, HasStaticTarget, StaticTarget, Relative, Absolute
  <1>5. i.kind = "illegal" => target = {} /\ ~goes
    BY <1>4 DEF HasStaticTarget, Calling, Conditional, Straight, Relative, Absolute
  <1>6. i.kind # "illegal" =>
          Successors(a) = {b \in target : b \in Region} \union
                          {b \in {next} : goes /\ b <= RomMax}
    <2>1. SUFFICES ASSUME i.kind # "illegal"
                   PROVE  Successors(a) = {b \in target : b \in Region} \union
                                          {b \in {next} : goes /\ b <= RomMax}
      OBVIOUS
    <2>2. TargetPath(a, i) \in Seq(Address) /\ NextPath(a, i) \in Seq(Address)
      BY <1>1, PathsTyped
    <2>3. Successors(a) = Range(TargetPath(a, i)) \union Range(NextPath(a, i))
      BY <2>1, <2>2, RangeConcat DEF Successors
    <2>4. Range(TargetPath(a, i)) = {b \in target : b \in Region}
      BY <1>4 DEF TargetPath, Range
    <2>5. Range(NextPath(a, i)) = {b \in {next} : goes /\ b <= RomMax}
      BY <1>3 DEF NextPath, Range
    <2>6. QED
      BY <2>3, <2>4, <2>5
  <1>7. Successors(a) \subseteq Direct[a]
    BY <1>2, <1>6 DEF Successors
  <1>8. \A b \in Region : b <= RomMax
    BY RegionAssumption, AddressSpaceAssumption DEF Region, Address
  <1>9. Direct[a] \intersect Region \subseteq Successors(a)
    BY <1>2, <1>5, <1>6, <1>8
  <1>10. QED
    BY <1>7, <1>9

LEMMA FlowTyped ==
  ASSUME image \in Images, NEW a \in Region
  PROVE  Direct[a] \subseteq Address
  <1>1. image[a] \in Instruction
    BY ImageTyped
  <1>2. /\ a + image[a].width \in Int
        /\ image[a].arg \in Int
        /\ a + image[a].width + image[a].arg \in Int
    BY <1>1, RegionAssumption, AddressSpaceAssumption DEF Region, Instruction, Address
  <1>3. /\ Wrap(a + image[a].width) \in Address
        /\ Wrap(image[a].arg) \in Address
        /\ Wrap(a + image[a].width + image[a].arg) \in Address
    BY <1>2, WrapTyped
  <1>4. CpuTargets(a, image[a]) \subseteq Address
    BY <1>3 DEF CpuTargets
  <1>5. QED
    BY <1>3, <1>4 DEF Direct, Flow

(* What the flow without the returns of RSTs reaches, the CPU executes.     *)
LEMMA DirectExecutes ==
  ASSUME NEW a, Reaches(Direct, a)
  PROVE  Executes(a)
  <1>1. \A s \in Region : Direct[s] \subseteq Flow(Calling)[s]
    BY DEF Direct, Flow
  <1>2. QED
    BY <1>1 DEF Executes, Reaches

-----------------------------------------------------------------------------
(* Nothing is ever decoded or waiting to be that the CPU does not come to.  *)
Traced == \A a \in Decoded \union Range(codePaths) : Reaches(Direct, a)

LEMMA ReachesStep ==
  ASSUME image \in Images, NEW a \in Region, Reaches(Direct, a)
  PROVE  \A b \in Successors(a) : Reaches(Direct, b)
  BY SuccessorsInFlow DEF Reaches

(* More starts reach more.                                                  *)
LEMMA ReachesMonotone ==
  ASSUME image' = image, starts \subseteq starts', NEW a, Reaches(Direct, a)
  PROVE  Reaches(Direct, a)'
  <1>1. Direct' = Direct
    BY DEF Direct, Flow
  <1>2. QED
    BY <1>1 DEF Reaches

LEMMA TracedStep == TypeOK /\ Traced /\ [Next]_vars => Traced'
  <1> SUFFICES ASSUME TypeOK, Traced, [Next]_vars
               PROVE  Traced'
    OBVIOUS
  <1> DEFINE Tracked == Decoded \union Range(codePaths)
  <1>1. ASSUME image' = image, starts \subseteq starts',
               Tracked' \subseteq Tracked \union starts'
        PROVE  Traced'
    <2>1. ASSUME NEW a \in Tracked'
          PROVE  Reaches(Direct, a)'
      <3>1. CASE a \in Tracked
        BY <1>1, <3>1, ReachesMonotone DEF Traced
      <3>2. CASE a \in starts'
        BY <3>2 DEF Reaches
      <3>3. QED
        BY <1>1, <2>1, <3>1, <3>2
    <2>2. QED
      BY <2>1 DEF Traced
  <1>2. ASSUME NEW paths \in InitialPaths, Build(paths)
        PROVE  Traced'
    <2>1. Tracked' \subseteq starts'
      BY <1>2 DEF Build, Empty, Decoded
    <2>2. \A a \in starts' : Reaches(Direct, a)'
      BY DEF Reaches
    <2>3. QED
      BY <2>1, <2>2 DEF Traced
  <1>3. ASSUME NEW a \in Unexplored, Explore(a)
        PROVE  Traced'
    <2>1. Range(codePaths)' = Range(codePaths) \union {a}
      BY <1>3, RangeAppend, PathsAssumption DEF Explore, TypeOK
    <2>2. QED
      BY <1>1, <1>3, <2>1 DEF Explore, Decoded
  <1>4. CASE SkipDecoded \/ RejectOccupied \/ RejectIllegal
    BY <1>1, <1>4, SkipOrReject DEF Decoded
  <1>5. CASE Decode
    <2>1. Reaches(Direct, Top)
      BY <1>5, DecodeMap, Pop DEF Traced
    <2>2. \A b \in Successors(Top) : Reaches(Direct, b)
      BY <1>5, <2>1, ReachesStep, DecodeMap DEF TypeOK
    <2>3. Range(Below) \subseteq Range(codePaths)
      BY <1>5, DecodeMap, Pop
    <2>4. \A a \in Tracked' : Reaches(Direct, a)
      BY <1>5, <2>1, <2>2, <2>3, DecodeMap DEF Traced
    <2>5. image' = image /\ starts' = starts
      BY <1>5, DecodeMap
    <2>6. QED
      BY <2>4, <2>5, ReachesMonotone DEF Traced
  <1>6. CASE Finish \/ FatalRead \/ UNCHANGED vars
    BY <1>1, <1>6 DEF Finish, FatalRead, vars, memory, history, Decoded
  <1>7. CASE Discard
    BY <1>7 DEF Discard, Empty, Decoded, Traced, Range
  <1>8. QED
    BY <1>2, <1>3, <1>4, <1>5, <1>6, <1>7 DEF Next, Decompile

LEMMA AlwaysTraced == Spec => []Traced
  <1>1. Init => Traced
    BY DEF Init, Traced, Empty, Decoded, Range
  <1>2. QED
    BY <1>1, TracedStep, TypeCorrect, PTL DEF Spec

(* Only code that the CPU can come to without a computed jump is decoded.   *)
THEOREM DecompilerSound == Spec => []Sound
  <1>1. Traced => Sound
    BY DirectExecutes DEF Traced, Sound
  <1>2. QED
    BY <1>1, AlwaysTraced, PTL

-----------------------------------------------------------------------------
(* No path is lost between one call of Decompile and the next.              *)
LEMMA ForgetStep == TypeOK /\ NothingForgotten /\ [Next]_vars => NothingForgotten'
  <1> SUFFICES ASSUME TypeOK, NothingForgotten, [Next]_vars
               PROVE  NothingForgotten'
    OBVIOUS
  <1> USE DEF NothingForgotten
  <1>1. ASSUME image' = image
        PROVE  \A a : Successors(a)' = Successors(a)
    BY <1>1 DEF Successors
  <1>2. ASSUME NEW paths \in InitialPaths, Build(paths)
        PROVE  NothingForgotten'
    BY <1>2 DEF Build, Empty, Decoded
  <1>3. ASSUME NEW a \in Unexplored, Explore(a)
        PROVE  NothingForgotten'
    <2>1. Range(codePaths)' = Range(codePaths) \union {a}
      BY <1>3, RangeAppend, PathsAssumption DEF Explore, TypeOK
    <2>2. QED
      BY <1>1, <1>3, <2>1 DEF Explore, Decoded
  <1>4. CASE SkipDecoded \/ RejectOccupied \/ RejectIllegal
    BY <1>1, <1>4, SkipOrReject DEF Decoded
  <1>5. CASE Decode
    <2>1. \A a : Successors(a)' = Successors(a)
      BY <1>1, <1>5, DecodeMap
    <2>2. UNION {Successors(a) : a \in Decoded'}
            = (UNION {Successors(a) : a \in Decoded}) \union Successors(Top)
      BY <1>5, DecodeMap
    <2>3. UNION {Successors(a)' : a \in Decoded'}
            = UNION {Successors(a) : a \in Decoded'}
      BY <2>1
    <2>4. Range(codePaths) = Range(Below) \union {Top}
      BY <1>5, DecodeMap, Pop
    <2>5. QED
      BY <1>5, <2>2, <2>3, <2>4, DecodeMap
  <1>6. CASE Finish \/ FatalRead \/ UNCHANGED vars
    BY <1>1, <1>6 DEF Finish, FatalRead, vars, memory, history, Decoded
  <1>7. CASE Discard
    BY <1>7 DEF Discard, Empty, Decoded, Sound, Range
  <1>8. QED
    BY <1>2, <1>3, <1>4, <1>5, <1>6, <1>7 DEF Next, Decompile

(* Every given path and every successor of decoded code is decoded, still   *)
(* on the stack, or was rejected: giving up and restarting forgets nothing. *)
THEOREM DecompilerForgetsNothing == Spec => []NothingForgotten
  <1>1. Init => NothingForgotten
    BY DEF Init, NothingForgotten, Empty, Decoded
  <1>2. QED
    BY <1>1, ForgetStep, TypeCorrect, PTL DEF Spec

(* An emptied stack with no rejection: what is decoded is closed under the  *)
(* flow without the returns of RSTs.                                        *)
Finished == phase = "idle" /\ codePaths = <<>> /\ rejected = {}

DecodedOrOutside == Decoded \union (Address \ Region)

LEMMA DecodedClosed ==
  ASSUME TypeOK, NothingForgotten, Finished
  PROVE  /\ starts \subseteq Decoded
         /\ DecodedOrOutside \in SUBSET Address
         /\ DecodedOrOutside \intersect Region \subseteq Decoded
         /\ \A d \in Decoded : Direct[d] \subseteq DecodedOrOutside
  <1> USE DEF Finished, DecodedOrOutside
  <1>1. starts \subseteq Decoded /\ \A d \in Decoded : Successors(d) \subseteq Decoded
    BY DEF NothingForgotten, Range
  <1>2. DecodedOrOutside \in SUBSET Address /\ Decoded \subseteq Region
    BY RegionInAddress DEF TypeOK
  <1>3. ASSUME NEW d \in Decoded
        PROVE  Direct[d] \subseteq DecodedOrOutside
    <2>1. d \in Region
      BY <1>2, <1>3
    <2>2. Direct[d] \intersect Region \subseteq Decoded
      BY <1>1, <1>3, <2>1, SuccessorsInFlow DEF TypeOK
    <2>3. Direct[d] \subseteq Address
      BY <2>1, FlowTyped DEF TypeOK
    <2>4. QED
      BY <2>2, <2>3
  <1>4. QED
    BY <1>1, <1>2, <1>3

(* So what the CPU can execute in the region is decoded, all of it but what *)
(* lies behind an RST.                                                      *)
LEMMA TracedAndWhole == TypeOK /\ Traced /\ NothingForgotten => Complete
  <1> SUFFICES ASSUME TypeOK, Traced, NothingForgotten, Finished, NEW a \in Region
               PROVE  a \in Decoded <=> Executes(a) /\ ~OnlyBehindRst(a)
    BY DEF Complete, Finished
  <1>1. Reaches(Direct, a) => a \in DecodedOrOutside
    BY DecodedClosed DEF Reaches, DecodedOrOutside
  <1>2. a \in Decoded <=> Reaches(Direct, a)
    BY <1>1 DEF Traced, DecodedOrOutside
  <1>3. Reaches(Direct, a) <=> Executes(a) /\ ~OnlyBehindRst(a)
    BY DirectExecutes DEF OnlyBehindRst, Direct
  <1>4. QED
    BY <1>2, <1>3

THEOREM DecompilerComplete == Spec => []Complete
  BY TypeCorrect, AlwaysTraced, DecompilerForgetsNothing, TracedAndWhole, PTL

(* The gap is due to RST alone: where the code found holds none, nothing    *)
(* that the CPU can execute in the region is missing.                       *)
NoRstNoGap ==
  Finished /\ (\A d \in Decoded : image[d].kind # "rst")
    => \A a \in Region : Executes(a) => a \in Decoded

THEOREM DecompilerWholeWithoutRst == Spec => []NoRstNoGap
  <1>1. TypeOK /\ NothingForgotten => NoRstNoGap
    <2> SUFFICES ASSUME TypeOK, NothingForgotten, Finished,
                        \A d \in Decoded : image[d].kind # "rst",
                        NEW a \in Region, Executes(a)
                 PROVE  a \in Decoded
      BY DEF NoRstNoGap
    <2>1. \A d \in Decoded : d \in Region
      BY DEF TypeOK
    <2>2. \A d \in Decoded : Flow(Calling)[d] = Direct[d]
      BY <2>1 DEF Direct, Flow
    <2>3. \A s \in DecodedOrOutside \intersect Region :
            Flow(Calling)[s] \subseteq DecodedOrOutside
      BY <2>2, DecodedClosed
    <2>4. a \in DecodedOrOutside
      BY <2>3, DecodedClosed DEF Executes, Reaches, DecodedOrOutside
    <2>5. QED
      BY <2>4, DecodedClosed
  <1>2. QED
    BY <1>1, TypeCorrect, DecompilerForgetsNothing, PTL
=============================================================================
