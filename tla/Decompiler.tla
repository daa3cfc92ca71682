----------------------------- MODULE Decompiler -----------------------------
(***************************************************************************)
(* The restartable static decompiler (cc/backend/decompiler/decompiler.cc): *)
(* a depth-first search over the code of one memory region, from the        *)
(* addresses it is given.  Decompile is called synchronously; each pass of  *)
(* its loop is one action here.  A pass that fails returns from Decompile   *)
(* with the paths not yet explored left on the stack, and a later call      *)
(* takes them up again.                                                     *)
(***************************************************************************)
EXTENDS Instructions, SequencesExt

CONSTANTS
  RomMin, RomMax,   \* the inclusive bounds of the ROMBridge
  Images,           \* what ROMReader::Read can yield at each address
  InitialPaths,     \* the paths a DecompilerFactory may start with
  Unexplored        \* addresses execution may later pass to AddPathStart

ASSUME RegionAssumption ==
  /\ RomMin \in Address
  /\ RomMax \in Address
  /\ RomMin <= RomMax

ASSUME ImagesAssumption == Images \subseteq [RomMin .. RomMax -> Instruction]

ASSUME PathsAssumption ==
  /\ InitialPaths \subseteq Seq(Address)
  /\ Unexplored \subseteq Address

VARIABLES
  image,       \* the instruction that starts at each address of the region
  opcodeMap,   \* address_opcode_map_
  allocated,   \* the keys of allocation_map_
  codePaths,   \* code_paths_, its top last
  phase,       \* "none": not built; "idle"; "running": in Decompile; "fatal"
  starts,      \* history: every address passed to AddPathStart
  rejected     \* history: addresses at which a pass failed

memory == <<opcodeMap, allocated, codePaths>>
history == <<starts, rejected>>
vars == <<image, memory, phase, history>>

Region == RomMin .. RomMax

Decoded == DOMAIN opcodeMap

Empty == [a \in {} |-> 0]

Top == Last(codePaths)

Below == Front(codePaths)

(* The bytes an instruction occupies.                                       *)
Extent(a, i) == a .. a + i.width - 1

(* What a pass pushes: the target if it lies in the region, then the next   *)
(* instruction, which is thus explored first.                               *)
TargetPath(a, i) ==
  IF HasStaticTarget(i) /\ StaticTarget(a, i) \in Region
    THEN <<StaticTarget(a, i)>> ELSE <<>>

NextPath(a, i) ==
  IF GoesOn(i) /\ Wrap(a + i.width) <= RomMax THEN <<Wrap(a + i.width)>> ELSE <<>>

(* Mutants: the address after is always pushed; the target is not.          *)
Pushed_Always(a, i) ==
  TargetPath(a, i)
    \o (IF Wrap(a + i.width) <= RomMax THEN <<Wrap(a + i.width)>> ELSE <<>>)

Pushed_NoTarget(a, i) == NextPath(a, i)

Pushed(a, i) == TargetPath(a, i) \o NextPath(a, i)

(* Mutant: only the opcode's byte is marked.                                *)
Marked_Opcode(a, i) == allocated \union {a}

Marked(a, i) == allocated \union Extent(a, i)

-----------------------------------------------------------------------------
Init ==
  /\ image \in Images
  /\ opcodeMap = Empty
  /\ allocated = {}
  /\ codePaths = <<>>
  /\ phase = "none"
  /\ starts = {}
  /\ rejected = {}

(* DecompilerFactory::Build replaces the decompiler by a new one, gives it  *)
(* its first paths and Decompile is called.                                 *)
Build(paths) ==
  /\ phase \in {"none", "idle"}
  /\ phase' = "running"
  /\ opcodeMap' = Empty
  /\ allocated' = {}
  /\ codePaths' = paths
  /\ starts' = Range(paths)
  /\ rejected' = {}
  /\ UNCHANGED image

(* The owner drops the decompiler and what it decoded.                      *)
Discard ==
  /\ phase = "idle"
  /\ phase' = "none"
  /\ opcodeMap' = Empty
  /\ allocated' = {}
  /\ codePaths' = <<>>
  /\ starts' = {}
  /\ rejected' = {}
  /\ UNCHANGED image

(* AddPathStart and Decompile, for an address met while executing.          *)
Explore(a) ==
  /\ phase = "idle"
  /\ phase' = "running"
  /\ codePaths' = Append(codePaths, a)
  /\ starts' = starts \union {a}
  /\ UNCHANGED <<image, opcodeMap, allocated, rejected>>

(* The stack is empty: decompilation is complete.                           *)
Finish ==
  /\ phase = "running"
  /\ codePaths = <<>>
  /\ phase' = "idle"
  /\ UNCHANGED <<image, memory, history>>

(* A pass of the loop pops the address on top of the stack.                 *)
Exploring ==
  /\ phase = "running"
  /\ codePaths # <<>>

(* Mutant: looks at the top of the stack without popping it.                *)
SkipDecoded_Kept ==
  /\ Exploring
  /\ Top \in Decoded
  /\ UNCHANGED vars

SkipDecoded ==
  /\ Exploring
  /\ Top \in Decoded
  /\ codePaths' = Below
  /\ UNCHANGED <<image, opcodeMap, allocated, phase, history>>

(* Another instruction, decoded before, occupies the address.               *)
RejectOccupied ==
  /\ Exploring
  /\ Top \in allocated \ Decoded
  /\ codePaths' = Below
  /\ phase' = "idle"
  /\ rejected' = rejected \union {Top}
  /\ UNCHANGED <<image, opcodeMap, allocated, starts>>

Fresh ==
  /\ Exploring
  /\ Top \notin allocated \union Decoded

(* ROMReader's LOG(FATAL): the address lies outside the region, or the      *)
(* instruction's last byte does.                                            *)
Readable(a) ==
  a \in Region /\ (image[a].kind = "illegal" \/ a + image[a].width - 1 <= RomMax)

FatalRead ==
  /\ Fresh
  /\ ~Readable(Top)
  /\ phase' = "fatal"
  /\ UNCHANGED <<image, memory, history>>

(* ROMReader: the instruction map has no such opcode.                       *)
(* Mutant: a failure gives up every path.                                   *)
RejectIllegal_Cleared ==
  /\ Fresh
  /\ Readable(Top)
  /\ image[Top].kind = "illegal"
  /\ codePaths' = <<>>
  /\ phase' = "idle"
  /\ rejected' = rejected \union {Top}
  /\ UNCHANGED <<image, opcodeMap, allocated, starts>>

RejectIllegal ==
  /\ Fresh
  /\ Readable(Top)
  /\ image[Top].kind = "illegal"
  /\ codePaths' = Below
  /\ phase' = "idle"
  /\ rejected' = rejected \union {Top}
  /\ UNCHANGED <<image, opcodeMap, allocated, starts>>

Decode ==
  /\ Fresh
  /\ Readable(Top)
  /\ LET i == image[Top]
     IN  /\ i.kind # "illegal"
         /\ opcodeMap' = [a \in Decoded \union {Top} |->
                            IF a = Top THEN i ELSE opcodeMap[a]]
         /\ allocated' = Marked(Top, i)
         /\ codePaths' = Below \o Pushed(Top, i)
  /\ UNCHANGED <<image, phase, history>>

Decompile ==
  Finish \/ SkipDecoded \/ RejectOccupied \/ FatalRead \/ RejectIllegal \/ Decode

Next ==
  \/ \E paths \in InitialPaths : Build(paths)
  \/ \E a \in Unexplored : Explore(a)
  \/ Discard
  \/ Decompile

(* Decompile is an ordinary call: once entered it runs on.                  *)
Spec == Init /\ [][Next]_vars /\ WF_vars(Decompile)

-----------------------------------------------------------------------------
TypeOK ==
  /\ image \in Images
  /\ Decoded \subseteq Region
  /\ \A a \in Decoded : opcodeMap[a] \in Instruction
  /\ allocated \subseteq Region
  /\ codePaths \in Seq(Address)
  /\ phase \in {"none", "idle", "running", "fatal"}
  /\ starts \subseteq Address
  /\ rejected \subseteq Address

(* The bytes marked as allocated are exactly those of the instructions      *)
(* decoded, so the backward search for the owner of an occupied address     *)
(* (decompiler.cc:178-181) always finds one.                                *)
AllocationExact ==
  allocated = UNION {Extent(a, opcodeMap[a]) : a \in Decoded}

(* LookUp answers with the instruction that memory holds at the address.    *)
LookUpFaithful == \A a \in Decoded : opcodeMap[a] = image[a]

(* The reference: where the CPU itself goes, read off its handlers and not  *)
(* off the decompiler.  From i at a control passes to the target, if i says *)
(* where that is; to the address after i, if i is no jump or a condition    *)
(* fails; and, when a call returns, to the address after it.  resuming: the *)
(* calls whose return is counted.                                           *)
CpuTargets(a, i) ==
  CASE i.kind \in Relative -> {Wrap(a + i.width + i.arg)}
    [] i.kind \in Absolute -> {Wrap(i.arg)}
    [] OTHER -> {}

Flow(resuming) ==
  [a \in Region |->
     LET i == image[a]
     IN  CpuTargets(a, i) \union
         {next \in {Wrap(a + i.width)} :
            i.kind \in Straight \union Conditional \union resuming}]

(* a lies in every set that holds the given paths and that flow stays in.   *)
Reaches(flow, a) ==
  \A S \in SUBSET Address :
    starts \subseteq S /\ (\A s \in S \intersect Region : flow[s] \subseteq S) => a \in S

(* The CPU may come to a without a computed jump.                           *)
Executes(a) == Reaches(Flow(Calling), a)

(* It comes there only if the subroutine of an RST returns.                 *)
OnlyBehindRst(a) == Executes(a) /\ ~Reaches(Flow(Calling \ {"rst"}), a)

(* Nothing is decoded, or waiting to be, that the CPU cannot come to from   *)
(* the given paths: data between the code is not taken for instructions.    *)
Sound == \A a \in Decoded \union Range(codePaths) : Executes(a)

(* What Decompile itself takes for the successors of an instruction.        *)
Successors(a) ==
  IF a \in Region /\ image[a].kind # "illegal"
    THEN Range(TargetPath(a, image[a]) \o NextPath(a, image[a])) ELSE {}

(* No path is forgotten, however often Decompile gives up and is called     *)
(* again: every given path and every successor of a decoded instruction is  *)
(* decoded, still on the stack, or was rejected.                            *)
NothingForgotten ==
  starts \union UNION {Successors(a) : a \in Decoded}
    \subseteq Decoded \union Range(codePaths) \union rejected

(* When Decompile has emptied its stack without ever giving up, "complete"  *)
(* (decompiler.cc:150), it has decoded what the CPU can execute in the      *)
(* region, with one gap: the code that only the return of an RST leads to   *)
(* is left out, as IsJumpConditionalOrCall does not take RST for a call.    *)
Complete ==
  phase = "idle" /\ codePaths = <<>> /\ rejected = {}
    => \A a \in Region : a \in Decoded <=> Executes(a) /\ ~OnlyBehindRst(a)

(* The search ends on every program, loops in the code included.            *)
DecompileReturns == (phase = "running") ~> (phase # "running")

=============================================================================
