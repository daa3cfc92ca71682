--------------------------- MODULE OpcodeExecutor ---------------------------
(***************************************************************************)
(* OpcodeExecutor::ReadInstruction and the Tick that follows it, on the    *)
(* emulation thread, against a user-interface thread that presses and      *)
(* releases keys (cc/backend/opcode_executor, cc/backend/memory/interrupt, *)
(* cc/backend/memory/joypad).                                              *)
(*                                                                         *)
(* Both threads set bits of the interrupt flag, a plain byte, by reading   *)
(* it and writing it back, with no lock: the read and the write are two    *)
(* steps here and either thread may move between them.  A byte is the set  *)
(* of its bits; bit k of IF and of IE stands for interrupt k, and lower    *)
(* bits have priority.                                                     *)
(*                                                                         *)
(* The opcode parser is abstracted to what the executor sees of it: an     *)
(* instruction is found where the program has code in the region of the    *)
(* current mode, and the mode follows the parser's idea of the target.     *)
(***************************************************************************)
EXTENDS Instructions, FiniteSets

CONSTANTS
  Bits,          \* 0 .. 7
  Interrupts,    \* the number of interrupts, 5; the last one is the joypad's
  High(_), Low(_), Word(_, _),   \* the bytes of an address, and back
  Vector(_),     \* the address interrupt k is dispatched to
  RomLast,       \* 0x7fff: the last address of ROM
  Ram,           \* addresses that keep what is written
  IFAddress, IEAddress,
  HighRamFirst,  \* 0xff80: from here on a jump starts a DMA routine
  RomByte(_),    \* what a read of any other address yields
  Programs,      \* what the code region may hold
  HLValues,      \* what HL may hold at a JP (HL)
  StoreValues    \* what A may hold at a store

Byte == SUBSET Bits
Kinds == 0 .. Interrupts - 1
Joypad == Interrupts - 1

ASSUME BytesAssumption ==
  /\ \A a \in Address : High(a) \in Byte /\ Low(a) \in Byte
  /\ \A h, l \in Byte : Word(h, l) \in Address
  /\ \A a \in Address : Word(High(a), Low(a)) = a
  /\ \A a \in Address : RomByte(a) \in Byte

ASSUME InterruptsAssumption ==
  /\ Interrupts \in Nat \ {0}
  /\ Kinds \subseteq Bits
  /\ \A k \in Kinds : Vector(k) \in Address

ASSUME MemoryAssumption ==
  /\ Ram \subseteq Address
  /\ IFAddress \in Address \ Ram
  /\ IEAddress \in Address \ Ram
  /\ IFAddress # IEAddress

ASSUME ProgramsAssumption ==
  /\ \A p \in Programs : \A a \in DOMAIN p :
        a \in Address /\ p[a] \in Instruction /\ p[a].kind # "illegal"
  /\ HLValues \subseteq Address
  /\ StoreValues \subseteq Byte

VARIABLES
  program,
  pc, sp,      \* rPC and rSP; rSP is indeterminate at first
  ram,         \* the bytes of Ram
  iflag,       \* InterruptFlag::value_
  ienable,     \* InterruptEnable::value_
  ime,         \* interrupt_master_enable_
  halted,      \* halted_
  dma,         \* OpcodeParser::is_dma_running_
  step,        \* where the emulation thread stands
  kind,        \* the interrupt it is looking at
  latch,       \* IF as it read it, to be written back
  key,         \* whether the UI thread is inside set_joypad
  keyLatch,    \* IF as the UI thread read it
  owed,        \* history: IF, had every set_value_bit been atomic
  raced,       \* history: two set_value_bits have overlapped
  frames       \* history: return addresses pushed to Ram and still there

cpu == <<pc, sp, ime, halted, dma>>
mem == <<ram, ienable>>
ui == <<key, keyLatch>>
history == <<owed, raced, frames>>
vars == <<program, cpu, mem, iflag, step, kind, latch, ui, history>>

-----------------------------------------------------------------------------
(* Memory as the CPU sees it.                                               *)
Read(a) ==
  CASE a \in Ram -> ram[a]
    [] a = IFAddress -> iflag
    [] a = IEAddress -> ienable
    [] OTHER -> RomByte(a)

(* Mutant: the bytes in the wrong order.                                    *)
Poll_Swapped(a) == Word(Read(Wrap(a + 1)), Read(a))

Poll(a) == Word(Read(a), Read(Wrap(a + 1)))

(* The frames that survive a write to the addresses of written.             *)
Surviving(written) ==
  {f \in frames : f.at \notin written /\ Wrap(f.at + 1) \notin written}

(* A store by the program, to one address.  Storing to IF is one plain      *)
(* write: it races with a key press that has read IF.                       *)
Write(a, v) ==
  /\ ram' = IF a \in Ram THEN [ram EXCEPT ![a] = v] ELSE ram
  /\ iflag' = IF a = IFAddress THEN v ELSE iflag
  /\ owed' = IF a = IFAddress THEN v ELSE owed
  /\ raced' = (raced \/ (a = IFAddress /\ key = "writing"))
  /\ ienable' = IF a = IEAddress THEN v ELSE ienable
  /\ frames' = Surviving({a})

(* PushRegister: the low byte at SP - 1, then the high byte at SP - 2.  At  *)
(* most one of the two addresses is IF.                                     *)
Push(w) ==
  LET lo == Wrap(sp - 1)
      hi == Wrap(sp - 2)
  IN  /\ sp' = hi
      /\ ram' = [a \in Ram |-> IF a = hi THEN High(w)
                               ELSE IF a = lo THEN Low(w) ELSE ram[a]]
      /\ iflag' = IF hi = IFAddress THEN High(w)
                  ELSE IF lo = IFAddress THEN Low(w) ELSE iflag
      /\ owed' = IF IFAddress \in {lo, hi} THEN iflag' ELSE owed
      /\ raced' = (raced \/ (IFAddress \in {lo, hi} /\ key = "writing"))
      /\ ienable' = IF hi = IEAddress THEN High(w)
                    ELSE IF lo = IEAddress THEN Low(w) ELSE ienable
      /\ frames' = Surviving({lo, hi}) \union
                   (IF {lo, hi} \subseteq Ram THEN {[at |-> hi, ret |-> w]} ELSE {})

MemoryUnchanged == UNCHANGED <<mem, iflag, owed, raced, frames>>

-----------------------------------------------------------------------------
Init ==
  /\ program \in Programs
  /\ pc = 0
  /\ sp \in Address
  /\ ram = [a \in Ram |-> {}]
  /\ iflag = {}
  /\ ienable = {}
  /\ ime = FALSE
  /\ halted = FALSE
  /\ dma = FALSE
  /\ step = "check"
  /\ kind = 0
  /\ latch = {}
  /\ key = "idle"
  /\ keyLatch = {}
  /\ owed = {}
  /\ raced = FALSE
  /\ frames = {}

(* HandleInterrupts, its guard: CheckInterrupts reads IF anew for every     *)
(* interrupt, in order of priority, and stops at the first one due.         *)
Due(k) == k \in iflag \intersect ienable

CheckSkipped ==
  /\ step = "check"
  /\ ~ime
  /\ step' = "run"
  /\ UNCHANGED <<program, cpu, mem, iflag, kind, latch, ui, history>>

CheckNotDue ==
  /\ step = "check"
  /\ ime
  /\ ~Due(kind)
  /\ IF kind = Joypad THEN kind' = 0 /\ step' = "run"
                      ELSE kind' = kind + 1 /\ step' = "check"
  /\ UNCHANGED <<program, cpu, mem, iflag, latch, ui, history>>

(* While a DMA routine runs in high RAM interrupts are left pending.        *)
CheckDue ==
  /\ step = "check"
  /\ ime
  /\ Due(kind)
  /\ kind' = 0
  /\ step' = IF dma THEN "run" ELSE "enter"
  /\ UNCHANGED <<program, cpu, mem, iflag, latch, ui, history>>

(* IME is cleared, a HALT ends, and PC is pushed: onto IE or IF, if that is *)
(* where SP points.                                                         *)
Enter ==
  /\ step = "enter"
  /\ ime' = FALSE
  /\ halted' = FALSE
  /\ Push(pc)
  /\ step' = "select"
  /\ UNCHANGED <<program, pc, dma, kind, latch, ui>>

(* Then IF and IE are read again to find out which interrupt it is.         *)
(* Mutant: may pass over a due interrupt.                                   *)
SelectNotDue_Skips ==
  /\ step = "select"
  /\ IF kind = Joypad THEN kind' = 0 /\ step' = "run"
                      ELSE kind' = kind + 1 /\ step' = "select"
  /\ UNCHANGED <<program, cpu, mem, iflag, latch, ui, history>>

SelectNotDue ==
  /\ step = "select"
  /\ ~Due(kind)
  /\ IF kind = Joypad THEN kind' = 0 /\ step' = "run"
                      ELSE kind' = kind + 1 /\ step' = "select"
  /\ UNCHANGED <<program, cpu, mem, iflag, latch, ui, history>>

SelectDue ==
  /\ step = "select"
  /\ Due(kind)
  /\ step' = "acknowledge"
  /\ UNCHANGED <<program, cpu, mem, iflag, kind, latch, ui, history>>

(* set_value_bit(kind, false): the read, then the write.                    *)
AcknowledgeRead ==
  /\ step = "acknowledge"
  /\ latch' = iflag
  /\ step' = "dispatch"
  /\ UNCHANGED <<program, cpu, mem, iflag, kind, ui, history>>

(* Mutant: acknowledges every interrupt.                                    *)
AcknowledgeWrite_All ==
  /\ step = "dispatch"
  /\ iflag' = latch \ Kinds
  /\ owed' = owed \ {kind}
  /\ raced' = (raced \/ key = "writing")
  /\ pc' = Vector(kind)
  /\ kind' = 0
  /\ latch' = {}
  /\ step' = "run"
  /\ UNCHANGED <<program, sp, ime, halted, dma, mem, ui, frames>>

AcknowledgeWrite ==
  /\ step = "dispatch"
  /\ iflag' = latch \ {kind}
  /\ owed' = owed \ {kind}
  /\ raced' = (raced \/ key = "writing")
  /\ pc' = Vector(kind)
  /\ kind' = 0
  /\ latch' = {}
  /\ step' = "run"
  /\ UNCHANGED <<program, sp, ime, halted, dma, mem, ui, frames>>

-----------------------------------------------------------------------------
(* The rest of ReadInstruction.                                             *)
Fetched == program[pc]

Following == Wrap(pc + Fetched.width)

(* LookUp finds code of the region the parser believes the program to be in. *)
Found ==
  /\ pc \in DOMAIN program
  /\ IF dma THEN pc >= HighRamFirst ELSE pc <= RomLast

(* FetchInstruction changes mode when the instruction at PC may jump to the *)
(* other region, whether or not the jump will be taken.                     *)
ModeFollows(hl) ==
  IF Fetched.kind \in Jumping
    THEN \E t \in ParserTargets(pc, Fetched, Poll(sp), hl) :
           dma' = IF dma THEN t > RomLast ELSE t >= HighRamFirst
    ELSE dma' = dma

(* Mutant: waits without letting time pass.                                 *)
RunHalted_Spins ==
  /\ step = "run"
  /\ halted
  /\ UNCHANGED vars

(* While halted nothing is fetched; time passes.                            *)
RunHalted ==
  /\ step = "run"
  /\ halted
  /\ step' = "tick"
  /\ UNCHANGED <<program, cpu, mem, iflag, kind, latch, ui, history>>

(* No instruction at PC: ReadInstruction answers -1, the loop ends.         *)
RunNotFound ==
  /\ step = "run"
  /\ ~halted
  /\ ~Found
  /\ step' = "dead"
  /\ UNCHANGED <<program, cpu, mem, iflag, kind, latch, ui, history>>

Running ==
  /\ step = "run"
  /\ ~halted
  /\ Found
  /\ step' = "tick"
  /\ UNCHANGED <<program, kind, latch, ui>>

RunStraight ==
  /\ Running
  /\ Fetched.kind \in Straight \ {"store"}
  /\ pc' = Following
  /\ sp' = IF Fetched.kind = "ldsp" THEN Wrap(Fetched.arg) ELSE sp
  /\ ime' = CASE Fetched.kind = "ei" -> TRUE
              [] Fetched.kind = "di" -> FALSE
              [] OTHER -> ime
  /\ halted' = (Fetched.kind = "halt")
  /\ dma' = dma
  /\ MemoryUnchanged

RunStore ==
  /\ Running
  /\ Fetched.kind = "store"
  /\ \E v \in StoreValues : Write(Wrap(Fetched.arg), v)
  /\ pc' = Following
  /\ UNCHANGED <<sp, ime, halted, dma>>

(* The branch of a conditional instruction that is not taken.               *)
RunNotTaken ==
  /\ Running
  /\ Fetched.kind \in Conditional
  /\ ModeFollows(0)
  /\ pc' = Following
  /\ UNCHANGED <<sp, ime, halted>>
  /\ MemoryUnchanged

RunJump ==
  /\ Running
  /\ Fetched.kind \in {"jp", "jpcc"}
  /\ ModeFollows(0)
  /\ pc' = Wrap(Fetched.arg)
  /\ UNCHANGED <<sp, ime, halted>>
  /\ MemoryUnchanged

RunJumpHL ==
  /\ Running
  /\ Fetched.kind = "jphl"
  /\ \E hl \in HLValues : ModeFollows(hl) /\ pc' = hl
  /\ UNCHANGED <<sp, ime, halted>>
  /\ MemoryUnchanged

(* Mutant: the result is not cast to 16 bits.                               *)
RunJumpRelative_Wide ==
  /\ Running
  /\ Fetched.kind \in Relative
  /\ Following + Fetched.arg # -1
  /\ ModeFollows(0)
  /\ pc' = Following + Fetched.arg
  /\ UNCHANGED <<sp, ime, halted>>
  /\ MemoryUnchanged

(* JumpRelative answers PC + offset as an int: -1 is taken for an error.    *)
RunJumpRelative ==
  /\ Running
  /\ Fetched.kind \in Relative
  /\ Following + Fetched.arg # -1
  /\ ModeFollows(0)
  /\ pc' = Wrap(Following + Fetched.arg)
  /\ UNCHANGED <<sp, ime, halted>>
  /\ MemoryUnchanged

RunJumpMinusOne ==
  /\ step = "run"
  /\ ~halted
  /\ Found
  /\ Fetched.kind \in Relative
  /\ Following + Fetched.arg = -1
  /\ ModeFollows(0)
  /\ step' = "dead"
  /\ pc' = Following
  /\ UNCHANGED <<program, sp, ime, halted, kind, latch, ui>>
  /\ MemoryUnchanged

RunCall ==
  /\ Running
  /\ Fetched.kind \in Calling
  /\ ModeFollows(0)
  /\ Push(Following)
  /\ pc' = Wrap(Fetched.arg)
  /\ UNCHANGED <<ime, halted>>

RunReturn ==
  /\ Running
  /\ Fetched.kind \in Returning
  /\ ModeFollows(0)
  /\ pc' = Poll(sp)
  /\ sp' = Wrap(sp + 2)
  /\ ime' = IF Fetched.kind = "reti" THEN TRUE ELSE ime
  /\ halted' = halted
  /\ MemoryUnchanged

Run ==
  \/ RunHalted \/ RunNotFound \/ RunStraight \/ RunStore \/ RunNotTaken
  \/ RunJump \/ RunJumpHL \/ RunJumpRelative \/ RunJumpMinusOne
  \/ RunCall \/ RunReturn

-----------------------------------------------------------------------------
(* Memory::Tick: the timer and the graphics controller may request          *)
(* interrupts, each by a set_value_bit(k, true).                            *)
TickRead ==
  /\ step = "tick"
  /\ \E k \in Kinds \ {Joypad} : kind' = k
  /\ latch' = iflag
  /\ step' = "request"
  /\ UNCHANGED <<program, cpu, mem, iflag, ui, history>>

TickWrite ==
  /\ step = "request"
  /\ iflag' = latch \union {kind}
  /\ owed' = owed \union {kind}
  /\ raced' = (raced \/ key = "writing")
  /\ kind' = 0
  /\ latch' = {}
  /\ step' = "tick"
  /\ UNCHANGED <<program, cpu, mem, ui, frames>>

TickDone ==
  /\ step = "tick"
  /\ step' = "check"
  /\ UNCHANGED <<program, cpu, mem, iflag, kind, latch, ui, history>>

(* A key is pressed or released: set_joypad(true) on the UI thread.         *)
KeyRead ==
  /\ key = "idle"
  /\ key' = "writing"
  /\ keyLatch' = iflag
  /\ UNCHANGED <<program, cpu, mem, iflag, step, kind, latch, history>>

KeyWrite ==
  /\ key = "writing"
  /\ key' = "idle"
  /\ iflag' = keyLatch \union {Joypad}
  /\ owed' = owed \union {Joypad}
  /\ raced' = (raced \/ step \in {"dispatch", "request"})
  /\ keyLatch' = {}
  /\ UNCHANGED <<program, cpu, mem, step, kind, latch, frames>>

-----------------------------------------------------------------------------
HandleInterrupts ==
  \/ CheckSkipped \/ CheckNotDue \/ CheckDue \/ Enter
  \/ SelectNotDue \/ SelectDue \/ AcknowledgeRead \/ AcknowledgeWrite

Tick == TickRead \/ TickWrite \/ TickDone

Emulation == HandleInterrupts \/ Run \/ Tick

Key == KeyRead \/ KeyWrite

Next == Emulation \/ Key

(* The emulation thread is scheduled and a Tick ends; keys need not come.   *)
Spec == Init /\ [][Next]_vars /\ WF_vars(Emulation) /\ SF_vars(TickDone)

-----------------------------------------------------------------------------
Steps == {"check", "enter", "select", "acknowledge", "dispatch", "run", "tick",
          "request", "dead"}

TypeOK ==
  /\ program \in Programs
  /\ pc \in Address
  /\ sp \in Address
  /\ ram \in [Ram -> Byte]
  /\ iflag \in Byte
  /\ ienable \in Byte
  /\ ime \in BOOLEAN
  /\ halted \in BOOLEAN
  /\ dma \in BOOLEAN
  /\ step \in Steps
  /\ kind \in Kinds
  /\ latch \in Byte
  /\ key \in {"idle", "writing"}
  /\ keyLatch \in Byte
  /\ owed \in Byte
  /\ raced \in BOOLEAN
  /\ frames \subseteq [at : Address, ret : Address]

(* As long as no two read-modify-writes of IF have overlapped, no request   *)
(* is lost and none comes back after it was acknowledged.                   *)
NoRequestLost == ~raced => iflag = owed

(* And then the interrupt dispatched is the one of highest priority.        *)
HighestPriorityFirst ==
  ~raced /\ step \in {"acknowledge", "dispatch"} =>
    \A k \in Kinds : Due(k) => kind <= k

(* A return address pushed to RAM is what a return from there pops, through *)
(* nested interrupts and calls, until its bytes are overwritten.            *)
FramesIntact == \A f \in frames : Poll(f.at) = f.ret

(* A HALT with IME clear, or inside a DMA routine, is for ever: only an     *)
(* interrupt entry ends a HALT, and it is never reached.                    *)
HaltForever ==
  [][halted /\ (~ime \/ dma) => halted']_vars

(* A HALT with IME set ends as long as an enabled interrupt stays pending.  *)
HaltWakes ==
  (halted /\ ime /\ ~dma /\ iflag \intersect ienable \intersect Kinds # {})
    ~> (~halted \/ iflag \intersect ienable \intersect Kinds = {})

(* What the comment on HandleInterrupts says of it: when an enabled         *)
(* interrupt is found pending, PC is pushed and set to the address of an    *)
(* interrupt.                                                               *)
EntryReachesVector ==
  [][step = "select" => step' # "run"]_vars
=============================================================================
