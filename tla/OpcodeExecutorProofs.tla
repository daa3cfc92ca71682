------------------------ MODULE OpcodeExecutorProofs ------------------------
(***************************************************************************)
(* For every program, memory layout and number of interrupts: the types of *)
(* the executor's state, that read-modify-writes of IF lose no request     *)
(* unless two of them overlap, that interrupts are dispatched in order of  *)
(* priority, and that a HALT without IME, or in a DMA routine, never ends. *)
(***************************************************************************)
EXTENDS OpcodeExecutor, TLAPS

CpuTyped ==
  /\ program \in Programs
  /\ pc \in Address
  /\ sp \in Address
  /\ ime \in BOOLEAN
  /\ halted \in BOOLEAN
  /\ dma \in BOOLEAN

MemoryTyped ==
  /\ ram \in [Ram -> Byte]
  /\ iflag \in Byte
  /\ ienable \in Byte
  /\ owed \in Byte
  /\ raced \in BOOLEAN
  /\ frames \subseteq [at : Address, ret : Address]

StepTyped ==
  /\ step \in Steps
  /\ kind \in Kinds
  /\ latch \in Byte
  /\ key \in {"idle", "writing"}
  /\ keyLatch \in Byte

LEMMA TypeSplit == TypeOK <=> CpuTyped /\ MemoryTyped /\ StepTyped
  BY DEF TypeOK, CpuTyped, MemoryTyped, StepTyped

LEMMA KindsTyped == /\ 0 \in Kinds
                    /\ Joypad \in Kinds
                    /\ Kinds \subseteq Bits
                    /\ \A k \in Kinds : k # Joypad => k + 1 \in Kinds
                    /\ \A k \in Kinds : k <= Joypad
  BY InterruptsAssumption DEF Kinds, Joypad

LEMMA WrapTyped == \A n \in Int : Wrap(n) \in Address
  BY AddressSpaceAssumption DEF Wrap, Address

LEMMA ReadTyped ==
  ASSUME MemoryTyped, NEW a \in Address
  PROVE  Read(a) \in Byte
  BY BytesAssumption DEF MemoryTyped, Read

LEMMA PollTyped ==
  ASSUME MemoryTyped, NEW a \in Address
  PROVE  Poll(a) \in Address
  <1>1. Wrap(a + 1) \in Address
    BY WrapTyped, AddressSpaceAssumption DEF Address
  <1>2. QED
    BY <1>1, ReadTyped, BytesAssumption DEF Poll

-----------------------------------------------------------------------------
(* What a store and a push leave in memory is typed.                        *)
LEMMA WriteTyped ==
  ASSUME MemoryTyped, NEW a \in Address, NEW v \in Byte, Write(a, v)
  PROVE  MemoryTyped'
  BY DEF MemoryTyped, Write, Surviving

LEMMA PushTyped ==
  ASSUME MemoryTyped, sp \in Address, NEW w \in Address, Push(w)
  PROVE  MemoryTyped' /\ sp' \in Address
  <1> DEFINE lo == Wrap(sp - 1)
             hi == Wrap(sp - 2)
             pushed == IF {lo, hi} \subseteq Ram THEN {[at |-> hi, ret |-> w]} ELSE {}
  <1>1. lo \in Address /\ hi \in Address
    BY WrapTyped, AddressSpaceAssumption DEF Address
  <1>2. High(w) \in Byte /\ Low(w) \in Byte
    BY BytesAssumption
  <1>3. pushed \subseteq [at : Address, ret : Address]
    BY <1>1
  <1>4. /\ sp' = hi
        /\ ram' = [a \in Ram |-> IF a = hi THEN High(w)
                                 ELSE IF a = lo THEN Low(w) ELSE ram[a]]
        /\ iflag' = IF hi = IFAddress THEN High(w)
                    ELSE IF lo = IFAddress THEN Low(w) ELSE iflag
        /\ owed' = IF IFAddress \in {lo, hi} THEN iflag' ELSE owed
        /\ raced' = (raced \/ (IFAddress \in {lo, hi} /\ key = "writing"))
        /\ ienable' = IF hi = IEAddress THEN High(w)
                      ELSE IF lo = IEAddress THEN Low(w) ELSE ienable
        /\ frames' = Surviving({lo, hi}) \union pushed
    BY DEF Push
  <1> HIDE DEF lo, hi, pushed
  <1>5. ram' \in [Ram -> Byte]
    BY <1>2, <1>4 DEF MemoryTyped
  <1>6. iflag' \in Byte /\ owed' \in Byte /\ ienable' \in Byte
    BY <1>2, <1>4 DEF MemoryTyped
  <1>7. raced' \in BOOLEAN
    BY <1>4
  <1>8. frames' \subseteq [at : Address, ret : Address]
    BY <1>3, <1>4 DEF MemoryTyped, Surviving
  <1>9. QED
    BY <1>1, <1>4, <1>5, <1>6, <1>7, <1>8 DEF MemoryTyped

LEMMA UnchangedTyped ==
  ASSUME MemoryTyped, MemoryUnchanged
  PROVE  MemoryTyped'
  BY DEF MemoryTyped, MemoryUnchanged, mem

-----------------------------------------------------------------------------
LEMMA InitTyped == Init => TypeOK
  <1> SUFFICES ASSUME Init PROVE CpuTyped /\ MemoryTyped /\ StepTyped
    BY TypeSplit
  <1>0. 0 \in Address
    BY AddressSpaceAssumption DEF Address
  <1>1. CpuTyped
    BY <1>0, Zenon DEF Init, CpuTyped
  <1>2. {} \in Byte
    BY DEF Byte
  <1>3. MemoryTyped
    BY <1>2 DEF Init, MemoryTyped
  <1>4. StepTyped
    BY <1>2, KindsTyped DEF Init, StepTyped, Steps
  <1>5. QED
    BY <1>1, <1>3, <1>4

LEMMA InterruptsTyped == TypeOK /\ HandleInterrupts => TypeOK'
  <1> SUFFICES ASSUME CpuTyped, MemoryTyped, StepTyped, HandleInterrupts
               PROVE  CpuTyped' /\ MemoryTyped' /\ StepTyped'
    BY DEF TypeOK, CpuTyped, MemoryTyped, StepTyped
  <1> USE DEF cpu, mem, ui, history
  <1>1. CASE CheckSkipped
    BY <1>1 DEF CheckSkipped, CpuTyped, MemoryTyped, StepTyped, Steps
  <1>2. CASE CheckNotDue
    BY <1>2, KindsTyped
       DEF CheckNotDue, CpuTyped, MemoryTyped, StepTyped, Steps
  <1>3. CASE CheckDue
    BY <1>3, KindsTyped DEF CheckDue, CpuTyped, MemoryTyped, StepTyped, Steps
  <1>4. CASE Enter
    <2>1. MemoryTyped' /\ sp' \in Address
      BY <1>4, PushTyped DEF Enter, CpuTyped
    <2>2. QED
      BY <1>4, <2>1 DEF Enter, CpuTyped, StepTyped, Steps
  <1>5. CASE SelectNotDue
    BY <1>5, KindsTyped
       DEF SelectNotDue, CpuTyped, MemoryTyped, StepTyped, Steps
  <1>6. CASE SelectDue
    BY <1>6 DEF SelectDue, CpuTyped, MemoryTyped, StepTyped, Steps
  <1>7. CASE AcknowledgeRead
    BY <1>7 DEF AcknowledgeRead, CpuTyped, MemoryTyped, StepTyped, Steps
  <1>8. CASE AcknowledgeWrite
    <2>1. pc' \in Address /\ {} \in Byte
      BY <1>8, InterruptsAssumption DEF AcknowledgeWrite, StepTyped, Byte
    <2>2. iflag' \in Byte /\ owed' \in Byte
      BY <1>8 DEF AcknowledgeWrite, MemoryTyped, StepTyped, Byte
    <2>3. QED
      BY <1>8, <2>1, <2>2, KindsTyped
         DEF AcknowledgeWrite, CpuTyped, MemoryTyped, StepTyped, Steps
  <1>9. QED
    BY <1>1, <1>2, <1>3, <1>4, <1>5, <1>6, <1>7, <1>8 DEF HandleInterrupts

LEMMA TickTyped == TypeOK /\ Tick => TypeOK'
  <1> SUFFICES ASSUME CpuTyped, MemoryTyped, StepTyped, Tick
               PROVE  CpuTyped' /\ MemoryTyped' /\ StepTyped'
    BY DEF TypeOK, CpuTyped, MemoryTyped, StepTyped
  <1> USE DEF cpu, mem, ui, history
  <1>1. CASE TickRead
    BY <1>1 DEF TickRead, CpuTyped, MemoryTyped, StepTyped, Steps
  <1>2. CASE TickWrite
    <2>1. iflag' \in Byte /\ owed' \in Byte /\ {} \in Byte
      BY <1>2, KindsTyped DEF TickWrite, MemoryTyped, StepTyped, Byte
    <2>2. QED
      BY <1>2, <2>1, KindsTyped
         DEF TickWrite, CpuTyped, MemoryTyped, StepTyped, Steps
  <1>3. CASE TickDone
    BY <1>3 DEF TickDone, CpuTyped, MemoryTyped, StepTyped, Steps
  <1>4. QED
    BY <1>1, <1>2, <1>3 DEF Tick

LEMMA KeyTyped == TypeOK /\ Key => TypeOK'
  <1> SUFFICES ASSUME CpuTyped, MemoryTyped, StepTyped, Key
               PROVE  CpuTyped' /\ MemoryTyped' /\ StepTyped'
    BY DEF TypeOK, CpuTyped, MemoryTyped, StepTyped
  <1> USE DEF cpu, mem, history
  <1>1. CASE KeyRead
    BY <1>1 DEF KeyRead, CpuTyped, MemoryTyped, StepTyped, Steps
  <1>2. CASE KeyWrite
    <2>1. iflag' \in Byte /\ owed' \in Byte /\ {} \in Byte
      BY <1>2, KindsTyped DEF KeyWrite, MemoryTyped, StepTyped, Byte
    <2>2. QED
      BY <1>2, <2>1 DEF KeyWrite, CpuTyped, MemoryTyped, StepTyped, Steps
  <1>3. QED
    BY <1>1, <1>2 DEF Key

-----------------------------------------------------------------------------
LEMMA FetchedTyped ==
  ASSUME CpuTyped, Found
  PROVE  /\ Fetched \in Instruction
         /\ Following \in Address
  <1>1. Fetched \in Instruction
    BY ProgramsAssumption DEF CpuTyped, Found, Fetched
  <1>2. pc + Fetched.width \in Int
    BY <1>1, AddressSpaceAssumption DEF CpuTyped, Address, Instruction
  <1>3. QED
    BY <1>1, <1>2, WrapTyped DEF Following

LEMMA ModeTyped ==
  ASSUME CpuTyped, NEW hl, ModeFollows(hl)
  PROVE  dma' \in BOOLEAN
  <1>1. CASE Fetched.kind \in Jumping
    <2>1. PICK t : dma' = IF dma THEN t > RomLast ELSE t >= HighRamFirst
      BY <1>1 DEF ModeFollows
    <2>2. (t > RomLast) \in BOOLEAN /\ (t >= HighRamFirst) \in BOOLEAN
      OBVIOUS
    <2>3. QED
      BY <2>1, <2>2
  <1>2. CASE Fetched.kind \notin Jumping
    BY <1>2 DEF ModeFollows, CpuTyped
  <1>3. QED
    BY <1>1, <1>2

LEMMA RunTyped == TypeOK /\ Run => TypeOK'
  <1> SUFFICES ASSUME CpuTyped, MemoryTyped, StepTyped, Run
               PROVE  CpuTyped' /\ MemoryTyped' /\ StepTyped'
    BY DEF TypeOK, CpuTyped, MemoryTyped, StepTyped
  <1>1. CASE RunHalted
    BY <1>1 DEF RunHalted, CpuTyped, MemoryTyped, StepTyped, Steps, cpu, mem,
                ui, history
  <1>2. CASE RunNotFound
    BY <1>2 DEF RunNotFound, CpuTyped, MemoryTyped, StepTyped, Steps, cpu, mem,
                ui, history
  <1>3. ASSUME Running PROVE StepTyped' /\ program' \in Programs
    BY <1>3 DEF Running, StepTyped, CpuTyped, Steps, ui
  <1>4. ASSUME Running
        PROVE  /\ Fetched \in Instruction
               /\ Following \in Address
               /\ Wrap(Fetched.arg) \in Address
               /\ Wrap(Following + Fetched.arg) \in Address
    <2>1. Fetched \in Instruction /\ Following \in Address
      BY <1>4, FetchedTyped DEF Running
    <2>2. Fetched.arg \in Int /\ Following + Fetched.arg \in Int
      BY <2>1, AddressSpaceAssumption DEF Instruction, Address
    <2>3. QED
      BY <2>1, <2>2, WrapTyped
  <1>5. CASE RunStraight
    <2>1. Running /\ MemoryUnchanged
      BY <1>5 DEF RunStraight
    <2>2. MemoryTyped'
      BY <2>1, UnchangedTyped
    <2>3. pc' \in Address /\ sp' \in Address
      BY <1>5, <1>4, <2>1 DEF RunStraight, CpuTyped
    <2>4. ime' \in BOOLEAN /\ halted' \in BOOLEAN /\ dma' \in BOOLEAN
      BY <1>5 DEF RunStraight, CpuTyped
    <2>5. QED
      BY <1>3, <2>1, <2>2, <2>3, <2>4 DEF CpuTyped
  <1>6. CASE RunStore
    <2>1. Running
      BY <1>6 DEF RunStore
    <2>2. PICK v \in StoreValues : Write(Wrap(Fetched.arg), v)
      BY <1>6 DEF RunStore
    <2>3. MemoryTyped'
      BY <1>4, <2>1, <2>2, WriteTyped, ProgramsAssumption
    <2>4. QED
      BY <1>3, <1>4, <1>6, <2>1, <2>3 DEF RunStore, CpuTyped
  <1>7. CASE RunNotTaken \/ RunJump \/ RunJumpRelative
    <2>1. Running /\ ModeFollows(0) /\ MemoryUnchanged
      BY <1>7 DEF RunNotTaken, RunJump, RunJumpRelative
    <2>2. MemoryTyped' /\ dma' \in BOOLEAN
      BY <2>1, UnchangedTyped, ModeTyped
    <2>3. pc' \in Address
      BY <1>4, <1>7, <2>1 DEF RunNotTaken, RunJump, RunJumpRelative
    <2>4. UNCHANGED <<sp, ime, halted>>
      BY <1>7 DEF RunNotTaken, RunJump, RunJumpRelative
    <2>5. QED
      BY <1>3, <2>1, <2>2, <2>3, <2>4 DEF CpuTyped
  <1>8. CASE RunJumpHL
    <2>1. Running /\ MemoryUnchanged
      BY <1>8 DEF RunJumpHL
    <2>2. PICK hl \in HLValues : ModeFollows(hl) /\ pc' = hl
      BY <1>8 DEF RunJumpHL
    <2>3. MemoryTyped' /\ dma' \in BOOLEAN
      BY <2>1, <2>2, UnchangedTyped, ModeTyped
    <2>4. pc' \in Address
      BY <2>2, ProgramsAssumption
    <2>5. QED
      BY <1>3, <1>8, <2>1, <2>3, <2>4 DEF RunJumpHL, CpuTyped
  <1>9. CASE RunJumpMinusOne
    <2>1. MemoryTyped' /\ dma' \in BOOLEAN
      BY <1>9, UnchangedTyped, ModeTyped DEF RunJumpMinusOne
    <2>2. pc' \in Address
      BY <1>9, FetchedTyped DEF RunJumpMinusOne
    <2>3. QED
      BY <1>9, <2>1, <2>2 DEF RunJumpMinusOne, CpuTyped, StepTyped, Steps, ui
  <1>10. CASE RunCall
    <2>1. Running /\ ModeFollows(0) /\ Push(Following)
      BY <1>10 DEF RunCall
    <2>2. MemoryTyped' /\ sp' \in Address
      BY <1>4, <2>1, PushTyped DEF CpuTyped
    <2>3. dma' \in BOOLEAN
      BY <2>1, ModeTyped
    <2>4. QED
      BY <1>3, <1>4, <1>10, <2>1, <2>2, <2>3 DEF RunCall, CpuTyped
  <1>11. CASE RunReturn
    <2>1. Running /\ ModeFollows(0) /\ MemoryUnchanged
      BY <1>11 DEF RunReturn
    <2>2. MemoryTyped' /\ dma' \in BOOLEAN
      BY <2>1, UnchangedTyped, ModeTyped
    <2>3. pc' \in Address
      BY <1>11, PollTyped DEF RunReturn, CpuTyped
    <2>4. sp + 2 \in Int
      BY AddressSpaceAssumption DEF CpuTyped, Address
    <2>5. sp' \in Address
      BY <1>11, <2>4, WrapTyped DEF RunReturn
    <2>6. ime' \in BOOLEAN /\ halted' \in BOOLEAN
      BY <1>11 DEF RunReturn, CpuTyped
    <2>7. QED
      BY <1>3, <2>1, <2>2, <2>3, <2>5, <2>6 DEF CpuTyped
  <1>12. QED
    BY <1>1, <1>2, <1>5, <1>6, <1>7, <1>8, <1>9, <1>10, <1>11 DEF Run

LEMMA StepKeepsTypes == TypeOK /\ [Next]_vars => TypeOK'
  <1>1. TypeOK /\ UNCHANGED vars => TypeOK'
    BY DEF vars, cpu, mem, ui, history, TypeOK
  <1>2. QED
    BY <1>1, InterruptsTyped, RunTyped, TickTyped, KeyTyped DEF Next, Emulation

(* Every variable keeps its type: PC and SP stay 16-bit addresses, IF, IE   *)
(* and RAM bytes, whatever the program jumps to, pushes or stores.          *)
THEOREM TypeCorrect == Spec => []TypeOK
  BY InitTyped, StepKeepsTypes, PTL DEF Spec

-----------------------------------------------------------------------------
(* What a thread has read of IF is still there when it writes it back, or   *)
(* two read-modify-writes overlap.                                          *)
Latched ==
  ~raced =>
    /\ iflag = owed
    /\ step \in {"dispatch", "request"} => latch = iflag
    /\ key = "writing" => keyLatch = iflag

(* The search for the interrupt to enter starts with the first one and      *)
(* passes over none that is due.                                            *)
InOrder ==
  /\ step = "enter" => kind = 0
  /\ ~raced /\ step \in {"select", "acknowledge", "dispatch"} =>
       \A k \in Kinds : Due(k) => kind <= k

(* An entry is begun only with IME set and outside DMA routines.            *)
EntryJustified == step = "enter" => ime /\ ~dma

IInv == TypeOK /\ Latched /\ InOrder /\ EntryJustified

LEMMA InitInv == Init => IInv
  BY InitTyped DEF Init, IInv, Latched, InOrder, EntryJustified

LEMMA WriteLatched ==
  ASSUME Latched, NEW a, NEW v, Write(a, v), step = "run", step' = "tick",
         UNCHANGED ui
  PROVE  Latched'
  BY DEF Write, Latched, ui

LEMMA PushLatched ==
  ASSUME Latched, NEW w, Push(w), step \notin {"dispatch", "request"},
         step' \notin {"dispatch", "request"}, UNCHANGED ui
  PROVE  Latched'
  <1> DEFINE written == IFAddress \in {Wrap(sp - 1), Wrap(sp - 2)}
  <1>1. CASE written
    BY <1>1 DEF Push, Latched, ui
  <1>2. CASE ~written
    BY <1>2 DEF Push, Latched, ui
  <1>3. QED
    BY <1>1, <1>2

LEMMA InterruptsInv == IInv /\ HandleInterrupts => IInv'
  <1> SUFFICES ASSUME IInv, HandleInterrupts
               PROVE  Latched' /\ InOrder' /\ EntryJustified'
    BY InterruptsTyped DEF IInv
  <1> USE DEF IInv, cpu, mem, ui, history
  <1>1. CASE CheckSkipped
    BY <1>1 DEF CheckSkipped, Latched, InOrder, EntryJustified
  <1>2. CASE CheckNotDue
    BY <1>2 DEF CheckNotDue, Latched, InOrder, EntryJustified
  <1>3. CASE CheckDue
    BY <1>3 DEF CheckDue, Latched, InOrder, EntryJustified
  <1>4. CASE Enter
    <2>1. Latched'
      BY <1>4, PushLatched DEF Enter
    <2>2. InOrder'
      <3>1. step' = "select" /\ kind' = 0
        BY <1>4 DEF Enter, InOrder
      <3>2. \A k \in Kinds : kind' <= k
        BY <3>1, InterruptsAssumption DEF Kinds
      <3>3. QED
        BY <3>1, <3>2 DEF InOrder
    <2>3. EntryJustified'
      BY <1>4 DEF Enter, EntryJustified
    <2>4. QED
      BY <2>1, <2>2, <2>3
  <1>5. CASE SelectNotDue
    <2>1. Latched' /\ EntryJustified'
      BY <1>5 DEF SelectNotDue, Latched, EntryJustified
    <2>2. CASE kind = Joypad
      <3>1. step' = "run"
        BY <1>5, <2>2 DEF SelectNotDue
      <3>2. QED
        BY <2>1, <3>1 DEF InOrder
    <2>3. CASE kind # Joypad
      <3>1. /\ kind' = kind + 1 /\ step = "select" /\ step' = "select"
            /\ UNCHANGED <<iflag, ienable, raced>>
            /\ ~Due(kind)
        BY <1>5, <2>3 DEF SelectNotDue
      <3>2. \A k \in Kinds : k # kind /\ kind <= k => kind + 1 <= k
        BY InterruptsAssumption DEF Kinds, TypeOK
      <3>3. ASSUME ~raced', NEW k \in Kinds, Due(k)' PROVE kind' <= k
        <4>1. ~raced /\ Due(k)
          BY <3>1, <3>3 DEF Due
        <4>2. kind <= k
          BY <3>1, <4>1 DEF InOrder
        <4>3. k # kind
          BY <3>1, <4>1
        <4>4. QED
          BY <3>1, <3>2, <4>2, <4>3
      <3>4. InOrder'
        BY <3>1, <3>3 DEF InOrder
      <3>5. QED
        BY <2>1, <3>4
    <2>4. QED
      BY <2>1, <2>2, <2>3
  <1>6. CASE SelectDue
    BY <1>6 DEF SelectDue, Latched, InOrder, EntryJustified, Due
  <1>7. CASE AcknowledgeRead
    BY <1>7 DEF AcknowledgeRead, Latched, InOrder, EntryJustified, Due
  <1>8. CASE AcknowledgeWrite
    BY <1>8 DEF AcknowledgeWrite, Latched, InOrder, EntryJustified
  <1>9. QED
    BY <1>1, <1>2, <1>3, <1>4, <1>5, <1>6, <1>7, <1>8 DEF HandleInterrupts

LEMMA RunInv == IInv /\ Run => IInv'
  <1> SUFFICES ASSUME IInv, Run PROVE Latched' /\ InOrder' /\ EntryJustified'
    BY RunTyped DEF IInv
  <1>1. step = "run" /\ step' \in {"tick", "dead"} /\ UNCHANGED ui
    BY DEF Run, Running, RunHalted, RunNotFound, RunStraight, RunStore,
           RunNotTaken, RunJump, RunJumpHL, RunJumpRelative, RunJumpMinusOne,
           RunCall, RunReturn
  <1>2. InOrder' /\ EntryJustified'
    BY <1>1 DEF InOrder, EntryJustified
  <1>3. CASE RunStore
    <2>1. PICK v \in StoreValues : Write(Wrap(Fetched.arg), v)
      BY <1>3 DEF RunStore
    <2>2. step' = "tick"
      BY <1>3 DEF RunStore, Running
    <2>3. QED
      BY <1>1, <1>2, <2>1, <2>2, WriteLatched DEF IInv
  <1>4. CASE RunCall
    BY <1>1, <1>2, <1>4, PushLatched DEF RunCall, IInv
  <1>5. CASE ~(RunStore \/ RunCall)
    <2>1. UNCHANGED <<iflag, owed, raced>>
      BY <1>5 DEF Run, RunHalted, RunNotFound, RunStraight, RunNotTaken, RunJump,
                  RunJumpHL, RunJumpRelative, RunJumpMinusOne, RunReturn,
                  MemoryUnchanged, history
    <2>2. QED
      BY <1>1, <1>2, <2>1 DEF Latched, IInv, ui
  <1>6. QED
    BY <1>3, <1>4, <1>5

LEMMA TickInv == IInv /\ Tick => IInv'
  <1> SUFFICES ASSUME IInv, Tick PROVE Latched' /\ InOrder' /\ EntryJustified'
    BY TickTyped DEF IInv
  <1> USE DEF IInv, cpu, mem, ui, history
  <1>1. CASE TickRead
    BY <1>1 DEF TickRead, Latched, InOrder, EntryJustified
  <1>2. CASE TickWrite
    BY <1>2 DEF TickWrite, Latched, InOrder, EntryJustified
  <1>3. CASE TickDone
    BY <1>3 DEF TickDone, Latched, InOrder, EntryJustified
  <1>4. QED
    BY <1>1, <1>2, <1>3 DEF Tick

LEMMA KeyInv == IInv /\ Key => IInv'
  <1> SUFFICES ASSUME IInv, Key PROVE Latched' /\ InOrder' /\ EntryJustified'
    BY KeyTyped DEF IInv
  <1> USE DEF IInv, cpu, mem, history
  <1>1. CASE KeyRead
    BY <1>1 DEF KeyRead, Latched, InOrder, EntryJustified, Due
  <1>2. CASE KeyWrite
    <2>1. Latched' /\ EntryJustified'
      BY <1>2 DEF KeyWrite, Latched, EntryJustified
    <2>2. ASSUME ~raced', step' \in {"select", "acknowledge", "dispatch"},
                 NEW k \in Kinds, Due(k)'
          PROVE  kind' <= k
      <3>1. ~raced /\ iflag' = iflag \union {Joypad} /\ UNCHANGED <<step, kind, ienable>>
        BY <1>2, <2>2 DEF KeyWrite, Latched
      <3>2. Due(k) \/ k = Joypad
        BY <2>2, <3>1 DEF Due
      <3>3. kind <= Joypad
        BY KindsTyped DEF TypeOK
      <3>4. QED
        BY <2>2, <3>1, <3>2, <3>3 DEF InOrder
    <2>3. InOrder'
      BY <1>2, <2>2 DEF KeyWrite, InOrder
    <2>4. QED
      BY <2>1, <2>3
  <1>3. QED
    BY <1>1, <1>2 DEF Key

LEMMA StepInv == IInv /\ [Next]_vars => IInv'
  <1>1. IInv /\ UNCHANGED vars => IInv'
    BY StepKeepsTypes
       DEF vars, cpu, mem, ui, history, IInv, Latched, InOrder, EntryJustified, Due
  <1>2. QED
    BY <1>1, InterruptsInv, RunInv, TickInv, KeyInv DEF Next, Emulation

LEMMA Invariance == Spec => []IInv
  BY InitInv, StepInv, PTL DEF Spec

(* IF holds exactly what was requested and not acknowledged, as long as no  *)
(* two read-modify-writes of it have overlapped: the race of the threads is *)
(* the only way to lose a request, or to see one again.                     *)
THEOREM RequestsKept == Spec => []NoRequestLost
  <1>1. IInv => NoRequestLost
    BY DEF IInv, Latched, NoRequestLost
  <1>2. QED
    BY <1>1, Invariance, PTL

(* And then the interrupt acknowledged is the one of highest priority.      *)
THEOREM PriorityKept == Spec => []HighestPriorityFirst
  <1>1. IInv => HighestPriorityFirst
    BY DEF IInv, InOrder, HighestPriorityFirst
  <1>2. QED
    BY <1>1, Invariance, PTL

(* Nothing ends a HALT without IME, or inside a DMA routine: no instruction *)
(* runs while halted, and no interrupt is entered.                          *)
THEOREM HaltIsForEver == Spec => HaltForever
  <1>1. IInv /\ [Next]_vars => [halted /\ (~ime \/ dma) => halted']_vars
    <2> SUFFICES ASSUME IInv, Next, halted, ~ime \/ dma PROVE halted'
      BY DEF vars
    <2>1. step # "enter"
      BY DEF IInv, EntryJustified
    <2>2. CASE HandleInterrupts
      BY <2>1, <2>2
         DEF HandleInterrupts, CheckSkipped, CheckNotDue, CheckDue, Enter,
             SelectNotDue, SelectDue, AcknowledgeRead, AcknowledgeWrite, cpu
    <2>3. CASE Run
      BY <2>3 DEF Run, Running, RunHalted, RunNotFound, RunStraight, RunStore,
                  RunNotTaken, RunJump, RunJumpHL, RunJumpRelative,
                  RunJumpMinusOne, RunCall, RunReturn, cpu
    <2>4. CASE Tick \/ Key
      BY <2>4 DEF Tick, TickRead, TickWrite, TickDone, Key, KeyRead, KeyWrite, cpu
    <2>5. QED
      BY <2>2, <2>3, <2>4 DEF Next, Emulation
  <1>2. QED
    BY <1>1, Invariance, PTL DEF Spec, HaltForever

-----------------------------------------------------------------------------
(* The bytes of a frame are where the push left them.                       *)
Stored(f) ==
  /\ f.at \in Ram /\ Wrap(f.at + 1) \in Ram
  /\ f.ret \in Address
  /\ ram[f.at] = High(f.ret)
  /\ ram[Wrap(f.at + 1)] = Low(f.ret)

FramesStored == \A f \in frames : Stored(f)

(* SP - 2 and SP - 1 are adjacent modulo the address space, and distinct.   *)
LEMMA PushAddresses ==
  ASSUME NEW s \in Address
  PROVE  /\ Wrap(s - 1) \in Address
         /\ Wrap(s - 2) \in Address
         /\ Wrap(Wrap(s - 2) + 1) = Wrap(s - 1)
         /\ Wrap(s - 1) # Wrap(s - 2)
  BY AddressSpaceAssumption DEF Address, Wrap

LEMMA WriteStored ==
  ASSUME MemoryTyped, FramesStored, NEW a, NEW v, Write(a, v)
  PROVE  FramesStored'
  <1> SUFFICES ASSUME NEW f \in frames' PROVE Stored(f)'
    BY DEF FramesStored
  <1>1. Stored(f) /\ f.at # a /\ Wrap(f.at + 1) # a
    BY DEF Write, Surviving, FramesStored
  <1>2. QED
    BY <1>1 DEF Write, Stored, MemoryTyped

LEMMA PushStored ==
  ASSUME MemoryTyped, sp \in Address, FramesStored, NEW w \in Address, Push(w)
  PROVE  FramesStored'
  <1> DEFINE lo == Wrap(sp - 1)
             hi == Wrap(sp - 2)
  <1>1. /\ ram' = [a \in Ram |-> IF a = hi THEN High(w)
                                 ELSE IF a = lo THEN Low(w) ELSE ram[a]]
        /\ frames' = Surviving({lo, hi}) \union
                     (IF {lo, hi} \subseteq Ram THEN {[at |-> hi, ret |-> w]} ELSE {})
    BY DEF Push
  <1>2. Wrap(hi + 1) = lo /\ lo # hi
    BY PushAddresses
  <1> HIDE DEF lo, hi
  <1> SUFFICES ASSUME NEW f \in frames' PROVE Stored(f)'
    BY DEF FramesStored
  <1>3. CASE f \in Surviving({lo, hi})
    <2>1. Stored(f) /\ f.at \notin {lo, hi} /\ Wrap(f.at + 1) \notin {lo, hi}
      BY <1>3 DEF Surviving, FramesStored
    <2>2. QED
      BY <1>1, <2>1 DEF Stored
  <1>4. CASE f \notin Surviving({lo, hi})
    <2>1. {lo, hi} \subseteq Ram /\ f = [at |-> hi, ret |-> w]
      BY <1>1, <1>4
    <2>2. f.at = hi /\ f.ret = w
      BY <2>1
    <2>3. ram'[hi] = High(w) /\ ram'[lo] = Low(w)
      BY <1>1, <1>2, <2>1
    <2>4. QED
      BY <1>2, <2>1, <2>2, <2>3 DEF Stored
  <1>5. QED
    BY <1>3, <1>4

LEMMA UnchangedStored ==
  ASSUME FramesStored, UNCHANGED <<ram, frames>>
  PROVE  FramesStored'
  BY DEF FramesStored, Stored

LEMMA StepStored == TypeOK /\ FramesStored /\ [Next]_vars => FramesStored'
  <1> SUFFICES ASSUME TypeOK, FramesStored, [Next]_vars PROVE FramesStored'
    OBVIOUS
  <1>1. MemoryTyped /\ CpuTyped
    BY TypeSplit
  <1>2. CASE Enter
    BY <1>1, <1>2, PushStored DEF Enter, CpuTyped
  <1>3. CASE RunStore
    BY <1>1, <1>3, WriteStored DEF RunStore
  <1>4. CASE RunCall
    <2>1. Following \in Address
      BY <1>1, <1>4, FetchedTyped DEF RunCall, Running
    <2>2. QED
      BY <1>1, <1>4, <2>1, PushStored DEF RunCall, CpuTyped
  <1>5. CASE ~(Enter \/ RunStore \/ RunCall)
    <2>1. CASE HandleInterrupts
      BY <1>5, <2>1, UnchangedStored
         DEF HandleInterrupts, CheckSkipped, CheckNotDue, CheckDue,
             SelectNotDue, SelectDue, AcknowledgeRead, AcknowledgeWrite, mem, history
    <2>2. CASE Run
      BY <1>5, <2>2, UnchangedStored
         DEF Run, RunHalted, RunNotFound, RunStraight, RunNotTaken, RunJump,
             RunJumpHL, RunJumpRelative, RunJumpMinusOne, RunReturn,
             MemoryUnchanged, mem, history
    <2>3. CASE Tick \/ Key
      BY <2>3, UnchangedStored
         DEF Tick, TickRead, TickWrite, TickDone, Key, KeyRead, KeyWrite, mem, history
    <2>4. CASE UNCHANGED vars
      BY <2>4, UnchangedStored DEF vars, mem, history
    <2>5. QED
      BY <2>1, <2>2, <2>3, <2>4 DEF Next, Emulation
  <1>6. QED
    BY <1>2, <1>3, <1>4, <1>5

(* A return pops what the call or the interrupt pushed, wherever SP points  *)
(* and however they nest, until the program overwrites those bytes.         *)
THEOREM FramesKept == Spec => []FramesIntact
  <1>1. Init => FramesStored
    BY DEF Init, FramesStored
  <1>2. Spec => [](TypeOK /\ FramesStored)
    BY <1>1, InitTyped, StepKeepsTypes, StepStored, PTL DEF Spec
  <1>3. ASSUME FramesStored, NEW f \in frames PROVE Poll(f.at) = f.ret
    <2>1. Stored(f)
      BY <1>3 DEF FramesStored
    <2>2. Read(f.at) = High(f.ret) /\ Read(Wrap(f.at + 1)) = Low(f.ret)
      <3>1. \A a \in Ram : Read(a) = ram[a]
        BY MemoryAssumption DEF Read
      <3>2. QED
        BY <2>1, <3>1 DEF Stored
    <2>3. Word(High(f.ret), Low(f.ret)) = f.ret
      BY <2>1, BytesAssumption DEF Stored
    <2>4. QED
      BY <2>2, <2>3 DEF Poll
  <1>4. FramesStored => FramesIntact
    BY <1>3 DEF FramesIntact
  <1>5. QED
    BY <1>2, <1>4, PTL
=============================================================================
