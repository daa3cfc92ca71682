----------------------------- MODULE TickProofs -----------------------------
(***************************************************************************)
(* The two modules that Memory::Tick advances after each instruction.      *)
(*                                                                         *)
(* Timer: for every width of its registers and of the sum of ticks, every  *)
(* set of instruction lengths up to 32, and every write.                   *)
(*                                                                         *)
(* Graphics: for all lengths of lines, modes and frames, whatever the game *)
(* writes, as long as no instruction is longer than a mode.                *)
(***************************************************************************)
EXTENDS Timer, Graphics, TLAPS

-----------------------------------------------------------------------------
(* The sum of ticks stays an int: what an instruction adds either fits or   *)
(* wraps around once.                                                       *)
LEMMA AddTicksType ==
  ASSUME ticks_ \in 0 - MaxInt - 1 .. MaxInt, NEW n \in TickCounts
  PROVE  /\ AddTicks(n) \in 0 - MaxInt - 1 .. MaxInt
         /\ ~Overflows(n) => AddTicks(n) = ticks_ + n
         /\ Overflows(n) => AddTicks(n) < 0
  BY TimerAssumption DEF AddTicks, Overflows

(* The periods of the three speeds.                                         *)
LEMMA TimerPeriods ==
  ASSUME timer_control_ \in 0 .. 7, HasSpeed
  PROVE  /\ ticks_to_increment \in Nat
         /\ 0 < ticks_to_increment /\ ticks_to_increment <= Slowest
  <1>1. 4194304 \div 4096 = 1024 /\ 4194304 \div 262144 = 16 /\ 4194304 \div 65536 = 64
    OBVIOUS
  <1>2. timer_control_ % 4 \in {0, 1, 2}
    BY DEF HasSpeed
  <1>3. timer_speed \in {4096, 262144, 65536}
    BY <1>2 DEF timer_speed
  <1> QED
    BY <1>1, <1>3 DEF ticks_to_increment, Slowest

(* An instruction is too short for the divider.                             *)
LEMMA DividerKept ==
  ASSUME NEW n \in TickCounts, TickDivider(n)
  PROVE  divider_flag_' = divider_flag_
  BY TimerAssumption DEF TickDivider, kTicksToIncrement

-----------------------------------------------------------------------------
(* Every variable of the timer keeps its type.                              *)
THEOREM TimerTypeCorrect == TimerSpec => []TimerTypeOK
  <1>1. TimerInit => TimerTypeOK
    <2> SUFFICES ASSUME TimerInit PROVE TimerTypeOK
      OBVIOUS
    <2>1. timer \in BOOLEAN /\ failed \in BOOLEAN /\ overflowed \in BOOLEAN
      BY DEF TimerInit
    <2>2. 0 \in Flag /\ 0 \in 0 - MaxInt - 1 .. MaxInt
      BY TimerAssumption DEF Flag
    <2> QED
      BY <2>1, <2>2 DEF TimerInit, TimerTypeOK
  <1>2. TimerTypeOK /\ [TimerNext]_timerVars => TimerTypeOK'
    <2> SUFFICES ASSUME TimerTypeOK, [TimerNext]_timerVars PROVE TimerTypeOK'
      OBVIOUS
    <2> USE DEF TimerTypeOK, Flag
    <2>1. CASE TickTimer
      <3> PICK n \in TickCounts :
            TickStopped(n) \/ TickFatal(n) \/ TickWaiting(n) \/ TickCounting(n)
        BY <2>1 DEF TickTimer
      <3>1. CASE TickStopped(n)
        BY <3>1, DividerKept DEF TickStopped
      <3>2. CASE TickFatal(n)
        BY <3>2, DividerKept, AddTicksType DEF TickFatal
      <3>3. CASE TickWaiting(n)
        <4>1. since' \in Nat
          BY <3>3, TimerAssumption DEF TickWaiting
        <4>2. overflowed' \in BOOLEAN
          BY <3>3 DEF TickWaiting
        <4> QED
          BY <3>3, <4>1, <4>2, DividerKept, AddTicksType DEF TickWaiting
      <3>4. CASE TickCounting(n)
        <4>1. timer_counter_' \in Flag
          BY <3>4, TimerAssumption DEF TickCounting, Reload
        <4>2. timer' \in BOOLEAN
          BY <3>4, Zenon DEF TickCounting, Reload
        <4> QED
          BY <3>4, <4>1, <4>2, DividerKept, AddTicksType DEF TickCounting
      <3> QED
        BY <3>1, <3>2, <3>3, <3>4
    <2>2. CASE WriteDivider
      BY <2>2, TimerAssumption DEF WriteDivider, Kept
    <2>3. CASE WriteCounter
      BY <2>3, TimerAssumption DEF WriteCounter, Kept
    <2>4. CASE WriteModulo
      BY <2>4, TimerAssumption DEF WriteModulo, Kept
    <2>5. CASE WriteTimerControl
      BY <2>5 DEF WriteTimerControl, Kept
    <2>6. CASE AcknowledgeTimer
      BY <2>6 DEF AcknowledgeTimer
    <2>7. CASE UNCHANGED timerVars
      BY <2>7 DEF timerVars
    <2> QED
      BY <2>1, <2>2, <2>3, <2>4, <2>5, <2>6, <2>7 DEF TimerNext
  <1> QED
    BY <1>1, <1>2, PTL DEF TimerSpec

(* DIV never moves, whatever the game waits for: no instruction takes as    *)
(* many ticks as the divider asks of a single one.                          *)
THEOREM DividerNeverMoves == TimerSpec => []DividerStandsStill
  <1>1. TimerInit => DividerStandsStill
    BY DEF TimerInit, DividerStandsStill
  <1>2. DividerStandsStill /\ [TimerNext]_timerVars => DividerStandsStill'
    <2> SUFFICES ASSUME DividerStandsStill, [TimerNext]_timerVars PROVE DividerStandsStill'
      OBVIOUS
    <2> USE DEF DividerStandsStill
    <2>1. CASE TickTimer
      <3> PICK n \in TickCounts :
            TickStopped(n) \/ TickFatal(n) \/ TickWaiting(n) \/ TickCounting(n)
        BY <2>1 DEF TickTimer
      <3>1. TickDivider(n)
        BY DEF TickStopped, TickFatal, TickWaiting, TickCounting
      <3> QED
        BY <3>1, DividerKept
    <2>2. CASE WriteDivider \/ WriteCounter \/ WriteModulo \/ WriteTimerControl \/ AcknowledgeTimer
      BY <2>2 DEF WriteDivider, WriteCounter, WriteModulo, WriteTimerControl, AcknowledgeTimer
    <2>3. CASE UNCHANGED timerVars
      BY <2>3 DEF timerVars
    <2> QED
      BY <2>1, <2>2, <2>3 DEF TimerNext
  <1> QED
    BY <1>1, <1>2, PTL DEF TimerSpec

-----------------------------------------------------------------------------
(* As long as the sum of ticks has not overflowed since the counter moved,  *)
(* it is at least the ticks that passed since then, for it is never reset;  *)
(* so it reaches the period, whichever speed is chosen meanwhile.           *)
SumCoversRest ==
  ~overflowed => /\ since < Slowest
                 /\ ~failed => since <= ticks_

(* The counter never rests for a period of the slowest speed, until the sum *)
(* overflows.                                                               *)
THEOREM CounterPunctual == TimerSpec => []Punctual
  <1>1. TimerInit => SumCoversRest
    BY DEF TimerInit, SumCoversRest, Slowest
  <1>2. TimerTypeOK /\ SumCoversRest /\ [TimerNext]_timerVars => SumCoversRest'
    <2> SUFFICES ASSUME TimerTypeOK, SumCoversRest, [TimerNext]_timerVars PROVE SumCoversRest'
      OBVIOUS
    <2> USE DEF TimerTypeOK, SumCoversRest
    <2>1. CASE TickTimer
      <3> PICK n \in TickCounts :
            TickStopped(n) \/ TickFatal(n) \/ TickWaiting(n) \/ TickCounting(n)
        BY <2>1 DEF TickTimer
      <3>1. CASE TickStopped(n)
        BY <3>1 DEF TickStopped
      <3>2. CASE TickFatal(n)
        BY <3>2 DEF TickFatal
      <3>3. CASE TickWaiting(n)
        <4>1. SUFFICES ASSUME ~overflowed' PROVE since' < Slowest /\ since' <= ticks_'
          OBVIOUS
        <4>2. ~overflowed /\ ~Overflows(n) /\ ~failed
          BY <3>3, <4>1 DEF TickWaiting
        <4>3. since' = since + n /\ ticks_' = ticks_ + n
          BY <3>3, <4>1, <4>2, AddTicksType DEF TickWaiting
        <4>4. ticks_' < ticks_to_increment /\ HasSpeed
          BY <3>3 DEF TickWaiting
        <4>5. Slowest \in Nat
          BY DEF Slowest
        <4> QED
          BY <4>2, <4>3, <4>4, <4>5, TimerPeriods, TimerAssumption
      <3>4. CASE TickCounting(n)
        <4>1. since' = 0 /\ ticks_' >= ticks_to_increment /\ HasSpeed
          BY <3>4 DEF TickCounting
        <4>2. ticks_' \in Int
          BY <3>4, AddTicksType, TimerAssumption DEF TickCounting
        <4> QED
          BY <4>1, <4>2, TimerPeriods DEF Slowest
      <3> QED
        BY <3>1, <3>2, <3>3, <3>4
    <2>2. CASE WriteDivider \/ WriteCounter \/ WriteModulo \/ WriteTimerControl \/ AcknowledgeTimer
      BY <2>2 DEF WriteDivider, WriteCounter, WriteModulo, WriteTimerControl, AcknowledgeTimer, Kept
    <2>3. CASE UNCHANGED timerVars
      BY <2>3 DEF timerVars
    <2> QED
      BY <2>1, <2>2, <2>3 DEF TimerNext
  <1>3. SumCoversRest => Punctual
    BY DEF SumCoversRest, Punctual
  <1> QED
    BY <1>1, <1>2, <1>3, TimerTypeCorrect, PTL DEF TimerSpec

-----------------------------------------------------------------------------
(* Adding less than a period to a remainder goes around at most once.       *)
LEMMA RemainderOfSum ==
  ASSUME NEW p \in Nat \ {0}, NEW t \in 0 .. p - 1, NEW n \in 0 .. p - 1
  PROVE  (t + n) % p = IF t + n >= p THEN t + n - p ELSE t + n
  OBVIOUS

(* Quotient and remainder.                                                  *)
LEMMA Division ==
  ASSUME NEW p \in Nat \ {0}, NEW t \in Nat
  PROVE  /\ t \div p \in Nat
         /\ t % p \in 0 .. p - 1
         /\ t = p * (t \div p) + (t % p)
  OBVIOUS

(* The quotient and remainder of a number are the only ones.                *)
LEMMA DivisionIsUnique ==
  ASSUME NEW p \in Nat \ {0}, NEW q \in Nat, NEW r \in 0 .. p - 1
  PROVE  (q * p + r) \div p = q /\ (q * p + r) % p = r
  OBVIOUS

(* The quotient and remainder of a number within its first period.         *)
LEMMA InFirstPeriod ==
  ASSUME NEW p \in Nat \ {0}, NEW r \in 0 .. p - 1
  PROVE  r \div p = 0 /\ r % p = r
  OBVIOUS

(* A step of the clock stays in its line or enters the next.                *)
LEMMA NextLine ==
  ASSUME NEW p \in Nat \ {0}, NEW t \in Nat, NEW n \in 0 .. p - 1
  PROVE  IF (t % p) + n < p
         THEN (t + n) \div p = t \div p /\ (t + n) % p = (t % p) + n
         ELSE (t + n) \div p = (t \div p) + 1 /\ (t + n) % p = (t % p) + n - p
  <1> DEFINE q == t \div p  r == t % p
  <1>1. q \in Nat /\ r \in 0 .. p - 1 /\ t = p * q + r
    BY Division
  <1>2. CASE r + n < p
    <2>1. r + n \in 0 .. p - 1 /\ t + n = q * p + (r + n)
      BY <1>1, <1>2
    <2>2. \A s \in 0 .. p - 1 : (q * p + s) \div p = q /\ (q * p + s) % p = s
      BY <1>1, DivisionIsUnique
    <2> HIDE DEF q, r
    <2>3. (t + n) \div p = q /\ (t + n) % p = r + n
      BY <2>1, <2>2
    <2> QED
      BY <1>2, <2>3 DEF q, r
  <1>3. CASE ~(r + n < p)
    <2>1. r + n - p \in 0 .. p - 1 /\ q + 1 \in Nat
      BY <1>1, <1>3
    <2>2. t + n = (q + 1) * p + (r + n - p)
      BY <1>1
    <2>3. \A s \in 0 .. p - 1 : ((q + 1) * p + s) \div p = q + 1 /\ ((q + 1) * p + s) % p = s
      BY <2>1, DivisionIsUnique
    <2> HIDE DEF q, r
    <2>4. (t + n) \div p = q + 1 /\ (t + n) % p = r + n - p
      BY <2>1, <2>2, <2>3
    <2> QED
      BY <1>3, <2>4 DEF q, r
  <1> QED
    BY <1>2, <1>3

(* The line of a moment less than a line before another one.                *)
LEMMA LineBefore ==
  ASSUME NEW p \in Nat \ {0}, NEW t \in Nat, NEW u \in Nat, t <= u, u < t + p
  PROVE  t \div p \in {(u \div p) - 1, u \div p}
  <1>1. u - t \in 0 .. p - 1 /\ u = t + (u - t)
    OBVIOUS
  <1>2. u \div p \in {t \div p, (t \div p) + 1}
    BY <1>1, NextLine
  <1> QED
    BY <1>2, Division

-----------------------------------------------------------------------------
(* The constants as numbers, with what follows from their assumption.       *)
LEMMA Periods ==
  /\ kSmallPeriod \in Nat \ {0} /\ kLargePeriod \in Nat \ {0}
  /\ kVBlankLowerBound \in Nat \ {0}
  /\ kOAMLockedUpperBound \in Nat \ {0} /\ kVRAMOAMLockedUpperBound \in Nat \ {0}
  /\ kOAMLockedUpperBound < kVRAMOAMLockedUpperBound
  /\ kVRAMOAMLockedUpperBound + kOAMLockedUpperBound <= kSmallPeriod
  /\ kSmallPeriod <= kVBlankLowerBound
  /\ kVBlankLowerBound + kSmallPeriod < kLargePeriod
  /\ LastLine \in Nat
  /\ \A n \in CycleCounts : n \in Nat /\ 0 < n /\ n <= kOAMLockedUpperBound
  BY GraphicsAssumption

(* The mode of a moment of the frame.                                       *)
ModeAt(t) ==
  IF t > kVBlankLowerBound THEN "MODE_1"
  ELSE IF t % kSmallPeriod < kOAMLockedUpperBound THEN "MODE_2"
  ELSE IF t % kSmallPeriod < kVRAMOAMLockedUpperBound THEN "MODE_3"
  ELSE "MODE_0"

(* A tick that ends the frame.                                              *)
Ends(n) == time_ + n >= kLargePeriod

(* A tick by n reaches time Time(n).                                        *)
TickBy(n) ==
  /\ time_' = Time(n)
  /\ TickVBlank(n) \/ TickOAMLocked(n) \/ TickVRAMOAMLocked(n) \/ TickHBlank(n)

(* How a tick moves the clock.                                              *)
LEMMA ClockStep ==
  ASSUME time_ \in 0 .. kLargePeriod - 1, NEW n \in CycleCounts
  PROVE  Time(n) = IF Ends(n) THEN time_ + n - kLargePeriod ELSE time_ + n
  <1>1. n \in 0 .. kLargePeriod - 1
    BY Periods
  <1> QED
    BY <1>1, Periods, RemainderOfSum DEF Time, Ends

(* What every tick does to the mode and to the counts of the frame.         *)
LEMMA ClockCounts ==
  ASSUME time_ \in 0 .. kLargePeriod - 1, NEW n \in CycleCounts, TickBy(n)
  PROVE  /\ previous_mode_' = ModeAt(time_')
         /\ blanks' = (IF Ends(n) THEN 0 ELSE blanks)
                      + (IF time_' > kVBlankLowerBound /\ previous_mode_ # "MODE_1" THEN 1 ELSE 0)
         /\ lines' = (IF Ends(n) THEN 0 ELSE lines)
                     + (IF ModeAt(time_') = "MODE_2" /\ previous_mode_ # "MODE_2" THEN 1 ELSE 0)
         /\ whole' = (whole \/ Ends(n))
  <1>1. time_' = Time(n) /\ time_' \in Nat /\ time_' % kSmallPeriod \in Nat
    <2>1. Time(n) \in Nat
      BY ClockStep, Periods DEF Ends
    <2> QED
      BY <2>1, Periods, Division DEF TickBy
  <1>2. CASE TickVBlank(n)
    BY <1>1, <1>2, Periods DEF TickVBlank, EnterMode, Record, Enters, EntersVBlank, Ends, ModeAt
  <1>3. CASE TickOAMLocked(n)
    BY <1>1, <1>3, Periods DEF TickOAMLocked, EnterMode, Record, Enters, Advances, Ends, ModeAt
  <1>4. CASE TickVRAMOAMLocked(n)
    BY <1>1, <1>4, Periods DEF TickVRAMOAMLocked, EnterMode, Record, Ends, ModeAt
  <1>5. CASE TickHBlank(n)
    BY <1>1, <1>5, Periods DEF TickHBlank, EnterMode, Record, Ends, ModeAt
  <1> QED
    BY <1>2, <1>3, <1>4, <1>5 DEF TickBy

-----------------------------------------------------------------------------
(* The actions of the game leave the clock and the counts of the frame.     *)
LEMMA GameKeepsFrame ==
  ASSUME \/ WriteStatus \/ WriteControl \/ WriteLY \/ WriteCompare \/ Acknowledge
         \/ UNCHANGED vars
  PROVE  /\ UNCHANGED <<time_, previous_mode_, blanks, lines, whole>>
         /\ UNCHANGED <<oam_enabled_, vram_enabled_>>
  BY DEF WriteStatus, WriteControl, WriteLY, WriteCompare, Acknowledge, ClockKept,
         Undisturbed, Disturbed, vars, history

(* Types of what Next changes besides the clock.                            *)
LEMMA TickTypes ==
  ASSUME TypeOK, NEW n \in CycleCounts, TickBy(n)
  PROVE  TypeOK'
  <1> USE DEF TypeOK
  <1>1. time_' \in 0 .. kLargePeriod - 1
    BY ClockStep, Periods DEF TickBy, Ends
  <1>2. previous_mode_' \in Modes
    BY ClockCounts DEF ModeAt, Modes
  <1>3. blanks' \in Nat /\ lines' \in Nat
    BY ClockCounts
  <1>4. ly_coordinate' \in 0 .. LastLine
    <2>1. Increment \in 0 .. LastLine
      BY Periods DEF Increment
    <2>2. ly_coordinate' \in {ly_coordinate, Increment}
      BY DEF TickBy, TickVBlank, TickOAMLocked, TickVRAMOAMLocked, TickHBlank
    <2> QED
      BY <2>1, <2>2
  <1>5. UNCHANGED registers /\ oam_enabled_' \in BOOLEAN /\ vram_enabled_' \in BOOLEAN
    BY DEF TickBy, TickVBlank, TickOAMLocked, TickVRAMOAMLocked, TickHBlank, EnterMode
  <1>6. v_blank' \in BOOLEAN /\ lcd_stat' \in BOOLEAN
    BY Zenon DEF TickBy, TickVBlank, TickOAMLocked, TickVRAMOAMLocked, TickHBlank, EnterMode
  <1>7. whole' \in BOOLEAN /\ touched' \in BOOLEAN
    BY Zenon DEF TickBy, TickVBlank, TickOAMLocked, TickVRAMOAMLocked, TickHBlank, Record
  <1>8. drawn' \in BOOLEAN
    BY Zenon DEF TickBy, TickVBlank, TickOAMLocked, TickVRAMOAMLocked, TickHBlank, Record, Draws
  <1>9. gap' \in Nat
    <2>1. gap' \in {0, gap, gap + 0, gap + 1}
      BY DEF TickBy, TickVBlank, TickOAMLocked, TickVRAMOAMLocked, TickHBlank, Record
    <2> QED
      BY <2>1
  <1> QED
    BY <1>1, <1>2, <1>3, <1>4, <1>5, <1>6, <1>7, <1>8, <1>9 DEF registers

(* Every variable of the graphics controller keeps its type.                *)
THEOREM TypeCorrect == Spec => []TypeOK
  <1>1. Init => TypeOK
    <2> SUFFICES ASSUME Init PROVE TypeOK
      OBVIOUS
    <2>1. 0 \in 0 .. kLargePeriod - 1 /\ 0 \in 0 .. LastLine
      BY Periods
    <2>2. oam_enabled_ \in BOOLEAN /\ vram_enabled_ \in BOOLEAN /\ lcd_display_enable \in BOOLEAN
      BY DEF Init
    <2>3. v_blank \in BOOLEAN /\ lcd_stat \in BOOLEAN
      BY DEF Init
    <2>4. drawn \in BOOLEAN /\ whole \in BOOLEAN /\ touched \in BOOLEAN
      BY DEF Init
    <2> QED
      BY <2>1, <2>2, <2>3, <2>4 DEF Init, TypeOK
  <1>2. TypeOK /\ [Next]_vars => TypeOK'
    <2> SUFFICES ASSUME TypeOK, [Next]_vars PROVE TypeOK'
      OBVIOUS
    <2>1. CASE Tick
      BY <2>1, TickTypes DEF Tick, TickBy
    <2> USE DEF TypeOK
    <2>2. CASE WriteStatus
      BY <2>2, GameKeepsFrame DEF WriteStatus, registers, requests, Undisturbed
    <2>3. CASE WriteControl
      BY <2>3, GameKeepsFrame DEF WriteControl, requests, Disturbed
    <2>4. CASE WriteLY
      <3>1. ly_coordinate' \in 0 .. LastLine
        BY <2>4, Periods DEF WriteLY
      <3> QED
        BY <2>4, <3>1, GameKeepsFrame DEF WriteLY, registers, requests, Disturbed
    <2>5. CASE WriteCompare
      BY <2>5, GameKeepsFrame, GraphicsAssumption DEF WriteCompare, requests, Undisturbed
    <2>6. CASE Acknowledge
      BY <2>6, GameKeepsFrame DEF Acknowledge, registers, Undisturbed
    <2>7. CASE UNCHANGED vars
      BY <2>7 DEF vars, registers, requests, history
    <2> QED
      BY <2>1, <2>2, <2>3, <2>4, <2>5, <2>6, <2>7 DEF Next
  <1> QED
    BY <1>1, <1>2, PTL DEF Spec

-----------------------------------------------------------------------------
(* After its first tick the controller remembers the mode the clock is in.  *)
ModeFollowsClock ==
  /\ previous_mode_ = ModeAt(time_) \/ (time_ = 0 /\ ~whole)
  /\ (time_ = 0 /\ ~whole) => blanks = 0

(* A frame that was watched from its beginning has advanced LY once in each *)
(* line begun.                                                              *)
LinesFollowClock ==
  whole => IF time_ > kVBlankLowerBound
           THEN lines \in {Displayed, Displayed + 1}
           ELSE lines = (time_ \div kSmallPeriod) + 1

FrameInvariant == ModeFollowsClock /\ OneVBlankPerFrame /\ LinesFollowClock

(* A tick that ends the frame leads from its blank lines into line zero.    *)
LEMMA FrameEnds ==
  ASSUME time_ \in 0 .. kLargePeriod - 1, NEW n \in CycleCounts, TickBy(n), Ends(n)
  PROVE  /\ time_ > kVBlankLowerBound /\ time_ # 0
         /\ time_' <= kVBlankLowerBound /\ time_' \div kSmallPeriod = 0
         /\ ModeAt(time_') = "MODE_2"
  <1>1. time_' \in Nat /\ time_' < kOAMLockedUpperBound /\ time_' < kSmallPeriod
    BY ClockStep, Periods DEF TickBy, Ends
  <1>2. time_ > kVBlankLowerBound /\ time_ # 0
    BY Periods DEF Ends
  <1>3. time_' <= kVBlankLowerBound
    BY <1>1, Periods
  <1>4. time_' % kSmallPeriod = time_' /\ time_' \div kSmallPeriod = 0
    <2>1. time_' \in 0 .. kSmallPeriod - 1
      BY <1>1, Periods
    <2> QED
      BY <2>1, Periods, InFirstPeriod
  <1>5. ModeAt(time_') = "MODE_2"
    <2>1. ~(time_' > kVBlankLowerBound)
      BY <1>1, <1>3, Periods
    <2>2. time_' % kSmallPeriod < kOAMLockedUpperBound
      BY <1>1, <1>4
    <2> QED
      BY <2>1, <2>2 DEF ModeAt
  <1> QED
    BY <1>2, <1>3, <1>4, <1>5

(* One tick within a frame: LY advances as it enters a line, and no line is *)
(* skipped.                                                                 *)
LEMMA LinesStep ==
  ASSUME TypeOK, ModeFollowsClock, LinesFollowClock, NEW n \in CycleCounts, TickBy(n)
  PROVE  LinesFollowClock'
  <1> DEFINE p == kSmallPeriod  L == kVBlankLowerBound
  <1>1. time_ \in Nat /\ time_ < kLargePeriod /\ n \in Nat /\ 0 < n /\ lines \in Nat
    BY Periods DEF TypeOK
  <1>2. SUFFICES ASSUME whole'
        PROVE  IF time_' > L THEN lines' \in {Displayed, Displayed + 1}
               ELSE lines' = (time_' \div p) + 1
    BY DEF LinesFollowClock
  <1>3. CASE Ends(n)
    <2>1. previous_mode_ = "MODE_1" /\ time_' <= L /\ time_' \div p = 0 /\ ModeAt(time_') = "MODE_2"
      BY <1>1, <1>3, FrameEnds, Periods DEF ModeFollowsClock, ModeAt, TypeOK
    <2>2. lines' = 1
      BY <1>3, <2>1, ClockCounts DEF TypeOK
    <2>3. time_' \in Nat
      BY <1>1, ClockStep, Periods DEF TickBy, TypeOK, Ends
    <2>4. ~(time_' > L)
      BY <2>1, <2>3, Periods
    <2> QED
      BY <2>1, <2>2, <2>4
  <1>4. CASE ~Ends(n)
    <2>1. whole /\ time_' = time_ + n /\ previous_mode_ = ModeAt(time_)
      BY <1>2, <1>4, ClockStep, ClockCounts DEF TickBy, TypeOK, ModeFollowsClock
    <2>2. lines' = lines + (IF ModeAt(time_') = "MODE_2" /\ previous_mode_ # "MODE_2" THEN 1 ELSE 0)
      BY <1>4, ClockCounts DEF TypeOK
    <2>3. CASE time_ > L
      BY <1>1, <2>1, <2>2, <2>3, Periods DEF ModeAt, LinesFollowClock
    <2>4. CASE time_ <= L /\ time_' > L
      <3>1. lines' = lines /\ lines = (time_ \div p) + 1
        BY <1>1, <2>1, <2>2, <2>4, Periods DEF ModeAt, LinesFollowClock
      <3>2. time_ \div p \in {Displayed - 1, Displayed}
        BY <1>1, <2>1, <2>4, Periods, LineBefore DEF Displayed
      <3>3. Displayed \in Nat
        BY Periods, Division DEF Displayed
      <3> QED
        BY <2>4, <3>1, <3>2, <3>3
    <2>5. CASE time_' <= L
      <3> DEFINE r == time_ % p
      <3>1. r \in 0 .. p - 1 /\ time_' % p \in 0 .. p - 1 /\ time_ <= L
        <4>1. time_' \in Nat /\ time_ <= L
          BY <1>1, <2>1, <2>5, Periods
        <4>2. p \in Nat \ {0}
          BY Periods
        <4>3. time_ % p \in 0 .. p - 1 /\ time_' % p \in 0 .. p - 1
          BY <1>1, <4>1, <4>2, Division
        <4> QED
          BY <4>1, <4>3
      <3>2. lines = (time_ \div p) + 1
        BY <1>1, <2>1, <3>1, Periods DEF LinesFollowClock
      <3>3. IF r + n < p
            THEN time_' \div p = time_ \div p /\ time_' % p = r + n
            ELSE time_' \div p = (time_ \div p) + 1 /\ time_' % p = r + n - p
        <4>1. n \in 0 .. p - 1
          BY <1>1, Periods
        <4> QED
          BY <1>1, <2>1, <4>1, Periods, NextLine
      <3>4. time_ \div p \in Nat
        BY <1>1, Periods, Division
      <3> HIDE DEF r
      <3>5. CASE r + n < p
        <4>1. ~(ModeAt(time_') = "MODE_2" /\ previous_mode_ # "MODE_2")
          BY <1>1, <2>1, <2>5, <3>1, <3>3, <3>5, Periods DEF ModeAt, r
        <4> QED
          BY <2>2, <2>5, <3>2, <3>3, <3>4, <3>5, <4>1, <1>1, <2>1, Periods
      <3>6. CASE ~(r + n < p)
        <4>1. ModeAt(time_') = "MODE_2"
          BY <1>1, <2>1, <2>5, <3>1, <3>3, <3>6, Periods DEF ModeAt
        <4>2. previous_mode_ = "MODE_0"
          BY <1>1, <2>1, <3>1, <3>6, Periods DEF ModeAt, r
        <4> QED
          BY <2>2, <2>5, <3>2, <3>3, <3>4, <3>6, <4>1, <4>2, <1>1, <2>1, Periods
      <3> QED
        BY <3>5, <3>6
    <2> QED
      BY <1>1, <2>1, <2>3, <2>4, <2>5, Periods
  <1> QED
    BY <1>3, <1>4

(* A tick that records the mode of its clock keeps the two in step.         *)
LEMMA ModeFollows ==
  ASSUME previous_mode_' = ModeAt(time_'), time_' # 0 \/ whole'
  PROVE  ModeFollowsClock'
  <1>1. (previous_mode_ = ModeAt(time_))'
    BY DEF ModeAt
  <1> QED
    BY <1>1 DEF ModeFollowsClock

(* One tick and the V-blank request of its frame.                           *)
LEMMA BlanksStep ==
  ASSUME TypeOK, ModeFollowsClock, OneVBlankPerFrame, NEW n \in CycleCounts, TickBy(n)
  PROVE  ModeFollowsClock' /\ OneVBlankPerFrame'
  <1>1. time_ \in 0 .. kLargePeriod - 1 /\ n \in Nat /\ 0 < n /\ n <= kOAMLockedUpperBound
    BY Periods DEF TypeOK
  <1>2. previous_mode_' = ModeAt(time_')
    BY <1>1, ClockCounts
  <1>3. CASE Ends(n)
    <2>1. time_' \in Nat /\ time_' <= kVBlankLowerBound
      BY <1>1, <1>3, ClockStep, FrameEnds, Periods DEF TickBy, Ends
    <2>2. ~(time_' > kVBlankLowerBound)
      BY <2>1, Periods
    <2>3. blanks' = 0
      BY <1>1, <1>3, <2>2, ClockCounts
    <2>4. whole'
      BY <1>1, <1>3, ClockCounts
    <2> QED
      BY <1>2, <2>2, <2>3, <2>4, ModeFollows DEF OneVBlankPerFrame
  <1>4. CASE ~Ends(n)
    <2>1. time_' = time_ + n
      BY <1>1, <1>4, ClockStep DEF TickBy
    <2>2. blanks' = blanks
                    + (IF time_' > kVBlankLowerBound /\ previous_mode_ # "MODE_1" THEN 1 ELSE 0)
      BY <1>1, <1>4, ClockCounts
    <2>3. time_' > kVBlankLowerBound => previous_mode_ = ModeAt(time_)
      BY <1>1, <2>1, Periods DEF ModeFollowsClock
    <2>4. previous_mode_ = ModeAt(time_) =>
            (previous_mode_ = "MODE_1" <=> time_ > kVBlankLowerBound)
      BY DEF ModeAt
    <2>5. OneVBlankPerFrame'
      BY <1>1, <2>1, <2>2, <2>3, <2>4, Periods DEF OneVBlankPerFrame
    <2>6. time_' # 0
      BY <1>1, <2>1, Periods
    <2> QED
      BY <1>2, <2>5, <2>6, ModeFollows
  <1> QED
    BY <1>3, <1>4

(* Every step keeps the invariant of the frame: ticks by the two lemmas     *)
(* above, and the game writes nothing that it relates.                      *)
LEMMA FrameStep == TypeOK /\ FrameInvariant /\ [Next]_vars => FrameInvariant'
  <1> SUFFICES ASSUME TypeOK, FrameInvariant, [Next]_vars PROVE FrameInvariant'
    OBVIOUS
  <1> USE DEF FrameInvariant
  <1>1. CASE Tick
    <2> PICK n \in CycleCounts : TickBy(n)
      BY <1>1 DEF Tick, TickBy
    <2> QED
      BY LinesStep, BlanksStep
  <1>2. CASE \/ WriteStatus \/ WriteControl \/ WriteLY \/ WriteCompare \/ Acknowledge
             \/ UNCHANGED vars
    BY <1>2, GameKeepsFrame
    DEF ModeFollowsClock, OneVBlankPerFrame, LinesFollowClock, ModeAt
  <1> QED
    BY <1>1, <1>2 DEF Next

(* So the invariant of the frame always holds.                              *)
LEMMA FrameHolds == Spec => []FrameInvariant
  <1>1. Init => FrameInvariant
    BY Periods
    DEF Init, FrameInvariant, ModeFollowsClock, OneVBlankPerFrame, LinesFollowClock
  <1> QED
    BY <1>1, FrameStep, TypeCorrect, PTL DEF Spec

(* A frame requests one V-blank interrupt, when its blank lines begin.      *)
THEOREM VBlankOncePerFrame == Spec => []OneVBlankPerFrame
  BY FrameHolds, PTL DEF FrameInvariant

(* A frame advances LY once for each line displayed, and once more if a     *)
(* tick falls on the very end of the last.                                  *)
THEOREM LinesCounted == Spec => []LinesPerFrame
  <1>1. FrameInvariant => LinesPerFrame
    BY DEF FrameInvariant, LinesFollowClock, LinesPerFrame
  <1> QED
    BY <1>1, FrameHolds, PTL
-----------------------------------------------------------------------------
(* The lines LY runs over.                                                  *)
Pass == LastLine + 1

(* A pass of LY, begun by a drawing: LY counts the advances since; it is    *)
(* back at zero in mode 2, whence mode 3 and a drawing follow, but for the  *)
(* end of the last line displayed, whence the blank lines do.  In that case *)
(* the second pass has run for as many lines as the frames since have begun.*)
PassInvariant ==
  ~touched =>
    /\ lcd_display_enable
    /\ previous_mode_ = ModeAt(time_)
    /\ gap <= 2 * Pass
    /\ ly_coordinate = IF gap < Pass THEN gap
                       ELSE IF gap < 2 * Pass THEN gap - Pass ELSE 0
    /\ gap = 0 => previous_mode_ # "MODE_2"
    /\ gap = Pass => previous_mode_ \in {"MODE_1", "MODE_2"}
    /\ gap = 2 * Pass => previous_mode_ = "MODE_2"
    /\ gap > Pass => /\ whole
                     /\ gap - Pass \in {lines, Displayed + lines, Displayed + 1 + lines}

(* A moment in an earlier line than another is at least what is left of its *)
(* own line before it.                                                      *)
LEMMA LineEnds ==
  ASSUME NEW p \in Nat \ {0}, NEW t \in Nat, NEW u \in Nat, t <= u, t \div p < u \div p
  PROVE  t - (t % p) + p <= u
  <1> DEFINE q == t \div p  r == t % p
  <1>1. q \in Nat /\ r \in 0 .. p - 1 /\ t = p * q + r
    BY Division
  <1>2. ASSUME u < t - r + p PROVE FALSE
    <2>1. u - t + r \in 0 .. p - 1 /\ u = q * p + (u - t + r)
      BY <1>1, <1>2
    <2>2. \A s \in 0 .. p - 1 : (q * p + s) \div p = q
      BY <1>1, DivisionIsUnique
    <2> HIDE DEF q, r
    <2>3. u \div p = q
      BY <2>1, <2>2
    <2> QED
      BY <1>1, <2>3 DEF q
  <1> QED
    BY <1>1, <1>2

(* Which mode may follow which: mode 3 follows mode 2 only, and mode 2 is   *)
(* left for the blank lines only where those of the display end.            *)
LEMMA ModeMoves ==
  ASSUME TypeOK, previous_mode_ = ModeAt(time_), NEW n \in CycleCounts, TickBy(n)
  PROVE  /\ Ends(n) => previous_mode_ = "MODE_1" /\ ModeAt(time_') = "MODE_2"
         /\ previous_mode_ = "MODE_1" /\ ~Ends(n) => ModeAt(time_') = "MODE_1"
         /\ ModeAt(time_') = "MODE_3" => previous_mode_ \in {"MODE_2", "MODE_3"}
         /\ previous_mode_ = "MODE_2" => ModeAt(time_') # "MODE_0"
         /\ previous_mode_ = "MODE_2" /\ time_ \div kSmallPeriod < Displayed
              => ModeAt(time_') # "MODE_1"
  <1> DEFINE p == kSmallPeriod  L == kVBlankLowerBound  r == time_ % p
  <1>1. time_ \in Nat /\ time_ \in 0 .. kLargePeriod - 1 /\ n \in Nat /\ 0 < n
        /\ n <= kOAMLockedUpperBound /\ p \in Nat \ {0} /\ n \in 0 .. p - 1
    BY Periods DEF TypeOK
  <1>2. CASE Ends(n)
    BY <1>1, <1>2, FrameEnds, Periods DEF ModeAt
  <1>3. CASE ~Ends(n)
    <2>1. time_' = time_ + n
      BY <1>1, <1>3, ClockStep DEF TickBy
    <2>2. r \in 0 .. p - 1
      BY <1>1, Division
    <2>3. IF r + n < p THEN time_' % p = r + n ELSE time_' % p = r + n - p
      BY <1>1, <2>1, NextLine
    <2>4. previous_mode_ = "MODE_1" => ModeAt(time_') = "MODE_1"
      BY <1>1, <2>1, Periods DEF ModeAt
    <2>5. 2 * kOAMLockedUpperBound <= kVRAMOAMLockedUpperBound
      BY GraphicsAssumption
    <2>6. previous_mode_ = "MODE_2" => time_ <= L /\ r < kOAMLockedUpperBound
      BY <1>1, Periods DEF ModeAt
    <2>7. previous_mode_ = "MODE_2" /\ time_ \div p < Displayed => ~(time_' > L)
      <3> SUFFICES ASSUME previous_mode_ = "MODE_2", time_ \div p < Displayed
                   PROVE  ~(time_' > L)
        OBVIOUS
      <3>1. time_ - r + p <= L
        BY <1>1, <2>6, Periods, LineEnds DEF Displayed
      <3> HIDE DEF r
      <3> QED
        BY <1>1, <2>1, <2>2, <2>5, <2>6, <3>1, Periods
    <2>8. previous_mode_ = "MODE_0" /\ ~(time_' > L) => ModeAt(time_') \in {"MODE_0", "MODE_2"}
      <3>1. previous_mode_ = "MODE_0" => r >= kVRAMOAMLockedUpperBound
        BY <1>1, <2>2, Periods DEF ModeAt
      <3> HIDE DEF r
      <3> QED
        BY <1>1, <2>2, <2>3, <3>1, Periods DEF ModeAt
    <2>9. previous_mode_ = "MODE_2" => ModeAt(time_') # "MODE_0"
      <3> HIDE DEF r
      <3> QED
        BY <1>1, <2>2, <2>3, <2>5, <2>6, Periods DEF ModeAt
    <2>10. /\ time_' > L => ModeAt(time_') = "MODE_1"
           /\ ~(time_' > L) => ModeAt(time_') # "MODE_1"
      BY DEF ModeAt
    <2>11. previous_mode_ \in Modes
      BY DEF ModeAt, Modes
    <2> QED
      BY <1>3, <2>4, <2>7, <2>8, <2>9, <2>10, <2>11 DEF Modes
  <1> QED
    BY <1>2, <1>3

(* What a tick does to LY and to the history of the drawings.               *)
EntersMode2 == ModeAt(time_') = "MODE_2" /\ previous_mode_ # "MODE_2"
EntersMode3 == ModeAt(time_') = "MODE_3" /\ previous_mode_ # "MODE_3"

LEMMA DrawCounts ==
  ASSUME TypeOK, NEW n \in CycleCounts, TickBy(n)
  PROVE  /\ drawn' <=> EntersMode3 /\ lcd_display_enable /\ ly_coordinate = 0
         /\ ly_coordinate' = IF EntersMode2 THEN Increment ELSE ly_coordinate
         /\ touched' <=> touched /\ ~drawn'
         /\ gap' = IF drawn' \/ touched THEN 0
                   ELSE IF gap < MaxGap /\ EntersMode2 THEN gap + 1 ELSE gap
         /\ UNCHANGED lcd_display_enable
  <1>1. previous_mode_' = ModeAt(time_')
    BY ClockCounts DEF TypeOK
  <1>2. gap \in Nat
    BY DEF TypeOK
  <1>3. ASSUME NEW line \in {0, 1}, NEW blank, NEW draw \in BOOLEAN, Record(n, blank, line, draw)
        PROVE  /\ drawn' <=> draw
               /\ touched' <=> touched /\ ~draw
               /\ draw \/ touched => gap' = 0
               /\ ~(draw \/ touched) =>
                    gap' = IF gap < MaxGap /\ line = 1 THEN gap + 1 ELSE gap
    <2>1. (drawn' <=> draw) /\ (touched' <=> touched /\ ~draw)
      BY <1>3, Zenon DEF Record
    <2>2. draw \/ touched => gap' = 0
      BY <1>3, Zenon DEF Record
    <2>3. ~(draw \/ touched) => gap' = IF gap < MaxGap THEN gap + line ELSE gap
      BY <1>3, Zenon DEF Record
    <2>4. gap + line = IF line = 1 THEN gap + 1 ELSE gap
      BY <1>2
    <2> QED
      BY <2>1, <2>2, <2>3, <2>4
  <1>4. UNCHANGED lcd_display_enable
    BY DEF TickBy, TickVBlank, TickOAMLocked, TickVRAMOAMLocked, TickHBlank, EnterMode, registers
  <1>5. CASE TickVBlank(n) \/ TickHBlank(n)
    <2>1. ~EntersMode2 /\ ~EntersMode3
      BY <1>1, <1>5 DEF TickVBlank, TickHBlank, EnterMode, EntersMode2, EntersMode3
    <2>2. PICK blank : Record(n, blank, 0, FALSE)
      BY <1>5, Zenon DEF TickVBlank, TickHBlank
    <2>3. ly_coordinate' = ly_coordinate
      BY <1>5 DEF TickVBlank, TickHBlank
    <2>4. /\ ~drawn' /\ (touched' <=> touched)
          /\ touched => gap' = 0
          /\ ~touched => gap' = IF gap < MaxGap THEN gap + 0 ELSE gap
      BY <2>2, Zenon DEF Record
    <2> QED
      BY <1>2, <1>4, <2>1, <2>3, <2>4
  <1>6. CASE TickOAMLocked(n)
    <2> DEFINE line == IF Advances THEN 1 ELSE 0
    <2>1. (EntersMode2 <=> Advances) /\ ~EntersMode3
      BY <1>1, <1>6 DEF TickOAMLocked, EnterMode, EntersMode2, EntersMode3, Advances, Enters
    <2>2. Record(n, 0, line, FALSE)
      BY <1>6, Zenon DEF TickOAMLocked
    <2>3. line \in {0, 1} /\ (line = 1 <=> Advances)
      OBVIOUS
    <2>4. ly_coordinate' = IF Advances THEN Increment ELSE ly_coordinate
      BY <1>6 DEF TickOAMLocked
    <2> HIDE DEF line
    <2>5. /\ ~drawn' /\ (touched' <=> touched)
          /\ touched => gap' = 0
          /\ ~touched => gap' = IF gap < MaxGap /\ line = 1 THEN gap + 1 ELSE gap
      BY <1>3, <2>2, <2>3
    <2> QED
      BY <1>4, <2>1, <2>4, <2>5, <2>3
  <1>7. CASE TickVRAMOAMLocked(n)
    <2>1. ~EntersMode2 /\ (EntersMode3 <=> Enters("MODE_3"))
      BY <1>1, <1>7 DEF TickVRAMOAMLocked, EnterMode, EntersMode2, EntersMode3, Enters
    <2>2. Draws \in BOOLEAN
      BY DEF Draws, Enters, TypeOK
    <2>3. Record(n, 0, 0, Draws) /\ ly_coordinate' = ly_coordinate
      BY <1>7 DEF TickVRAMOAMLocked
    <2>4. /\ drawn' <=> Draws
          /\ touched' <=> touched /\ ~Draws
          /\ Draws \/ touched => gap' = 0
          /\ ~(Draws \/ touched) => gap' = gap
      BY <1>3, <2>2, <2>3
    <2>5. Draws <=> EntersMode3 /\ lcd_display_enable /\ ly_coordinate = 0
      BY <2>1, Zenon DEF Draws
    <2> HIDE DEF Draws
    <2> QED
      BY <1>4, <2>1, <2>3, <2>4, <2>5
  <1> QED
    BY <1>5, <1>6, <1>7 DEF TickBy

(* The quotient of a lesser number is no greater.                           *)
LEMMA DivisionMonotone ==
  ASSUME NEW p \in Nat \ {0}, NEW t \in Nat, NEW u \in Nat, t <= u
  PROVE  t \div p <= u \div p
  <1> DEFINE q == t \div p  s == u \div p
  <1>1. /\ q \in Nat /\ p * q <= t
        /\ s \in Nat /\ u < p * s + p
    <2>1. t % p \in 0 .. p - 1 /\ u % p \in 0 .. p - 1
          /\ t = p * q + (t % p) /\ u = p * s + (u % p) /\ q \in Nat /\ s \in Nat
      BY Division
    <2> QED
      BY <2>1
  <1> HIDE DEF q, s
  <1>2. ASSUME s + 1 <= q PROVE FALSE
    <2>1. q - s - 1 \in Nat
      BY <1>1, <1>2
    <2>2. p * q = p * s + p + p * (q - s - 1) /\ p * (q - s - 1) \in Nat
      BY <1>1, <2>1
    <2> QED
      BY <1>1, <2>1, <2>2
  <1> QED
    BY <1>1, <1>2 DEF q, s

(* What the invariants say of numbers.                                      *)
LEMMA PassNumbers ==
  ASSUME TypeOK
  PROVE  /\ Pass \in Nat /\ 2 <= Pass /\ Displayed \in Nat
         /\ Pass # Displayed + 1 /\ Pass <= 2 * Displayed
         /\ LastLine = Pass - 1 /\ MaxGap = 3 * Pass
         /\ gap \in Nat /\ lines \in Nat /\ ly_coordinate \in Nat /\ time_ \in Nat
  <1>1. LastLine \in Nat \ {0} /\ Displayed \in Nat
    BY GraphicsAssumption, Periods, Division DEF Displayed
  <1>2. LastLine # Displayed /\ LastLine < 2 * Displayed
    BY PassAssumption
  <1> QED
    BY <1>1, <1>2 DEF Pass, MaxGap, TypeOK

(* After a drawing a pass begins.                                           *)
LEMMA PassBegins ==
  ASSUME TypeOK, NEW n \in CycleCounts, TickBy(n), drawn'
  PROVE  PassInvariant'
  <1>1. EntersMode3 /\ lcd_display_enable' /\ ly_coordinate' = 0 /\ gap' = 0
    <2>1. EntersMode3 /\ lcd_display_enable /\ ly_coordinate = 0
      BY DrawCounts
    <2>2. ~EntersMode2
      BY <2>1 DEF EntersMode2, EntersMode3
    <2> QED
      BY <2>1, <2>2, DrawCounts
  <1>2. (previous_mode_ = ModeAt(time_))' /\ previous_mode_' = "MODE_3"
    <2>1. previous_mode_' = ModeAt(time_')
      BY ClockCounts DEF TypeOK
    <2> QED
      BY <1>1, <2>1 DEF EntersMode3, ModeAt
  <1> QED
    BY <1>1, <1>2, PassNumbers DEF PassInvariant

(* A pass goes on by a line.                                                *)
LEMMA PassAdvances ==
  ASSUME TypeOK, FrameInvariant, PassInvariant, ~touched,
         NEW n \in CycleCounts, TickBy(n), ~drawn', EntersMode2
  PROVE  PassInvariant'
  <1>1. /\ lcd_display_enable /\ previous_mode_ = ModeAt(time_)
        /\ gap <= 2 * Pass /\ gap # 2 * Pass
        /\ ly_coordinate = IF gap < Pass THEN gap ELSE gap - Pass
        /\ gap = Pass => previous_mode_ = "MODE_1"
        /\ gap > Pass => whole /\ gap - Pass \in {lines, Displayed + lines, Displayed + 1 + lines}
    BY PassNumbers DEF PassInvariant, EntersMode2
  <1>2. /\ gap' = gap + 1 /\ ly_coordinate' = Increment /\ ~touched' /\ lcd_display_enable'
    <2>1. gap < MaxGap
      BY <1>1, PassNumbers
    <2>2. gap' = gap + 1
      BY <2>1, <1>1, DrawCounts
    <2>3. ly_coordinate' = Increment
      BY <1>1, DrawCounts
    <2>4. ~touched' /\ lcd_display_enable'
      BY <1>1, DrawCounts
    <2> QED
      BY <2>2, <2>3, <2>4
  <1>3. /\ previous_mode_' = "MODE_2" /\ (previous_mode_ = ModeAt(time_))'
        /\ lines' = (IF Ends(n) THEN 0 ELSE lines) + 1
        /\ whole' <=> whole \/ Ends(n)
    <2>1. previous_mode_' = ModeAt(time_')
      BY ClockCounts DEF TypeOK
    <2> QED
      BY <2>1, ClockCounts DEF EntersMode2, TypeOK, ModeAt
  <1>4. ly_coordinate' = IF gap' < Pass THEN gap' ELSE IF gap' < 2 * Pass THEN gap' - Pass ELSE 0
    BY <1>1, <1>2, PassNumbers DEF Increment
  <1>5. ASSUME gap = Pass
        PROVE  whole' /\ gap' - Pass = lines'
    <2>1. Ends(n)
      BY <1>1, <1>5, ModeMoves DEF EntersMode2
    <2> QED
      BY <1>2, <1>3, <1>5, <2>1, PassNumbers
  <1>6. ASSUME gap > Pass
        PROVE  whole' /\ gap' - Pass \in {lines', Displayed + lines', Displayed + 1 + lines'}
    <2>1. CASE ~Ends(n)
      BY <1>1, <1>2, <1>3, <1>6, <2>1, PassNumbers
    <2>2. CASE Ends(n)
      <3>1. time_ > kVBlankLowerBound
        BY <1>1, <2>2, FrameEnds DEF TypeOK
      <3>2. lines \in {Displayed, Displayed + 1}
        BY <1>1, <1>6, <3>1 DEF FrameInvariant, LinesFollowClock
      <3> QED
        BY <1>1, <1>2, <1>3, <1>6, <2>2, <3>2, PassNumbers
    <2> QED
      BY <2>1, <2>2
  <1>7. gap' > Pass => gap = Pass \/ gap > Pass
    BY <1>2, PassNumbers
  <1> QED
    BY <1>1, <1>2, <1>3, <1>4, <1>5, <1>6, <1>7, PassNumbers DEF PassInvariant

(* A pass stays in its line.                                                *)
LEMMA PassStays ==
  ASSUME TypeOK, FrameInvariant, PassInvariant, ~touched,
         NEW n \in CycleCounts, TickBy(n), ~drawn', ~EntersMode2
  PROVE  PassInvariant'
  <1>1. /\ lcd_display_enable /\ previous_mode_ = ModeAt(time_) /\ gap <= 2 * Pass
        /\ ly_coordinate = IF gap < Pass THEN gap
                           ELSE IF gap < 2 * Pass THEN gap - Pass ELSE 0
        /\ gap = 0 => previous_mode_ # "MODE_2"
        /\ gap = Pass => previous_mode_ \in {"MODE_1", "MODE_2"}
        /\ gap = 2 * Pass => previous_mode_ = "MODE_2"
        /\ gap > Pass => whole /\ gap - Pass \in {lines, Displayed + lines, Displayed + 1 + lines}
    BY DEF PassInvariant
  <1>2. /\ gap' = gap /\ ly_coordinate' = ly_coordinate /\ ~touched' /\ lcd_display_enable'
    BY <1>1, DrawCounts
  <1>3. ~Ends(n)
    BY <1>1, ModeMoves DEF EntersMode2
  <1>4. /\ previous_mode_' = ModeAt(time_') /\ (previous_mode_ = ModeAt(time_))'
        /\ lines' = lines /\ (whole' <=> whole)
    <2>1. previous_mode_' = ModeAt(time_')
      BY ClockCounts DEF TypeOK
    <2>2. lines' = lines + 0
      BY <1>3, ClockCounts DEF EntersMode2, TypeOK
    <2>3. whole' <=> whole
      BY <1>3, ClockCounts DEF TypeOK
    <2> QED
      BY <2>1, <2>2, <2>3, PassNumbers DEF ModeAt
  <1>5. gap = 0 => previous_mode_' # "MODE_2"
    BY <1>1, <1>4 DEF EntersMode2
  <1>6. previous_mode_ = "MODE_2" /\ ly_coordinate = 0 => previous_mode_' \in {"MODE_1", "MODE_2"}
    <2>1. ModeAt(time_') \in Modes
      BY DEF ModeAt, Modes
    <2> QED
      BY <1>1, <1>4, <2>1, ModeMoves, DrawCounts DEF Modes, EntersMode3
  <1>7. gap = Pass => previous_mode_' \in {"MODE_1", "MODE_2"}
    BY <1>1, <1>3, <1>4, <1>6, ModeMoves, PassNumbers
  <1>8. ASSUME gap = 2 * Pass PROVE previous_mode_' = "MODE_2"
    <2>1. previous_mode_ = "MODE_2" /\ ly_coordinate = 0 /\ whole
          /\ Pass \in {lines, Displayed + lines, Displayed + 1 + lines}
      BY <1>1, <1>8, PassNumbers
    <2>2. time_ <= kVBlankLowerBound
      BY <1>1, <2>1, PassNumbers, Periods DEF ModeAt
    <2>3. lines = (time_ \div kSmallPeriod) + 1
      BY <2>1, <2>2, PassNumbers, Periods DEF FrameInvariant, LinesFollowClock
    <2>4. time_ \div kSmallPeriod <= Displayed /\ time_ \div kSmallPeriod \in Nat
      BY <2>2, DivisionMonotone, Division, Periods, PassNumbers DEF Displayed
    <2>5. time_ \div kSmallPeriod < Displayed
      BY <2>1, <2>3, <2>4, PassNumbers
    <2> QED
      BY <1>1, <1>4, <1>6, <2>1, <2>5, ModeMoves
  <1> QED
    BY <1>1, <1>2, <1>4, <1>5, <1>7, <1>8 DEF PassInvariant

(* One tick of a pass.                                                      *)
LEMMA PassStep ==
  ASSUME TypeOK, FrameInvariant, PassInvariant, NEW n \in CycleCounts, TickBy(n)
  PROVE  PassInvariant' /\ (drawn' => touched \/ gap \in {Pass, 2 * Pass})
  <1>1. CASE drawn'
    <2>1. ASSUME ~touched PROVE gap \in {Pass, 2 * Pass}
      <3>1. EntersMode3 /\ ly_coordinate = 0
        BY <1>1, DrawCounts
      <3>2. previous_mode_ = "MODE_2"
        BY <2>1, <3>1, ModeMoves DEF EntersMode3, PassInvariant
      <3> QED
        BY <2>1, <3>1, <3>2, PassNumbers DEF PassInvariant
    <2> QED
      BY <1>1, <2>1, PassBegins
  <1>2. CASE ~drawn' /\ touched
    BY <1>2, DrawCounts DEF PassInvariant
  <1>3. CASE ~drawn' /\ ~touched
    BY <1>3, PassAdvances, PassStays
  <1> QED
    BY <1>1, <1>2, <1>3

(* The game's writes of LY and of the display end a pass, the others leave  *)
(* it.                                                                      *)
LEMMA PassKept ==
  ASSUME PassInvariant,
         \/ WriteStatus \/ WriteControl \/ WriteLY \/ WriteCompare \/ Acknowledge
         \/ UNCHANGED vars
  PROVE  PassInvariant'
  <1>1. CASE WriteControl \/ WriteLY
    BY <1>1 DEF WriteControl, WriteLY, Disturbed, PassInvariant
  <1>2. CASE WriteStatus \/ WriteCompare \/ Acknowledge \/ UNCHANGED vars
    <2>1. /\ UNCHANGED <<time_, previous_mode_, lines, whole>>
      BY <1>2, GameKeepsFrame
    <2>2. UNCHANGED <<touched, gap, ly_coordinate, lcd_display_enable>>
      BY <1>2 DEF WriteStatus, WriteCompare, Acknowledge, Undisturbed, vars, history, registers
    <2> QED
      BY <2>1, <2>2 DEF PassInvariant, ModeAt
  <1> QED
    BY <1>1, <1>2

(* If the game leaves LY and the display alone, LY passes every line once   *)
(* or twice between two drawings.                                           *)
THEOREM DrawingsApart == Spec => DrawsApart
  <1>1. Init => PassInvariant
    BY DEF Init, PassInvariant
  <1>2. TypeOK /\ FrameInvariant /\ PassInvariant /\ [Next]_vars
          => /\ PassInvariant'
             /\ [drawn' => touched \/ gap \in {LastLine + 1, 2 * (LastLine + 1)}]_vars
    <2> SUFFICES ASSUME TypeOK, FrameInvariant, PassInvariant, [Next]_vars
                 PROVE  /\ PassInvariant'
                        /\ [drawn' => touched \/ gap \in {LastLine + 1, 2 * (LastLine + 1)}]_vars
      OBVIOUS
    <2>1. CASE Tick
      <3> PICK n \in CycleCounts : TickBy(n)
        BY <2>1 DEF Tick, TickBy
      <3> QED
        BY PassStep DEF Pass
    <2>2. CASE \/ WriteStatus \/ WriteControl \/ WriteLY \/ WriteCompare \/ Acknowledge
               \/ UNCHANGED vars
      <3>1. ~drawn' \/ UNCHANGED vars
        BY <2>2 DEF WriteStatus, WriteControl, WriteLY, WriteCompare, Acknowledge,
                    Undisturbed, Disturbed
      <3> QED
        BY <2>2, <3>1, PassKept
    <2> QED
      BY <2>1, <2>2 DEF Next
  <1> QED
    BY <1>1, <1>2, TypeCorrect, FrameHolds, PTL DEF Spec, DrawsApart
=============================================================================
