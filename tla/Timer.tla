------------------------------- MODULE Timer -------------------------------
(***************************************************************************)
(* The timer (cc/backend/memory/timer): DIV, TIMA, TMA and TAC, advanced   *)
(* by Memory::Tick after each instruction by the ticks it took, written by *)
(* the game at any moment between, and its request in IF.                  *)
(*                                                                         *)
(* divider_flag_.ticks_, which is written and never read, is left out.     *)
(***************************************************************************)
EXTENDS Integers

CONSTANTS
  TickCounts,     \* what an instruction may take, 4 to 32
  Top,            \* the greatest value of a flag: 0xff
  MaxInt,         \* and of an int
  Values          \* what the game writes to TIMA and TMA

ASSUME TimerAssumption ==
  /\ TickCounts \subseteq 1 .. 32
  /\ Top \in Nat
  /\ MaxInt \in Nat /\ MaxInt > 32
  /\ Values \subseteq 0 .. Top

VARIABLES
  ticks_,         \* an int
  divider_flag_, timer_counter_, timer_modulo_, timer_control_,
  timer,          \* the request in InterruptFlag
  failed,         \* LOG(FATAL)
  since,          \* history: ticks while running since the counter last moved
  overflowed      \* history: ticks_ has overflowed since then

timerVars ==
  <<ticks_, divider_flag_, timer_counter_, timer_modulo_, timer_control_,
    timer, failed, since, overflowed>>

Flag == 0 .. Top

TimerInit ==
  /\ ticks_ = 0
  /\ divider_flag_ = 0 /\ timer_counter_ = 0 /\ timer_modulo_ = 0 /\ timer_control_ = 0
  /\ timer = FALSE /\ failed = FALSE
  /\ since = 0 /\ overflowed = FALSE

-----------------------------------------------------------------------------
(* The case for 16384 Hz is 4, which two bits do not reach; 3 has no case.  *)
HasSpeed == timer_control_ % 4 # 3

timer_speed ==
  CASE timer_control_ % 4 = 0 -> 4096
    [] timer_control_ % 4 = 1 -> 262144
    [] timer_control_ % 4 = 2 -> 65536

is_timer_running == timer_control_ \div 4 = 1

ticks_to_increment == 4194304 \div timer_speed

Slowest == 4194304 \div 4096

(* The overflow of a signed sum, which this build lets wrap around.         *)
Overflows(n) == ticks_ + n > MaxInt

(* Mutant: the sum starts again below zero when it overflows or is spent.   *)
AddTicks_Restarted(n) ==
  IF ticks_ + n >= Slowest THEN 0 - Slowest ELSE ticks_ + n

AddTicks(n) == IF Overflows(n) THEN ticks_ + n - 2 * (MaxInt + 1) ELSE ticks_ + n

(* The divider looks at the ticks of this instruction only.                 *)
kTicksToIncrement == 256

TickDivider(n) ==
  divider_flag_' = IF n >= kTicksToIncrement
                   THEN (divider_flag_ + 1) % (Top + 1) ELSE divider_flag_

TickStopped(n) ==
  /\ ~failed /\ ~is_timer_running
  /\ TickDivider(n)
  /\ UNCHANGED <<ticks_, timer_counter_, timer_modulo_, timer_control_, timer, failed,
                 since, overflowed>>

(* Enabling the timer at the speed that has no case ends the emulator.      *)
TickFatal(n) ==
  /\ ~failed /\ is_timer_running /\ ~HasSpeed
  /\ TickDivider(n)
  /\ ticks_' = AddTicks(n)
  /\ failed' = TRUE
  /\ UNCHANGED <<timer_counter_, timer_modulo_, timer_control_, timer, since, overflowed>>

TickWaiting(n) ==
  /\ ~failed /\ is_timer_running /\ HasSpeed
  /\ TickDivider(n)
  /\ ticks_' = AddTicks(n)
  /\ ticks_' < ticks_to_increment
  /\ overflowed' = (overflowed \/ Overflows(n))
  /\ since' = IF overflowed' THEN 0 ELSE since + n
  /\ UNCHANGED <<timer_counter_, timer_modulo_, timer_control_, timer, failed>>

(* Mutant: the request is left to the next pass of the counter.             *)
Reload_Silent ==
  /\ timer_counter_' = timer_modulo_
  /\ UNCHANGED timer

Reload ==
  /\ timer_counter_' = timer_modulo_
  /\ timer' = TRUE

(* ticks_ is not reset: from here on every tick advances the counter.       *)
TickCounting(n) ==
  /\ ~failed /\ is_timer_running /\ HasSpeed
  /\ TickDivider(n)
  /\ ticks_' = AddTicks(n)
  /\ ticks_' >= ticks_to_increment
  /\ IF timer_counter_ = Top
     THEN Reload
     ELSE timer_counter_' = timer_counter_ + 1 /\ UNCHANGED timer
  /\ since' = 0 /\ overflowed' = FALSE
  /\ UNCHANGED <<timer_modulo_, timer_control_, failed>>

TickTimer ==
  \E n \in TickCounts : TickStopped(n) \/ TickFatal(n) \/ TickWaiting(n) \/ TickCounting(n)

-----------------------------------------------------------------------------
(* The game writes the registers.                                           *)
Kept == UNCHANGED <<ticks_, timer, failed, since, overflowed>>

WriteDivider ==
  /\ ~failed
  /\ divider_flag_' = 0
  /\ UNCHANGED <<timer_counter_, timer_modulo_, timer_control_>> /\ Kept

WriteCounter ==
  /\ ~failed
  /\ timer_counter_' \in Values
  /\ UNCHANGED <<divider_flag_, timer_modulo_, timer_control_>> /\ Kept

WriteModulo ==
  /\ ~failed
  /\ timer_modulo_' \in Values
  /\ UNCHANGED <<divider_flag_, timer_counter_, timer_control_>> /\ Kept

WriteTimerControl ==
  /\ ~failed
  /\ timer_control_' \in 0 .. 7
  /\ UNCHANGED <<divider_flag_, timer_counter_, timer_modulo_>> /\ Kept

(* set_timer(false) of HandleInterrupts, or a store to IF.                  *)
AcknowledgeTimer ==
  /\ ~failed /\ timer
  /\ timer' = FALSE
  /\ UNCHANGED <<ticks_, divider_flag_, timer_counter_, timer_modulo_, timer_control_,
                 failed, since, overflowed>>

TimerNext ==
  \/ TickTimer
  \/ WriteDivider \/ WriteCounter \/ WriteModulo \/ WriteTimerControl \/ AcknowledgeTimer

(* Each instruction of the running emulation ends in a Tick.                *)
TimerSpec == TimerInit /\ [][TimerNext]_timerVars /\ WF_timerVars(TickTimer)

-----------------------------------------------------------------------------
TimerTypeOK ==
  /\ ticks_ \in 0 - MaxInt - 1 .. MaxInt
  /\ divider_flag_ \in Flag
  /\ timer_counter_ \in Flag /\ timer_modulo_ \in Flag
  /\ timer_control_ \in 0 .. 7
  /\ timer \in BOOLEAN /\ failed \in BOOLEAN
  /\ since \in Nat /\ overflowed \in BOOLEAN

(* However the game changes speeds, stops and starts the timer, the counter *)
(* never rests for a whole period of the slowest speed of running time,     *)
(* until the sum of all ticks, which nothing resets, overflows its int.     *)
Punctual == ~overflowed => since < Slowest

(* No instruction takes 256 ticks and the divider does not add them up: a   *)
(* game that waits for DIV waits for ever.                                  *)
DividerStandsStill == divider_flag_ = 0

(* A running timer that the game leaves alone goes on requesting            *)
(* interrupts, also past the overflow of its sum.                           *)
RunsAtASpeed == is_timer_running /\ HasSpeed
CounterLeftAlone == [][timer_counter_' # timer_counter_ => ticks_' # ticks_]_timerVars

RequestsRecur == <>[]RunsAtASpeed /\ <>CounterLeftAlone => []<>timer
=============================================================================
