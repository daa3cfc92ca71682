---------------------------- MODULE Clocktroller ----------------------------
(***************************************************************************)
(* The life of the emulation thread (cc/backend/clocktroller).  The thread *)
(* that owns the Clocktroller calls Run and Wait; Pause and Kill are       *)
(* single atomic stores any thread may make (main.cc calls Kill from its   *)
(* input thread).  The emulation thread runs ExecutionLoop, which reads    *)
(* is_paused_ and is_dead_ in two separate atomic loads, so a call can     *)
(* fall between them, or between the second and the instruction.           *)
(***************************************************************************)
EXTENDS Naturals

VARIABLES
  is_paused_,   \* std::atomic<bool>, indeterminate until the first Run
  is_dead_,     \* std::atomic<bool>, indeterminate until the first Run
  is_running_,  \* set by Run, cleared by nothing
  owner,        \* where the owning thread stands in Run or in Wait
  loop,         \* where the emulation thread stands in ExecutionLoop
  joinable,     \* thread_ holds a thread nobody has joined
  terminated,   \* std::terminate: a joinable std::thread was overwritten
  overrun       \* history: instructions begun since a stop was stored, or Run
                \* withdrew one of two

vars == <<is_paused_, is_dead_, is_running_, owner, loop, joinable,
          terminated, overrun>>

flags == <<is_paused_, is_dead_>>

OwnerStates == {"idle", "undead", "start", "mark", "waiting", "joined"}
LoopStates == {"none", "checkPaused", "checkDead", "execute", "tick", "fail",
               "ended"}

-----------------------------------------------------------------------------
(* The atomics have no initializer: any value until Run stores one.        *)
Init ==
  /\ is_paused_ \in BOOLEAN
  /\ is_dead_ \in BOOLEAN
  /\ is_running_ = FALSE
  /\ owner = "idle"
  /\ loop = "none"
  /\ joinable = FALSE
  /\ terminated = FALSE
  /\ overrun = 0

(* Run, one step per store: another thread's call can fall between any two. *)
RunUnpause ==
  /\ owner = "idle"
  /\ owner' = "undead"
  /\ is_paused_' = FALSE
  /\ overrun' = IF is_dead_ THEN overrun ELSE 0
  /\ UNCHANGED <<is_dead_, is_running_, loop, joinable, terminated>>

RunUndead ==
  /\ owner = "undead"
  /\ owner' = "start"
  /\ is_dead_' = FALSE
  /\ overrun' = 0
  /\ UNCHANGED <<is_paused_, is_running_, loop, joinable, terminated>>

(* Assigning to a joinable std::thread calls std::terminate.                *)
RunStartThread ==
  /\ owner = "start"
  /\ owner' = "mark"
  /\ IF is_running_
       THEN UNCHANGED <<loop, joinable, terminated>>
       ELSE /\ terminated' = joinable
            /\ joinable' = TRUE
            /\ loop' = "checkPaused"
  /\ UNCHANGED <<flags, is_running_, overrun>>

(* Mutant: forgets that it is running.                                      *)
RunMarkRunning_Unmarked ==
  /\ owner = "mark"
  /\ owner' = "idle"
  /\ UNCHANGED <<flags, is_running_, loop, joinable, terminated, overrun>>

RunMarkRunning ==
  /\ owner = "mark"
  /\ owner' = "idle"
  /\ is_running_' = TRUE
  /\ UNCHANGED <<flags, loop, joinable, terminated, overrun>>

(* Wait is thread_.join(): entered only on a started thread (main.cc:288).  *)
WaitCall ==
  /\ owner = "idle"
  /\ joinable
  /\ owner' = "waiting"
  /\ UNCHANGED <<flags, is_running_, loop, joinable, terminated, overrun>>

(* Mutant: detaches instead of joining.                                     *)
WaitReturn_Detached ==
  /\ owner = "waiting"
  /\ owner' = "joined"
  /\ joinable' = FALSE
  /\ UNCHANGED <<flags, is_running_, loop, terminated, overrun>>

WaitReturn ==
  /\ owner = "waiting"
  /\ loop = "ended"
  /\ owner' = "joined"
  /\ joinable' = FALSE
  /\ UNCHANGED <<flags, is_running_, loop, terminated, overrun>>

(* After Wait the owner may go on to make further calls.                    *)
WaitDone ==
  /\ owner = "joined"
  /\ owner' = "idle"
  /\ UNCHANGED <<flags, is_running_, loop, joinable, terminated, overrun>>

(* Pause and Kill, from any thread at any time.                             *)
Pause ==
  /\ is_paused_' = TRUE
  /\ overrun' = IF is_paused_ \/ is_dead_ THEN overrun ELSE 0
  /\ UNCHANGED <<is_dead_, is_running_, owner, loop, joinable, terminated>>

Kill ==
  /\ is_dead_' = TRUE
  /\ overrun' = IF is_paused_ \/ is_dead_ THEN overrun ELSE 0
  /\ UNCHANGED <<is_paused_, is_running_, owner, loop, joinable, terminated>>

-----------------------------------------------------------------------------
(* One pass of ExecutionLoop.  While paused it spins without looking at     *)
(* is_dead_.                                                                *)
LoopCheckPaused ==
  /\ loop = "checkPaused"
  /\ loop' = IF is_paused_ THEN "checkPaused" ELSE "checkDead"
  /\ UNCHANGED <<flags, is_running_, owner, joinable, terminated, overrun>>

(* Mutant: is_dead_ is not looked at.                                       *)
LoopCheckDead_Deaf ==
  /\ loop = "checkDead"
  /\ loop' = "execute"
  /\ UNCHANGED <<flags, is_running_, owner, joinable, terminated, overrun>>

LoopCheckDead ==
  /\ loop = "checkDead"
  /\ loop' = IF is_dead_ THEN "ended" ELSE "execute"
  /\ UNCHANGED <<flags, is_running_, owner, joinable, terminated, overrun>>

(* ReadInstruction: its result, negative or not, decides what follows.      *)
LoopExecute ==
  /\ loop = "execute"
  /\ loop' \in {"tick", "fail"}
  /\ overrun' = IF (is_paused_ \/ is_dead_) /\ overrun < 2
                  THEN overrun + 1 ELSE overrun
  /\ UNCHANGED <<flags, is_running_, owner, joinable, terminated>>

(* Mutant: the pause is tested once, before the loop.                       *)
LoopTick_Hoisted ==
  /\ loop = "tick"
  /\ loop' = "checkDead"
  /\ UNCHANGED <<flags, is_running_, owner, joinable, terminated, overrun>>

LoopTick ==
  /\ loop = "tick"
  /\ loop' = "checkPaused"
  /\ UNCHANGED <<flags, is_running_, owner, joinable, terminated, overrun>>

(* Mutant: a failure is ignored.                                            *)
LoopFail_Ignored ==
  /\ loop = "fail"
  /\ loop' = "checkPaused"
  /\ UNCHANGED <<flags, is_running_, owner, joinable, terminated, overrun>>

LoopFail ==
  /\ loop = "fail"
  /\ loop' = "checkPaused"
  /\ is_dead_' = TRUE
  /\ overrun' = IF is_paused_ \/ is_dead_ THEN overrun ELSE 0
  /\ UNCHANGED <<is_paused_, is_running_, owner, joinable, terminated>>

Loop == LoopCheckPaused \/ LoopCheckDead \/ LoopExecute \/ LoopTick \/ LoopFail

Run == RunUnpause \/ RunUndead \/ RunStartThread \/ RunMarkRunning

Wait == WaitCall \/ WaitReturn \/ WaitDone

Next == Run \/ Wait \/ Pause \/ Kill \/ Loop

(* The OS schedules both threads, so a started loop keeps taking its steps  *)
(* and a Run or Wait that was called goes on; nobody is obliged to call.    *)
Fairness ==
  /\ WF_vars(Loop)
  /\ WF_vars(RunUndead \/ RunStartThread \/ RunMarkRunning)
  /\ WF_vars(WaitReturn)

Spec == Init /\ [][Next]_vars /\ Fairness

-----------------------------------------------------------------------------
TypeOK ==
  /\ is_paused_ \in BOOLEAN
  /\ is_dead_ \in BOOLEAN
  /\ is_running_ \in BOOLEAN
  /\ owner \in OwnerStates
  /\ loop \in LoopStates
  /\ joinable \in BOOLEAN
  /\ terminated \in BOOLEAN
  /\ overrun \in 0 .. 2

(* Whatever sequence of Run, Pause, Kill and Wait is called, Run never      *)
(* assigns to thread_ while it is joinable: std::terminate is not reached.  *)
NeverTerminates == ~terminated

(* Once a stop has been stored (Pause or Kill) and until Run withdraws it,  *)
(* the loop begins at most one more instruction: the one whose checks it    *)
(* had already passed.                                                      *)
AtMostOneInstructionAfterStop ==
  is_paused_ \/ is_dead_ => overrun <= 1

(* When Wait has returned the emulation thread executes nothing ever again, *)
(* whatever is called afterwards: the state it works on may be destroyed.   *)
QuietAfterWait ==
  [][is_running_ /\ ~joinable => loop' = loop]_vars

(* ExecutionLoop is entered at most once in the life of a Clocktroller: as  *)
(* is_running_ is never reset, no Run restarts an emulation that ended.     *)
EndedForGood ==
  [][loop = "ended" => loop' = "ended"]_vars

(* A Kill that is not withdrawn by Run ends the loop, provided the loop is  *)
(* not paused: a paused loop never looks at is_dead_.                       *)
KillEndsTheLoop ==
  (is_dead_ /\ ~is_paused_ /\ loop # "none")
    ~> (loop = "ended" \/ is_paused_ \/ ~is_dead_)

(* A failed ReadInstruction releases the owner blocked in Wait: the owner   *)
(* cannot call Run meanwhile, so only a Pause can keep it there.            *)
FailureReleasesWait ==
  (owner = "waiting" /\ loop = "fail") ~> (owner = "joined" \/ is_paused_)
=============================================================================
