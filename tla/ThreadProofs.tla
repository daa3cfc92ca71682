---------------------------- MODULE ThreadProofs ----------------------------
(***************************************************************************)
(* The two components that threads share, Clocktroller and Stream.         *)
(*                                                                         *)
(* Clocktroller: the emulation thread is started once, is never            *)
(* overwritten, stops after at most one more instruction and stays quiet   *)
(* after Wait.  The argument is one inductive invariant that ties the      *)
(* three witnesses of a started thread (is_running_, joinable and the      *)
(* loop) to the owner's place in Run, and what the loop may still do once  *)
(* a stop stands.                                                          *)
(*                                                                         *)
(* Stream: Put, Take and Close for any number of threads.  The invariant   *)
(* says that the mutex is held by every thread between its Lock and the    *)
(* release, and that condition_ lists exactly the threads that wait.       *)
(***************************************************************************)
EXTENDS Clocktroller, Stream, SequenceTheorems, TLAPS

-----------------------------------------------------------------------------
Started == is_running_ \/ owner = "mark"

OneThread ==
  /\ loop # "none" => Started
  /\ joinable => loop # "none"
  /\ owner = "mark" /\ ~is_running_ => joinable
  /\ is_running_ /\ ~joinable => loop = "ended"
  /\ ~terminated

Stop == is_paused_ \/ is_dead_

(* After the one instruction a stop can miss, the loop is on its way to a   *)
(* check that sees the stop.                                                *)
Caught ==
  loop \in {"tick", "fail", "checkPaused", "ended", "none"}
    \/ (loop = "checkDead" /\ is_dead_)

OverrunOnce == Stop => overrun = 0 \/ (overrun = 1 /\ Caught)

IInv == TypeOK /\ OneThread /\ OverrunOnce

-----------------------------------------------------------------------------
LEMMA InitInv == Init => IInv
  <1> SUFFICES ASSUME Init PROVE IInv
    OBVIOUS
  <1>0. overrun \in 0 .. 2
    BY SMT DEF Init
  <1>1. TypeOK
    BY <1>0, Zenon DEF Init, TypeOK, OwnerStates, LoopStates
  <1>2. OneThread
    BY DEF Init, OneThread
  <1>3. OverrunOnce
    BY DEF Init, OverrunOnce
  <1>4. QED
    BY <1>1, <1>2, <1>3 DEF IInv

LEMMA RunInv == IInv /\ Run => IInv'
  <1> SUFFICES ASSUME IInv, Run PROVE IInv'
    OBVIOUS
  <1> USE DEF IInv, flags
  <1>1. CASE RunUnpause
    <2>0. overrun' \in 0 .. 2
      BY <1>1, SMT DEF RunUnpause, TypeOK
    <2>1. TypeOK'
      BY <1>1, <2>0, Zenon DEF RunUnpause, TypeOK, OwnerStates, LoopStates
    <2>2. OneThread'
      BY <1>1 DEF RunUnpause, TypeOK, OneThread, Started
    <2>3. OverrunOnce'
      BY <1>1 DEF RunUnpause, TypeOK, OverrunOnce, Stop, Caught
    <2>4. QED
      BY <2>1, <2>2, <2>3
  <1>2. CASE RunUndead
    <2>0. overrun' \in 0 .. 2
      BY <1>2, SMT DEF RunUndead, TypeOK
    <2>1. TypeOK'
      BY <1>2, <2>0, Zenon DEF RunUndead, TypeOK, OwnerStates, LoopStates
    <2>2. OneThread'
      BY <1>2 DEF RunUndead, TypeOK, OneThread, Started
    <2>3. OverrunOnce'
      BY <1>2 DEF RunUndead, TypeOK, OverrunOnce, Stop, Caught
    <2>4. QED
      BY <2>1, <2>2, <2>3
  <1>3. CASE RunStartThread
    <2>1. TypeOK'
      BY <1>3 DEF RunStartThread, TypeOK, OwnerStates, LoopStates
    <2>2. OneThread'
      <3>1. CASE is_running_
        BY <1>3, <3>1 DEF RunStartThread, TypeOK, OneThread, Started
      <3>2. CASE ~is_running_
        <4>1. ~joinable
          BY <1>3, <3>2 DEF RunStartThread, OneThread, Started
        <4>2. QED
          BY <1>3, <3>2, <4>1, Zenon DEF RunStartThread, OneThread, Started
      <3>3. QED
        BY <3>1, <3>2
    <2>3. OverrunOnce'
      BY <1>3 DEF RunStartThread, TypeOK, OverrunOnce, Stop, Caught
    <2>4. QED
      BY <2>1, <2>2, <2>3
  <1>4. CASE RunMarkRunning
    <2>1. TypeOK'
      BY <1>4 DEF RunMarkRunning, TypeOK, OwnerStates, LoopStates
    <2>2. OneThread'
      BY <1>4 DEF RunMarkRunning, TypeOK, OneThread, Started
    <2>3. OverrunOnce'
      BY <1>4 DEF RunMarkRunning, TypeOK, OverrunOnce, Stop, Caught
    <2>4. QED
      BY <2>1, <2>2, <2>3
  <1>5. QED
    BY <1>1, <1>2, <1>3, <1>4 DEF Run

LEMMA WaitInv == IInv /\ Wait => IInv'
  <1> SUFFICES ASSUME IInv, Wait PROVE IInv'
    OBVIOUS
  <1> USE DEF IInv, flags
  <1>1. CASE WaitCall
    <2>1. TypeOK'
      BY <1>1 DEF WaitCall, TypeOK, OwnerStates, LoopStates
    <2>2. OneThread'
      BY <1>1 DEF WaitCall, TypeOK, OneThread, Started
    <2>3. OverrunOnce'
      BY <1>1 DEF WaitCall, TypeOK, OverrunOnce, Stop, Caught
    <2>4. QED
      BY <2>1, <2>2, <2>3
  <1>2. CASE WaitReturn
    <2>1. TypeOK'
      BY <1>2 DEF WaitReturn, TypeOK, OwnerStates, LoopStates
    <2>2. OneThread'
      BY <1>2 DEF WaitReturn, TypeOK, OneThread, Started
    <2>3. OverrunOnce'
      BY <1>2 DEF WaitReturn, TypeOK, OverrunOnce, Stop, Caught
    <2>4. QED
      BY <2>1, <2>2, <2>3
  <1>3. CASE WaitDone
    <2>1. TypeOK'
      BY <1>3 DEF WaitDone, TypeOK, OwnerStates, LoopStates
    <2>2. OneThread'
      BY <1>3 DEF WaitDone, TypeOK, OneThread, Started
    <2>3. OverrunOnce'
      BY <1>3 DEF WaitDone, TypeOK, OverrunOnce, Stop, Caught
    <2>4. QED
      BY <2>1, <2>2, <2>3
  <1>4. QED
    BY <1>1, <1>2, <1>3 DEF Wait

LEMMA StopInv == IInv /\ (Pause \/ Kill) => IInv'
  <1> SUFFICES ASSUME IInv, (Pause \/ Kill) PROVE IInv'
    OBVIOUS
  <1> USE DEF IInv, flags
  <1>1. CASE Pause
    <2>1. TypeOK'
      BY <1>1 DEF Pause, TypeOK, OwnerStates, LoopStates
    <2>2. OneThread'
      BY <1>1 DEF Pause, TypeOK, OneThread, Started
    <2>3. OverrunOnce'
      BY <1>1 DEF Pause, TypeOK, OverrunOnce, Stop, Caught
    <2>4. QED
      BY <2>1, <2>2, <2>3
  <1>2. CASE Kill
    <2>1. TypeOK'
      BY <1>2 DEF Kill, TypeOK, OwnerStates, LoopStates
    <2>2. OneThread'
      BY <1>2 DEF Kill, TypeOK, OneThread, Started
    <2>3. OverrunOnce'
      BY <1>2 DEF Kill, TypeOK, OverrunOnce, Stop, Caught
    <2>4. QED
      BY <2>1, <2>2, <2>3
  <1>3. QED
    BY <1>1, <1>2

LEMMA LoopInv == IInv /\ Loop => IInv'
  <1> SUFFICES ASSUME IInv, Loop PROVE IInv'
    OBVIOUS
  <1> USE DEF IInv, flags
  <1>1. CASE LoopCheckPaused
    <2>1. TypeOK'
      BY <1>1 DEF LoopCheckPaused, TypeOK, OwnerStates, LoopStates
    <2>2. OneThread'
      BY <1>1 DEF LoopCheckPaused, TypeOK, OneThread, Started
    <2>3. OverrunOnce'
      BY <1>1 DEF LoopCheckPaused, TypeOK, OverrunOnce, Stop, Caught
    <2>4. QED
      BY <2>1, <2>2, <2>3
  <1>2. CASE LoopCheckDead
    <2>1. TypeOK'
      BY <1>2 DEF LoopCheckDead, TypeOK, OwnerStates, LoopStates
    <2>2. OneThread'
      BY <1>2 DEF LoopCheckDead, TypeOK, OneThread, Started
    <2>3. OverrunOnce'
      BY <1>2 DEF LoopCheckDead, TypeOK, OverrunOnce, Stop, Caught
    <2>4. QED
      BY <2>1, <2>2, <2>3
  <1>3. CASE LoopExecute
    <2>1. TypeOK'
      BY <1>3 DEF LoopExecute, TypeOK, OwnerStates, LoopStates
    <2>2. OneThread'
      BY <1>3 DEF LoopExecute, TypeOK, OneThread, Started
    <2>3. OverrunOnce'
      BY <1>3 DEF LoopExecute, TypeOK, OverrunOnce, Stop, Caught
    <2>4. QED
      BY <2>1, <2>2, <2>3
  <1>4. CASE LoopTick
    <2>1. TypeOK'
      BY <1>4 DEF LoopTick, TypeOK, OwnerStates, LoopStates
    <2>2. OneThread'
      BY <1>4 DEF LoopTick, TypeOK, OneThread, Started
    <2>3. OverrunOnce'
      BY <1>4 DEF LoopTick, TypeOK, OverrunOnce, Stop, Caught
    <2>4. QED
      BY <2>1, <2>2, <2>3
  <1>5. CASE LoopFail
    <2>1. TypeOK'
      BY <1>5 DEF LoopFail, TypeOK, OwnerStates, LoopStates
    <2>2. OneThread'
      BY <1>5 DEF LoopFail, TypeOK, OneThread, Started
    <2>3. OverrunOnce'
      BY <1>5 DEF LoopFail, TypeOK, OverrunOnce, Stop, Caught
    <2>4. QED
      BY <2>1, <2>2, <2>3
  <1>6. QED
    BY <1>1, <1>2, <1>3, <1>4, <1>5 DEF Loop

LEMMA StepInv == IInv /\ [Next]_vars => IInv'
  <1>1. IInv /\ UNCHANGED vars => IInv'
    BY DEF vars, IInv, TypeOK, OneThread, Started, OverrunOnce, Stop, Caught
  <1>2. QED
    BY <1>1, RunInv, WaitInv, StopInv, LoopInv DEF Next

LEMMA Invariance == Spec => []IInv
  BY InitInv, StepInv, PTL DEF Spec

-----------------------------------------------------------------------------
(* The variables keep their types.                                          *)
THEOREM TypeCorrect == Spec => []TypeOK
  <1>1. IInv => TypeOK
    BY DEF IInv
  <1>2. QED
    BY <1>1, Invariance, PTL

(* No sequence of calls makes Run overwrite a joinable thread.              *)
THEOREM RunNeverTerminates == Spec => []NeverTerminates
  <1>1. IInv => NeverTerminates
    BY DEF IInv, OneThread, NeverTerminates
  <1>2. QED
    BY <1>1, Invariance, PTL

(* A stop lets at most one more instruction begin.                          *)
THEOREM StopsPromptly == Spec => []AtMostOneInstructionAfterStop
  <1>1. IInv => AtMostOneInstructionAfterStop
    BY DEF IInv, TypeOK, OverrunOnce, Stop, AtMostOneInstructionAfterStop
  <1>2. QED
    BY <1>1, Invariance, PTL

(* An ended emulation is never started again: Run starts a thread only when *)
(* the loop has never begun.                                                *)
THEOREM EndsForGood == Spec => EndedForGood
  <1>1. IInv /\ [Next]_vars => [loop = "ended" => loop' = "ended"]_vars
    <2> SUFFICES ASSUME IInv, Next, loop = "ended" PROVE loop' = "ended"
      BY DEF vars
    <2>1. CASE Run
      BY <2>1 DEF Run, RunUnpause, RunUndead, RunStartThread, RunMarkRunning,
                  IInv, TypeOK, OneThread, Started
    <2>2. CASE Wait
      BY <2>2 DEF Wait, WaitCall, WaitReturn, WaitDone
    <2>3. CASE Pause \/ Kill
      BY <2>3 DEF Pause, Kill
    <2>4. CASE Loop
      BY <2>4 DEF Loop, LoopCheckPaused, LoopCheckDead, LoopExecute, LoopTick,
                  LoopFail
    <2>5. QED
      BY <2>1, <2>2, <2>3, <2>4 DEF Next
  <1>2. QED
    BY <1>1, Invariance, PTL DEF Spec, EndedForGood

(* Once Wait has joined the thread, nothing moves the loop again.           *)
THEOREM WaitQuiets == Spec => QuietAfterWait
  <1>1. IInv /\ [Next]_vars => [is_running_ /\ ~joinable => loop' = loop]_vars
    <2> SUFFICES ASSUME IInv, Next, is_running_, ~joinable PROVE loop' = loop
      BY DEF vars
    <2>1. loop = "ended"
      BY DEF IInv, OneThread
    <2>2. CASE Run
      BY <2>2 DEF Run, RunUnpause, RunUndead, RunStartThread, RunMarkRunning
    <2>3. CASE Wait
      BY <2>3 DEF Wait, WaitCall, WaitReturn, WaitDone
    <2>4. CASE Pause \/ Kill
      BY <2>4 DEF Pause, Kill
    <2>5. CASE Loop
      BY <2>1, <2>5 DEF Loop, LoopCheckPaused, LoopCheckDead, LoopExecute,
                        LoopTick, LoopFail
    <2>6. QED
      BY <2>2, <2>3, <2>4, <2>5 DEF Next
  <1>2. QED
    BY <1>1, Invariance, PTL DEF Spec, QuietAfterWait

-----------------------------------------------------------------------------
Critical == {"check", "push", "empty"}

HeldByOne ==
  \A t \in Threads : at[t] \in Critical => mutex_ = t

WaitersListed ==
  /\ \A t \in Threads : at[t] = "wait" <=> t \in condition_
  /\ \A t \in Putters : at[t] \in {"idle", "lock", "check", "push"}
  /\ \A t \in Takers : at[t] # "push"

(* A thread is about to push only beside a held mutex; while it has not,    *)
(* the threads that wait wait beside an empty list.                         *)
StreamInv ==
  /\ StreamTypeOK
  /\ HeldByOne
  /\ WaitersListed
  /\ NoLostWakeup
  /\ Conserved

-----------------------------------------------------------------------------
(* Append at the back of two sequences in a row is Append to the second;    *)
(* the head of the second can move to the back of the first.                *)
LEMMA AppendSecond ==
  ASSUME NEW S, NEW s \in Seq(S), NEW t \in Seq(S), NEW e \in S
  PROVE  s \o Append(t, e) = Append(s \o t, e)
  OBVIOUS

LEMMA HeadMoves ==
  ASSUME NEW S, NEW s \in Seq(S), NEW t \in Seq(S), t # <<>>
  PROVE  /\ Head(t) \in S
         /\ Tail(t) \in Seq(S)
         /\ Append(s, Head(t)) \o Tail(t) = s \o t
  <1>1. Head(t) \in S /\ Tail(t) \in Seq(S) /\ t = <<Head(t)>> \o Tail(t)
    BY HeadTailProperties
  <1>2. Append(s, Head(t)) = s \o <<Head(t)>> /\ <<Head(t)>> \in Seq(S)
    BY <1>1, AppendIsConcat
  <1>3. QED
    BY <1>1, <1>2, ConcatAssociative

LEMMA InitStreamInv == StreamInit => StreamInv
  <1> SUFFICES ASSUME StreamInit PROVE StreamInv
    OBVIOUS
  <1>1. <<>> \in Seq(Nat) /\ <<>> \o <<>> = <<>>
    BY ConcatEmptySeq
  <1>0. 0 \in 0 .. MaxPuts
    BY StreamAssumption
  <1>2. StreamTypeOK
    BY <1>0, <1>1, Zenon DEF StreamInit, StreamTypeOK, Places
  <1>5. Conserved
    BY <1>1, Zenon DEF StreamInit, Conserved
  <1>3. HeldByOne /\ WaitersListed /\ NoLostWakeup
    BY DEF StreamInit, HeldByOne, WaitersListed, Critical, NoLostWakeup,
           Threads
  <1>4. QED
    BY <1>2, <1>3, <1>5 DEF StreamInv

LEMMA PushInv ==
  ASSUME StreamInv, NEW t \in Threads, Push(t)
  PROVE  StreamInv'
  <1> DEFINE e == Len(accepted) + 1
  <1> USE DEF StreamInv, Push, Release, Notified
  <1>1. e \in Nat /\ taken \in Seq(Nat) /\ data_ \in Seq(Nat)
    BY DEF StreamTypeOK
  <1>2. StreamTypeOK'
    BY <1>1, StreamAssumption DEF StreamTypeOK, Places, Threads
  <1>3. t \in Putters /\ condition_ \subseteq Takers
    BY DEF StreamTypeOK, WaitersListed, Threads
  <1>4. \A u \in Threads :
          at'[u] = IF u = t THEN "idle"
                   ELSE IF u \in condition_ THEN "relock" ELSE at[u]
    OBVIOUS
  <1>5. HeldByOne'
    BY <1>4, StreamAssumption DEF HeldByOne, Critical, StreamTypeOK, Threads
  <1>6. WaitersListed'
    BY <1>3, <1>4, StreamAssumption DEF WaitersListed, Threads
  <1>7. NoLostWakeup'
    BY DEF NoLostWakeup
  <1>8. Conserved'
    <2>1. \A x \in Nat :
            taken \o Append(data_, x) = Append(taken \o data_, x)
      BY <1>1, AppendSecond
    <2>2. QED
      BY <1>1, <2>1 DEF Conserved
  <1>9. QED
    BY <1>2, <1>5, <1>6, <1>7, <1>8

LEMMA PopInv ==
  ASSUME StreamInv, NEW t \in Threads, Pop(t)
  PROVE  StreamInv'
  <1> USE DEF StreamInv, Pop, Goto, Release
  <1>1. taken \in Seq(Nat) /\ data_ \in Seq(Nat) /\ data_ # <<>>
    BY DEF StreamTypeOK
  <1>2. /\ Head(data_) \in Nat
        /\ Tail(data_) \in Seq(Nat)
        /\ Append(taken, Head(data_)) \o Tail(data_) = taken \o data_
    BY <1>1, HeadMoves
  <1>3. StreamTypeOK'
    BY <1>1, <1>2 DEF StreamTypeOK, Places
  <1>4. \A u \in Threads : at'[u] = IF u = t THEN "idle" ELSE at[u]
    BY DEF StreamTypeOK
  <1>5. HeldByOne'
    BY <1>4 DEF HeldByOne, Critical
  <1>6. WaitersListed'
    BY <1>4 DEF WaitersListed, Threads
  <1>7. NoLostWakeup'
    BY <1>1 DEF NoLostWakeup
  <1>8. Conserved'
    BY <1>2 DEF Conserved
  <1>9. QED
    BY <1>3, <1>5, <1>6, <1>7, <1>8

LEMMA CallPutInv ==
  ASSUME StreamInv, NEW t \in Putters, CallPut(t)
  PROVE  StreamInv'
  <1> USE DEF StreamInv, CallPut, Goto
  <1>1. t \in Threads
    BY DEF Threads
  <1>2. \A u \in Threads : at'[u] = IF u = t THEN "lock" ELSE at[u]
    BY <1>1 DEF StreamTypeOK
  <1>3. StreamTypeOK'
    BY <1>1, StreamAssumption DEF StreamTypeOK, Places, Threads, WaitersListed
  <1>4. HeldByOne'
    BY <1>1, <1>2, StreamAssumption
    DEF HeldByOne, Critical, StreamTypeOK, Threads
  <1>5. WaitersListed'
    BY <1>1, <1>2, StreamAssumption
    DEF WaitersListed, StreamTypeOK, Threads
  <1>6. NoLostWakeup'
    BY <1>1 DEF NoLostWakeup
  <1>7. Conserved'
    BY DEF Conserved
  <1>8. QED
    BY <1>3, <1>4, <1>5, <1>6, <1>7

LEMMA CallTakeInv ==
  ASSUME StreamInv, NEW t \in Takers, CallTake(t)
  PROVE  StreamInv'
  <1> USE DEF StreamInv, CallTake, Goto
  <1>1. t \in Threads
    BY DEF Threads
  <1>2. \A u \in Threads : at'[u] = IF u = t THEN "lock" ELSE at[u]
    BY <1>1 DEF StreamTypeOK
  <1>3. StreamTypeOK'
    BY <1>1, StreamAssumption DEF StreamTypeOK, Places, Threads, WaitersListed
  <1>4. HeldByOne'
    BY <1>1, <1>2, StreamAssumption
    DEF HeldByOne, Critical, StreamTypeOK, Threads
  <1>5. WaitersListed'
    BY <1>1, <1>2, StreamAssumption
    DEF WaitersListed, StreamTypeOK, Threads
  <1>6. NoLostWakeup'
    BY <1>1 DEF NoLostWakeup
  <1>7. Conserved'
    BY DEF Conserved
  <1>8. QED
    BY <1>3, <1>4, <1>5, <1>6, <1>7

LEMMA LockInv ==
  ASSUME StreamInv, NEW t \in Threads, Lock(t)
  PROVE  StreamInv'
  <1> USE DEF StreamInv, Lock, Goto, Acquire
  <1>1. t \in Threads
    BY DEF Threads
  <1>2. \A u \in Threads : at'[u] = IF u = t THEN "check" ELSE at[u]
    BY <1>1 DEF StreamTypeOK
  <1>3. StreamTypeOK'
    BY <1>1, StreamAssumption DEF StreamTypeOK, Places, Threads, WaitersListed
  <1>4. HeldByOne'
    BY <1>1, <1>2, StreamAssumption
    DEF HeldByOne, Critical, StreamTypeOK, Threads
  <1>5. WaitersListed'
    BY <1>1, <1>2, StreamAssumption
    DEF WaitersListed, StreamTypeOK, Threads
  <1>6. NoLostWakeup'
    BY <1>1 DEF NoLostWakeup
  <1>7. Conserved'
    BY DEF Conserved
  <1>8. QED
    BY <1>3, <1>4, <1>5, <1>6, <1>7

LEMMA CheckClosedInv ==
  ASSUME StreamInv, NEW t \in Threads, CheckClosed(t)
  PROVE  StreamInv'
  <1> USE DEF StreamInv, CheckClosed, Goto, Release
  <1>1. t \in Threads
    BY DEF Threads
  <1>2. \A u \in Threads : at'[u] = IF u = t THEN "idle" ELSE at[u]
    BY <1>1 DEF StreamTypeOK
  <1>3. StreamTypeOK'
    BY <1>1, StreamAssumption DEF StreamTypeOK, Places, Threads, WaitersListed
  <1>4. HeldByOne'
    BY <1>1, <1>2, StreamAssumption
    DEF HeldByOne, Critical, StreamTypeOK, Threads
  <1>5. WaitersListed'
    BY <1>1, <1>2, StreamAssumption
    DEF WaitersListed, StreamTypeOK, Threads
  <1>6. NoLostWakeup'
    BY <1>1 DEF NoLostWakeup
  <1>7. Conserved'
    BY DEF Conserved
  <1>8. QED
    BY <1>3, <1>4, <1>5, <1>6, <1>7

LEMMA CheckOpenInv ==
  ASSUME StreamInv, NEW t \in Threads, CheckOpen(t)
  PROVE  StreamInv'
  <1> USE DEF StreamInv, CheckOpen, Goto
  <1>1. t \in Threads
    BY DEF Threads
  <1>2. \A u \in Threads : at'[u] = IF u = t THEN IF t \in Putters THEN "push" ELSE "empty" ELSE at[u]
    BY <1>1 DEF StreamTypeOK
  <1>3. StreamTypeOK'
    BY <1>1, StreamAssumption DEF StreamTypeOK, Places, Threads, WaitersListed
  <1>4. HeldByOne'
    BY <1>1, <1>2, StreamAssumption
    DEF HeldByOne, Critical, StreamTypeOK, Threads
  <1>5. WaitersListed'
    BY <1>1, <1>2, StreamAssumption
    DEF WaitersListed, StreamTypeOK, Threads
  <1>6. NoLostWakeup'
    BY <1>1 DEF NoLostWakeup
  <1>7. Conserved'
    BY DEF Conserved
  <1>8. QED
    BY <1>3, <1>4, <1>5, <1>6, <1>7

LEMMA WaitForDataInv ==
  ASSUME StreamInv, NEW t \in Threads, WaitForData(t)
  PROVE  StreamInv'
  <1> USE DEF StreamInv, WaitForData, Goto, Release
  <1>1. t \in Threads
    BY DEF Threads
  <1>2. \A u \in Threads : at'[u] = IF u = t THEN "wait" ELSE at[u]
    BY <1>1 DEF StreamTypeOK
  <1>3. StreamTypeOK'
    BY <1>1, StreamAssumption DEF StreamTypeOK, Places, Threads, WaitersListed
  <1>4. HeldByOne'
    BY <1>1, <1>2, StreamAssumption
    DEF HeldByOne, Critical, StreamTypeOK, Threads
  <1>5. WaitersListed'
    BY <1>1, <1>2, StreamAssumption
    DEF WaitersListed, StreamTypeOK, Threads
  <1>6. NoLostWakeup'
    BY <1>1 DEF NoLostWakeup
  <1>7. Conserved'
    BY DEF Conserved
  <1>8. QED
    BY <1>3, <1>4, <1>5, <1>6, <1>7

LEMMA RelockInv ==
  ASSUME StreamInv, NEW t \in Threads, Relock(t)
  PROVE  StreamInv'
  <1> USE DEF StreamInv, Relock, Goto, Acquire
  <1>1. t \in Threads
    BY DEF Threads
  <1>2. \A u \in Threads : at'[u] = IF u = t THEN "empty" ELSE at[u]
    BY <1>1 DEF StreamTypeOK
  <1>3. StreamTypeOK'
    BY <1>1, StreamAssumption DEF StreamTypeOK, Places, Threads, WaitersListed
  <1>4. HeldByOne'
    BY <1>1, <1>2, StreamAssumption
    DEF HeldByOne, Critical, StreamTypeOK, Threads
  <1>5. WaitersListed'
    BY <1>1, <1>2, StreamAssumption
    DEF WaitersListed, StreamTypeOK, Threads
  <1>6. NoLostWakeup'
    BY <1>1 DEF NoLostWakeup
  <1>7. Conserved'
    BY DEF Conserved
  <1>8. QED
    BY <1>3, <1>4, <1>5, <1>6, <1>7

LEMMA WakeSpuriouslyInv ==
  ASSUME StreamInv, NEW t \in Threads, WakeSpuriously(t)
  PROVE  StreamInv'
  <1> USE DEF StreamInv, WakeSpuriously, Goto
  <1>1. t \in Threads
    BY DEF Threads
  <1>2. \A u \in Threads : at'[u] = IF u = t THEN "relock" ELSE at[u]
    BY <1>1 DEF StreamTypeOK
  <1>3. StreamTypeOK'
    BY <1>1, StreamAssumption DEF StreamTypeOK, Places, Threads, WaitersListed
  <1>4. HeldByOne'
    BY <1>1, <1>2, StreamAssumption
    DEF HeldByOne, Critical, StreamTypeOK, Threads
  <1>5. WaitersListed'
    BY <1>1, <1>2, StreamAssumption
    DEF WaitersListed, StreamTypeOK, Threads
  <1>6. NoLostWakeup'
    BY <1>1 DEF NoLostWakeup
  <1>7. Conserved'
    BY DEF Conserved
  <1>8. QED
    BY <1>3, <1>4, <1>5, <1>6, <1>7

LEMMA CloseInv == StreamInv /\ Close => StreamInv'
  BY DEF StreamInv, Close, StreamTypeOK, HeldByOne, WaitersListed,
         NoLostWakeup, Conserved

LEMMA StutterStreamInv == StreamInv /\ UNCHANGED streamVars => StreamInv'
  BY DEF StreamInv, streamVars, StreamTypeOK, HeldByOne, WaitersListed,
         NoLostWakeup, Conserved

LEMMA NextStreamInv == StreamInv /\ [StreamNext]_streamVars => StreamInv'
  <1> SUFFICES ASSUME StreamInv, StreamNext PROVE StreamInv'
    BY StutterStreamInv
  <1>1. CASE \E t \in Putters : CallPut(t)
    BY <1>1, CallPutInv
  <1>2. CASE \E t \in Takers : CallTake(t)
    BY <1>2, CallTakeInv
  <1>3. CASE \E t \in Threads : Step(t)
    <2>1. PICK t \in Threads : Step(t)
      BY <1>3
    <2>2. QED
      BY <2>1, LockInv, CheckClosedInv, CheckOpenInv, PushInv, WaitForDataInv,
         PopInv, RelockInv DEF Step
  <1>4. CASE \E t \in Threads : WakeSpuriously(t)
    BY <1>4, WakeSpuriouslyInv
  <1>5. CASE Close
    BY <1>5, CloseInv
  <1>6. QED
    BY <1>1, <1>2, <1>3, <1>4, <1>5 DEF StreamNext

(* The mutex is what orders the threads, in every reachable state.          *)
LEMMA StreamInvariant == StreamSpec => []StreamInv
  BY InitStreamInv, NextStreamInv, PTL DEF StreamSpec

(* The state of a stream is well typed, whatever its threads do.            *)
THEOREM StreamTypeCorrect == StreamSpec => []StreamTypeOK
  <1>1. StreamInv => StreamTypeOK
    BY DEF StreamInv
  <1>2. QED
    BY <1>1, StreamInvariant, PTL

(* Put and Take, whatever their interleaving: no element is lost,           *)
(* duplicated or reordered.                                                 *)
THEOREM StreamConserves == StreamSpec => []Conserved
  <1>1. StreamInv => Conserved
    BY DEF StreamInv
  <1>2. QED
    BY <1>1, StreamInvariant, PTL

(* Take waits under the mutex that Put notifies under: nobody sleeps beside *)
(* data.                                                                    *)
THEOREM NobodySleepsBesideData == StreamSpec => []NoLostWakeup
  <1>1. StreamInv => NoLostWakeup
    BY DEF StreamInv
  <1>2. QED
    BY <1>1, StreamInvariant, PTL

(* Between the test of is_closed_ and push_back there is at most one        *)
(* thread.                                                                  *)
MutualExclusion ==
  \A t, u \in Threads : {at[t], at[u]} \subseteq Critical => t = u

THEOREM StreamMutualExclusion == StreamSpec => []MutualExclusion
  <1>1. StreamInv => MutualExclusion
    BY DEF StreamInv, HeldByOne, MutualExclusion
  <1>2. QED
    BY <1>1, StreamInvariant, PTL

(* Close is an atomic store outside the mutex: once no Put is past its      *)
(* test, none passes it and nothing more is accepted.                       *)
THEOREM ClosedStaysClosed == StreamSpec => ClosedForGood
  <1>1. ASSUME StreamInv, [StreamNext]_streamVars, is_closed_, ~Delivering
        PROVE  accepted' = accepted /\ ~Delivering'
    <2> USE DEF Delivering
    <2>1. at \in [Threads -> Places] /\ Putters \subseteq Threads
      BY <1>1 DEF StreamInv, StreamTypeOK, Threads
    <2>2. \A t \in Threads : at[t] = "push" => t \in Putters
      BY <1>1 DEF StreamInv, WaitersListed, Threads
    <2>3. CASE \E t \in Threads : Step(t)
      <3>1. PICK t \in Threads : Step(t)
        BY <2>3
      <3>2. CASE Lock(t) \/ CheckClosed(t) \/ WaitForData(t) \/ Pop(t) \/ Relock(t)
        BY <1>1, <2>1, <3>2
        DEF Lock, CheckClosed, WaitForData, Pop, Relock, Goto
      <3>3. ~CheckOpen(t) /\ ~Push(t)
        BY <1>1, <2>2 DEF CheckOpen, Push
      <3>4. QED
        BY <3>1, <3>2, <3>3 DEF Step
    <2>4. CASE \E t \in Threads : WakeSpuriously(t)
      BY <1>1, <2>1, <2>4 DEF WakeSpuriously, Goto
    <2>5. CASE (\E t \in Putters : CallPut(t)) \/ \E t \in Takers : CallTake(t)
      BY <1>1, <2>1, <2>5 DEF CallPut, CallTake, Goto
    <2>6. CASE Close \/ UNCHANGED streamVars
      BY <1>1, <2>6 DEF Close, streamVars
    <2>7. QED
      BY <1>1, <2>3, <2>4, <2>5, <2>6 DEF StreamNext
  <1>2. StreamInv /\ [StreamNext]_streamVars
          => [is_closed_ /\ ~Delivering
                => accepted' = accepted /\ ~Delivering']_streamVars
    BY <1>1
  <1>3. QED
    BY <1>2, StreamInvariant, PTL DEF StreamSpec, ClosedForGood
=============================================================================
