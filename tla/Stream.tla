------------------------------- MODULE Stream -------------------------------
(***************************************************************************)
(* The stream that passes data between threads (cc/utility/stream.h): a    *)
(* list, a mutex and a condition variable.  Close is an atomic store made  *)
(* outside the mutex, so it can fall between any two steps of a Put or a   *)
(* Take.                                                                   *)
(***************************************************************************)
EXTENDS Naturals, SequencesExt

CONSTANTS
  Putters, Takers,   \* the threads
  Nobody,            \* who holds a free mutex
  MaxPuts            \* bound: the calls of Put in a behaviour

ASSUME StreamAssumption ==
  /\ Putters \intersect Takers = {}
  /\ Nobody \notin Putters \union Takers
  /\ MaxPuts \in Nat

Threads == Putters \union Takers

VARIABLES
  is_closed_,
  data_,
  mutex_,      \* the thread that holds it, or Nobody
  condition_,  \* the threads blocked in wait and not notified
  at,          \* where each thread stands
  puts,        \* calls of Put so far; they also number the elements
  accepted,    \* history: the elements pushed
  taken        \* history: the elements popped

streamVars ==
  <<is_closed_, data_, mutex_, condition_, at, puts, accepted, taken>>

Places == {"idle", "lock", "check", "push", "empty", "wait", "relock"}

StreamInit ==
  /\ is_closed_ = FALSE
  /\ data_ = <<>>
  /\ mutex_ = Nobody
  /\ condition_ = {}
  /\ at = [t \in Threads |-> "idle"]
  /\ puts = 0
  /\ accepted = <<>>
  /\ taken = <<>>

Goto(t, from, to) ==
  /\ at[t] = from
  /\ at' = [at EXCEPT ![t] = to]

Acquire(t) == mutex_ = Nobody /\ mutex_' = t

Release == mutex_' = Nobody

-----------------------------------------------------------------------------
CallPut(t) ==
  /\ puts < MaxPuts
  /\ Goto(t, "idle", "lock")
  /\ puts' = puts + 1
  /\ UNCHANGED <<is_closed_, data_, mutex_, condition_, accepted, taken>>

CallTake(t) ==
  /\ Goto(t, "idle", "lock")
  /\ UNCHANGED <<is_closed_, data_, mutex_, condition_, puts, accepted, taken>>

Lock(t) ==
  /\ Goto(t, "lock", "check")
  /\ Acquire(t)
  /\ UNCHANGED <<is_closed_, data_, condition_, puts, accepted, taken>>

(* A closed stream drops what is put, and gives None.                       *)
CheckClosed(t) ==
  /\ is_closed_
  /\ Goto(t, "check", "idle")
  /\ Release
  /\ UNCHANGED <<is_closed_, data_, condition_, puts, accepted, taken>>

(* Mutant: is_closed_ is not tested.                                         *)
CheckOpen_Always(t) ==
  /\ Goto(t, "check", IF t \in Putters THEN "push" ELSE "empty")
  /\ UNCHANGED <<is_closed_, data_, mutex_, condition_, puts, accepted, taken>>

CheckOpen(t) ==
  /\ ~is_closed_
  /\ Goto(t, "check", IF t \in Putters THEN "push" ELSE "empty")
  /\ UNCHANGED <<is_closed_, data_, mutex_, condition_, puts, accepted, taken>>

(* Mutants: nobody is notified; one thread is.                              *)
Notified_None == {}

Notified_One == IF condition_ = {} THEN {} ELSE {CHOOSE t \in condition_ : TRUE}

(* notify_all                                                               *)
Notified == condition_

(* push_back, notify_all and the return that unlocks the mutex.             *)
Push(t) ==
  /\ at[t] = "push"
  /\ data_' = Append(data_, Len(accepted) + 1)
  /\ accepted' = Append(accepted, Len(accepted) + 1)
  /\ at' = [u \in Threads |->
              IF u = t THEN "idle"
              ELSE IF u \in Notified THEN "relock" ELSE at[u]]
  /\ condition_' = condition_ \ Notified
  /\ Release
  /\ UNCHANGED <<is_closed_, puts, taken>>

(* while (data_.empty()) condition_.wait(lock)                              *)
WaitForData(t) ==
  /\ data_ = <<>>
  /\ Goto(t, "empty", "wait")
  /\ condition_' = condition_ \union {t}
  /\ Release
  /\ UNCHANGED <<is_closed_, data_, puts, accepted, taken>>

(* Mutant: front without pop_front.                                         *)
Pop_Kept(t) ==
  /\ data_ # <<>>
  /\ Goto(t, "empty", "idle")
  /\ taken' = Append(taken, Head(data_))
  /\ Release
  /\ UNCHANGED <<is_closed_, data_, condition_, puts, accepted>>

Pop(t) ==
  /\ data_ # <<>>
  /\ Goto(t, "empty", "idle")
  /\ taken' = Append(taken, Head(data_))
  /\ data_' = Tail(data_)
  /\ Release
  /\ UNCHANGED <<is_closed_, condition_, puts, accepted>>

Relock(t) ==
  /\ Goto(t, "relock", "empty")
  /\ Acquire(t)
  /\ UNCHANGED <<is_closed_, data_, condition_, puts, accepted, taken>>

(* A wait may end although nobody notified.                                 *)
WakeSpuriously(t) ==
  /\ Goto(t, "wait", "relock")
  /\ condition_' = condition_ \ {t}
  /\ UNCHANGED <<is_closed_, data_, mutex_, puts, accepted, taken>>

Close ==
  /\ is_closed_' = TRUE
  /\ UNCHANGED <<data_, mutex_, condition_, at, puts, accepted, taken>>

-----------------------------------------------------------------------------
(* What a thread inside a call does next, of its own accord.                *)
Step(t) ==
  \/ Lock(t) \/ CheckClosed(t) \/ CheckOpen(t) \/ Push(t) \/ WaitForData(t)
  \/ Pop(t) \/ Relock(t)

StreamNext ==
  \/ \E t \in Putters : CallPut(t)
  \/ \E t \in Takers : CallTake(t)
  \/ \E t \in Threads : Step(t) \/ WakeSpuriously(t)
  \/ Close

(* A thread inside a call runs when it can.  The mutex need not be fair;    *)
(* nobody has to call, nor to wake without a cause.                         *)
StreamFairness == \A t \in Threads : WF_streamVars(Step(t))

StreamSpec == StreamInit /\ [][StreamNext]_streamVars /\ StreamFairness

-----------------------------------------------------------------------------
StreamTypeOK ==
  /\ is_closed_ \in BOOLEAN
  /\ data_ \in Seq(Nat)
  /\ mutex_ \in Threads \union {Nobody}
  /\ condition_ \subseteq Takers
  /\ at \in [Threads -> Places]
  /\ puts \in 0 .. MaxPuts
  /\ accepted \in Seq(Nat)
  /\ taken \in Seq(Nat)

(* Nothing is lost, duplicated or reordered between the threads: what was   *)
(* taken, followed by what is still buffered, is what was accepted.         *)
Conserved == accepted = taken \o data_

(* No wakeup is lost: as long as there is data, nobody sleeps.              *)
NoLostWakeup == data_ # <<>> => condition_ = {}

(* A Put that found the stream open delivers even when Close comes between  *)
(* its test and its push; once it has, a closed stream accepts nothing      *)
(* more, whichever Puts were already waiting for the mutex.                 *)
Delivering == \E t \in Putters : at[t] = "push"

ClosedForGood ==
  [][is_closed_ /\ ~Delivering
       => accepted' = accepted /\ ~Delivering']_streamVars

(* While the stream is open, data never stays in it for ever beside a taker *)
(* that is inside Take: whoever is notified and whoever gets the mutex, the *)
(* takers go on taking until there is nothing left or all have returned.    *)
Taking == \E t \in Takers : at[t] # "idle"

DataReachesTakers ==
  (data_ # <<>> /\ Taking) ~> (data_ = <<>> \/ is_closed_ \/ ~Taking)

=============================================================================
