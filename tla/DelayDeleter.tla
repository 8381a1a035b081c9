---------------------------- MODULE DelayDeleter -----------------------------
(***************************************************************************)
(* SkuCache::DelayDeleter: a queue of deletes that are due Delay after     *)
(* they were scheduled, a thread that waits for the first of them on a     *)
(* condition variable, and the destructor that stops it.  SkuCache's       *)
(* delayed and FireDelayed are what the rest of the cache sees of it.      *)
(*                                                                         *)
(* What a thread does under m_ up to the next wait or unlock is one step.  *)
(***************************************************************************)
EXTENDS Integers, Sequences

CONSTANTS
  Tasks,    \* calls of schedule, with their keys
  Delay,    \* double_delete_ms
  MaxTime   \* bound: the last tick of the clock

ASSUME DelayAssumption == Delay \in Nat \ {0} /\ MaxTime \in Nat

VARIABLES
  now,     \* steady_clock::now()
  queue,   \* queue_: pairs of a task and its fireAt
  stop,    \* stop_
  deleter, \* where the thread is
  firing,  \* what it has taken out of the queue, a sequence of at most one
  caller,  \* [Tasks -> {"new", "notify", "done"}]
  owner,   \* the destructor: {"alive", "notify", "join", "gone"}
  accepted, \* ghost: the pairs that were ever queued, in order
  fired    \* ghost: the pairs whose keys were deleted, in order, with the time

vars == <<now, queue, stop, deleter, firing, caller, owner, accepted, fired>>

Init ==
  /\ now = 0
  /\ queue = <<>> /\ firing = <<>>
  /\ stop = FALSE
  /\ deleter = "awake"
  /\ caller = [t \in Tasks |-> "new"]
  /\ owner = "alive"
  /\ accepted = <<>> /\ fired = <<>>

-----------------------------------------------------------------------------
(* Wake-ups, of one thread that waits with or without a deadline *)

Wake == deleter' = IF deleter \in {"asleep", "timed"} THEN "awake" ELSE deleter

\* Mutant: nobody is told.
WakeNobody == UNCHANGED deleter

SpuriousWakeUp ==
  /\ deleter \in {"asleep", "timed"}
  /\ Wake
  /\ UNCHANGED <<now, queue, stop, firing, caller, owner, accepted, fired>>

Timeout ==
  /\ deleter = "timed" /\ now >= queue[1][2]
  /\ Wake
  /\ UNCHANGED <<now, queue, stop, firing, caller, owner, accepted, fired>>

-----------------------------------------------------------------------------
(* schedule *)

\* The clock is read and the task queued under one lock.
\* Mutant: the task is queued without the delay.
EnqueueNow(t) ==
  /\ queue' = Append(queue, <<t, now>>)
  /\ accepted' = Append(accepted, <<t, now + Delay>>)
Enqueue(t) ==
  /\ queue' = Append(queue, <<t, now + Delay>>)
  /\ accepted' = Append(accepted, <<t, now + Delay>>)

Schedule(t) ==
  /\ caller[t] = "new" /\ owner # "gone" /\ now + Delay <= MaxTime
  /\ Enqueue(t)
  /\ caller' = [caller EXCEPT ![t] = "notify"]
  /\ UNCHANGED <<now, stop, deleter, firing, owner, fired>>

\* notify_one, after the unlock.
NotifyOne == Wake

Notify(t) ==
  /\ caller[t] = "notify"
  /\ NotifyOne
  /\ caller' = [caller EXCEPT ![t] = "done"]
  /\ UNCHANGED <<now, queue, stop, firing, owner, accepted, fired>>

-----------------------------------------------------------------------------
(* run *)

GoTo(place) == deleter' = place

Look ==
  /\ deleter = "awake"
  /\ \/ stop /\ GoTo("exited") /\ UNCHANGED <<queue, firing>>
     \/ ~stop /\ queue = <<>> /\ GoTo("asleep") /\ UNCHANGED <<queue, firing>>
     \/ /\ ~stop /\ queue # <<>> /\ now < queue[1][2]
        /\ GoTo("timed") /\ UNCHANGED <<queue, firing>>
     \/ /\ ~stop /\ queue # <<>> /\ now >= queue[1][2]
        /\ GoTo("firing") /\ firing' = <<Head(queue)>> /\ queue' = Tail(queue)
  /\ UNCHANGED <<now, stop, caller, owner, accepted, fired>>

\* The keys are deleted without the lock.
Fire ==
  /\ deleter = "firing"
  /\ fired' = Append(fired, [task |-> firing[1][1], at |-> now])
  /\ firing' = <<>>
  /\ GoTo("awake")
  /\ UNCHANGED <<now, queue, stop, caller, owner, accepted>>

-----------------------------------------------------------------------------
(* ~DelayDeleter, and the clock *)

SetStop ==
  /\ owner = "alive"
  /\ stop' = TRUE
  /\ owner' = "notify"
  /\ UNCHANGED <<now, queue, deleter, firing, caller, accepted, fired>>

NotifyAll == Wake

TellDeleter ==
  /\ owner = "notify"
  /\ NotifyAll
  /\ owner' = "join"
  /\ UNCHANGED <<now, queue, stop, firing, caller, accepted, fired>>

Join ==
  /\ owner = "join" /\ deleter = "exited"
  /\ owner' = "gone"
  /\ UNCHANGED <<now, queue, stop, deleter, firing, caller, accepted, fired>>

Tick ==
  /\ now < MaxTime
  /\ now' = now + 1
  /\ UNCHANGED <<queue, stop, deleter, firing, caller, owner, accepted, fired>>

Next ==
  \/ \E t \in Tasks : Schedule(t) \/ Notify(t)
  \/ Look \/ Fire \/ Timeout \/ SpuriousWakeUp
  \/ SetStop \/ TellDeleter \/ Join
  \/ Tick

\* Threads that can run do, deadlines are met some time, and time goes on.
\* Nothing makes a thread wake up without a reason.
Fairness ==
  /\ WF_vars(Look) /\ WF_vars(Fire) /\ WF_vars(Timeout) /\ WF_vars(Tick)
  /\ \A t \in Tasks : WF_vars(Notify(t))
  /\ WF_vars(TellDeleter) /\ WF_vars(Join)

Spec == Init /\ [][Next]_vars /\ Fairness

-----------------------------------------------------------------------------
(* Properties *)

\* The deletes that are made are those that were scheduled, each once, in the
\* order of scheduling and never before its time (SkuCache.h:191-209).
SecondDeletes ==
  /\ Len(fired) <= Len(accepted)
  /\ \A i \in DOMAIN fired :
        fired[i].task = accepted[i][1] /\ fired[i].at >= accepted[i][2]

\* What is scheduled is made, unless the cache is destroyed before: no wake-up
\* is lost between the look at the queue and the wait, nor is a deadline.
SecondDeleteComes ==
  \A t \in Tasks :
     caller[t] # "new" ~> stop \/ \E i \in DOMAIN fired : fired[i].task = t

\* The destructor returns, whatever is queued or being made.
StopReturns == stop ~> owner = "gone"

TypeOK ==
  /\ now \in Nat /\ stop \in BOOLEAN
  /\ queue \in Seq(Tasks \X Nat) /\ firing \in Seq(Tasks \X Nat)
  /\ deleter \in {"awake", "asleep", "timed", "firing", "exited"}
  /\ caller \in [Tasks -> {"new", "notify", "done"}]
  /\ owner \in {"alive", "notify", "join", "gone"}
  /\ accepted \in Seq(Tasks \X Nat) /\ fired \in Seq([task : Tasks, at : Nat])

\* What makes it so: what was accepted is what was made, what is being made
\* and what is queued.
QueueInv ==
  /\ Len(firing) = (IF deleter = "firing" THEN 1 ELSE 0)
  /\ deleter = "firing" => now >= firing[1][2] /\ accepted[Len(fired) + 1] = firing[1]
  /\ deleter = "timed" => queue # <<>>
  /\ Len(accepted) = Len(fired) + Len(firing) + Len(queue)
  /\ \A i \in 1..Len(fired) :
        fired[i].task = accepted[i][1] /\ fired[i].at >= accepted[i][2]
  /\ \A i \in 1..Len(queue) : queue[i] = accepted[Len(fired) + Len(firing) + i]
=============================================================================
