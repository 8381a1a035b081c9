---------------------------- MODULE AsyncLogger -----------------------------
(***************************************************************************)
(* The asynchronous logger: threads that log push messages into a ring     *)
(* buffer, one worker takes them out in batches and writes them to the     *)
(* file, and main starts the logger and shuts it down.  A step is one      *)
(* critical section of the ring's mutex, or one access of running_.        *)
(*                                                                         *)
(* Only messages that the configured level admits are modelled.            *)
(***************************************************************************)
EXTENDS Integers, Sequences, FiniteSets

CONSTANTS
  Threads,     \* threads that log
  Capacity,    \* slots of the ring (kCapacity, 4096)
  MaxMessages  \* bound: how many messages a thread logs

ASSUME LoggerAssumption ==
  /\ Capacity \in Nat \ {0}
  /\ MaxMessages \in Nat
  /\ IsFiniteSet(Threads)

VARIABLES
  buf, head, count, dropped, stop, \* RingBuffer: buf_, head_, count_, ...
  running,  \* running_
  worker,   \* {"none", "wait", "asleep", "write", "exited"}
  batch,    \* what the worker has taken out and not written yet
  file,     \* the messages written, in order
  main,     \* {"new", "starting", "up", "stopping", "stopped", "joining", "done"}
  pc,       \* [Threads -> {"idle", "building", "pushing"}]
  said,     \* [Threads -> Nat]: messages finished, one way or another
  accepted, \* ghost: the messages push() returned true for, in order
  promised  \* ghost: how many of them when stop_ was set

ring == <<buf, head, count, dropped, stop>>
vars == <<ring, running, worker, batch, file, main, pc, said, accepted, promised>>

Empty == <<>>  \* a default LogMessage
Message == (Threads \X Nat) \cup {Empty}

Init ==
  /\ buf = [i \in 0..Capacity - 1 |-> Empty]
  /\ head = 0 /\ count = 0 /\ dropped = 0 /\ stop = FALSE
  /\ running = FALSE
  /\ worker = "none" /\ batch = <<>> /\ file = <<>>
  /\ main = "new"
  /\ pc = [t \in Threads |-> "idle"]
  /\ said = [t \in Threads |-> 0]
  /\ accepted = <<>> /\ promised = 0

-----------------------------------------------------------------------------
(* Threads that log *)

\* The slot of the i-th message in the ring, counted from 0.
Slot(i) == (head + i) % Capacity

\* notify_one and notify_all: only the worker ever sleeps.
Wake == worker' = IF worker = "asleep" THEN "wait" ELSE worker

\* SK_LOG: enabled() is asked before the message is put together.
Enabled(t) ==
  /\ pc[t] = "idle" /\ said[t] < MaxMessages
  /\ main # "done"
  /\ running
  /\ pc' = [pc EXCEPT ![t] = "building"]
  /\ UNCHANGED <<ring, running, worker, batch, file, main, said, accepted, promised>>

\* log() asks once more, and then pushes or forgets the message.
Log(t) ==
  /\ pc[t] = "building"
  /\ main # "done"
  /\ IF running
     THEN pc' = [pc EXCEPT ![t] = "pushing"] /\ UNCHANGED said
     ELSE pc' = [pc EXCEPT ![t] = "idle"] /\ said' = [said EXCEPT ![t] = @ + 1]
  /\ UNCHANGED <<ring, running, worker, batch, file, main, accepted, promised>>

\* push(): a full ring drops the newest message.
Put(t) ==
  /\ buf' = [buf EXCEPT ![Slot(count)] = <<t, said[t]>>]
  /\ count' = count + 1
  /\ accepted' = Append(accepted, <<t, said[t]>>)
  /\ UNCHANGED dropped

Refuse ==
  /\ dropped' = dropped + 1
  /\ UNCHANGED <<buf, count, worker, accepted>>

Pushes(t) ==
  /\ pc[t] = "pushing"
  /\ main # "done"
  /\ pc' = [pc EXCEPT ![t] = "idle"]
  /\ said' = [said EXCEPT ![t] = @ + 1]
  /\ UNCHANGED <<head, stop, running, batch, file, main, promised>>

\* Mutants: one message too many, and a message nobody is told of.
PushOneMore(t) ==
  Pushes(t) /\ IF count > Capacity THEN Refuse ELSE Put(t) /\ Wake
PushQuietly(t) ==
  Pushes(t) /\ IF count = Capacity THEN Refuse ELSE Put(t) /\ UNCHANGED worker
Push(t) ==
  /\ Pushes(t)
  /\ \/ count = Capacity /\ Refuse
     \/ count # Capacity /\ Put(t) /\ Wake

-----------------------------------------------------------------------------
(* The worker: workerLoop around waitAndPopBatch *)

\* The wait finds nothing and releases the mutex.
Sleep ==
  /\ worker = "wait" /\ count = 0 /\ ~stop
  /\ worker' = "asleep"
  /\ UNCHANGED <<ring, running, batch, file, main, pc, said, accepted, promised>>

SpuriousWakeUp ==
  /\ worker = "asleep" /\ main # "done"
  /\ worker' = "wait"
  /\ UNCHANGED <<ring, running, batch, file, main, pc, said, accepted, promised>>

\* Everything in the ring is taken out under one lock.
PopBatch ==
  /\ worker = "wait" /\ count > 0
  /\ batch' = [i \in 1..count |-> buf[Slot(i - 1)]]
  /\ head' = Slot(count)
  /\ count' = 0
  /\ worker' = "write"
  /\ UNCHANGED <<buf, dropped, stop, running, file, main, pc, said, accepted, promised>>

\* waitAndPopBatch returns 0.  Mutant: the worker exits as soon as it is told.
ExitAtOnce ==
  /\ worker = "wait" /\ stop
  /\ worker' = "exited"
  /\ UNCHANGED <<ring, running, batch, file, main, pc, said, accepted, promised>>
Exit ==
  /\ worker = "wait" /\ count = 0 /\ stop
  /\ worker' = "exited"
  /\ UNCHANGED <<ring, running, batch, file, main, pc, said, accepted, promised>>

Write ==
  /\ worker = "write"
  /\ file' = Append(file, Head(batch))
  /\ batch' = Tail(batch)
  /\ worker' = IF Len(batch) = 1 THEN "wait" ELSE "write"
  /\ UNCHANGED <<ring, running, main, pc, said, accepted, promised>>

-----------------------------------------------------------------------------
(* main: start() early, shutdown() from the destructor of the singleton *)

Start ==
  /\ main = "new"
  /\ running' = TRUE
  /\ main' = "starting"
  /\ UNCHANGED <<ring, worker, batch, file, pc, said, accepted, promised>>

\* The file (or stderr) is open; the worker's thread begins.
Spawn ==
  /\ main = "starting"
  /\ worker' = "wait"
  /\ main' = "up"
  /\ UNCHANGED <<ring, running, batch, file, pc, said, accepted, promised>>

Shutdown ==
  /\ main = "up"
  /\ running' = FALSE
  /\ main' = "stopping"
  /\ UNCHANGED <<ring, worker, batch, file, pc, said, accepted, promised>>

\* requestStop: stop_ under the mutex, the notification after it.
SetStop ==
  /\ main = "stopping"
  /\ stop' = TRUE
  /\ promised' = Len(accepted)
  /\ main' = "stopped"
  /\ UNCHANGED <<buf, head, count, dropped, running, worker, batch, file, pc, said,
                 accepted>>

\* Mutant: it forgets to notify.
NotifyNobody ==
  /\ main = "stopped"
  /\ main' = "joining"
  /\ UNCHANGED <<ring, running, worker, batch, file, pc, said, accepted, promised>>
NotifyAll ==
  /\ main = "stopped"
  /\ Wake
  /\ main' = "joining"
  /\ UNCHANGED <<ring, running, batch, file, pc, said, accepted, promised>>

Join ==
  /\ main = "joining" /\ worker = "exited"
  /\ main' = "done"
  /\ UNCHANGED <<ring, running, worker, batch, file, pc, said, accepted, promised>>

\* The logger's memory is gone; nothing is modelled from here on.
Gone == main = "done" /\ UNCHANGED vars

-----------------------------------------------------------------------------
Logging(t) == Enabled(t) \/ Log(t) \/ Push(t)
Working == Sleep \/ PopBatch \/ Exit \/ Write
Stopping == SetStop \/ NotifyAll \/ Join

Next ==
  \/ \E t \in Threads : Logging(t)
  \/ Working \/ SpuriousWakeUp
  \/ Start \/ Spawn \/ Shutdown \/ Stopping
  \/ Gone

Spec == Init /\ [][Next]_vars

\* The worker is scheduled, main finishes start() and shutdown() once it is in
\* them, and the file takes what is written.  Nobody has to log, to start the
\* logger or to shut it down.
FairSpec == Spec /\ WF_vars(Working) /\ WF_vars(Spawn) /\ WF_vars(Stopping)

-----------------------------------------------------------------------------
(* Properties *)

TypeOK ==
  /\ buf \in [0..Capacity - 1 -> Message]
  /\ head \in 0..Capacity - 1 /\ count \in 0..Capacity
  /\ dropped \in Nat /\ stop \in BOOLEAN /\ running \in BOOLEAN
  /\ worker \in {"none", "wait", "asleep", "write", "exited"}
  /\ batch \in Seq(Message) /\ file \in Seq(Message) /\ accepted \in Seq(Message)
  /\ main \in {"new", "starting", "up", "stopping", "stopped", "joining", "done"}
  /\ pc \in [Threads -> {"idle", "building", "pushing"}]
  /\ said \in [Threads -> Nat]
  /\ promised \in Nat

\* Every message push() accepted is in exactly one place, and in its order:
\* written, in the worker's batch, or in the ring behind them, however often
\* the ring wraps around.
EveryMessageOnce ==
  LET written == Len(file)
      taken   == Len(file) + Len(batch)
  IN  /\ Len(accepted) = taken + count
      /\ \A i \in 1..written : accepted[i] = file[i]
      /\ \A i \in 1..Len(batch) : accepted[written + i] = batch[i]
      /\ \A i \in 1..count : accepted[taken + i] = buf[Slot(i - 1)]

\* shutdown() returns only after every message that was accepted before it
\* asked for the stop has been written (AsyncLogger.cc 50).
ShutdownFlushes == main = "done" => Len(file) >= promised

\* How the worker and main depend on each other.
StopInOrder ==
  /\ main \in {"new", "starting"} => worker = "none"
  /\ stop <=> main \in {"stopped", "joining", "done"}
  /\ worker = "write" <=> batch # <<>>
  /\ worker = "exited" => stop /\ Len(file) >= promised
  /\ main = "done" => worker = "exited"
  /\ promised <= Len(accepted)

\* The inductive invariant of the proofs.
IInv == TypeOK /\ EveryMessageOnce /\ StopInOrder

\* An accepted message is written without anybody's help: no wake-up of the
\* worker is lost, whichever way pushes, waits and the stop interleave.
AcceptedAreWritten ==
  \A n \in 1..Cardinality(Threads) * MaxMessages :
    Len(accepted) >= n /\ ~stop ~> Len(file) >= n

\* shutdown() does not wait for ever, though threads may still log.
ShutdownReturns == main = "stopping" ~> main = "done"
=============================================================================
