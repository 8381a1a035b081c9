------------------------- MODULE DelayDeleterProofs --------------------------
(***************************************************************************)
(* The queue of second deletes keeps its order and its times, whatever the *)
(* delay is, whoever schedules and however often the thread is woken up.   *)
(***************************************************************************)
EXTENDS DelayDeleter, SequenceTheorems, TLAPS

IInv == TypeOK /\ QueueInv

LEMMA Lengths ==
  ASSUME IInv
  PROVE  /\ Len(queue) \in Nat /\ Len(firing) \in Nat
         /\ Len(accepted) \in Nat /\ Len(fired) \in Nat
         /\ Len(accepted) = Len(fired) + Len(firing) + Len(queue)
<1>1. /\ Len(queue) \in Nat /\ Len(firing) \in Nat
      /\ Len(accepted) \in Nat /\ Len(fired) \in Nat
  BY LenProperties DEF IInv, TypeOK
<1> QED
  BY <1>1 DEF IInv, QueueInv

LEMMA InitInv == Init => IInv
<1> SUFFICES ASSUME Init PROVE IInv
  OBVIOUS
<1>1. Len(<<>>) = 0
  BY EmptySeq
<1>2. TypeOK
  BY EmptySeq DEF Init, TypeOK
<1>3. QueueInv
  BY <1>1 DEF Init, QueueInv
<1> QED
  BY <1>2, <1>3 DEF IInv

\* The queue grows at its end, like what was accepted.
LEMMA ScheduleInv ==
  ASSUME IInv, NEW t \in Tasks, Schedule(t)
  PROVE  IInv'
<1> DEFINE task == <<t, now + Delay>>
<1>1. task \in Tasks \X Nat
  BY DelayAssumption DEF IInv, TypeOK
<1> HIDE DEF task
<1>2. queue' = Append(queue, task) /\ accepted' = Append(accepted, task)
  BY DEF Schedule, Enqueue, task
<1>3. /\ queue' \in Seq(Tasks \X Nat) /\ accepted' \in Seq(Tasks \X Nat)
      /\ Len(queue') = Len(queue) + 1 /\ Len(accepted') = Len(accepted) + 1
      /\ \A i \in 1..Len(queue) : queue'[i] = queue[i]
      /\ \A i \in 1..Len(accepted) : accepted'[i] = accepted[i]
      /\ queue'[Len(queue) + 1] = task /\ accepted'[Len(accepted) + 1] = task
  BY <1>1, <1>2, AppendProperties DEF IInv, TypeOK
<1>4. TypeOK'
  BY <1>3 DEF IInv, TypeOK, Schedule
<1>5. UNCHANGED <<firing, fired, deleter, now>>
  BY DEF Schedule
<1> HIDE DEF Schedule
<1>6. /\ Len(queue) \in Nat /\ Len(firing) \in Nat
      /\ Len(accepted) \in Nat /\ Len(fired) \in Nat
      /\ Len(accepted) = Len(fired) + Len(firing) + Len(queue)
  BY Lengths
<1>7. ASSUME NEW i \in 1..Len(fired)
      PROVE  fired[i].task = accepted'[i][1] /\ fired[i].at >= accepted'[i][2]
  <2>1. i \in 1..Len(accepted)
    BY <1>6
  <2>2. accepted'[i] = accepted[i]
    BY <1>3, <2>1
  <2> QED
    BY <2>2 DEF IInv, QueueInv
<1>8. ASSUME NEW i \in 1..Len(queue')
      PROVE  queue'[i] = accepted'[Len(fired) + Len(firing) + i]
  <2>1. CASE i \in 1..Len(queue)
    <3>1. Len(fired) + Len(firing) + i \in 1..Len(accepted)
      BY <1>6, <2>1
    <3> QED
      BY <1>3, <2>1, <3>1 DEF IInv, QueueInv
  <2>2. CASE i = Len(queue) + 1
    <3>1. Len(fired) + Len(firing) + i = Len(accepted) + 1
      BY <1>6, <2>2
    <3> QED
      BY <1>3, <2>2, <3>1
  <2> QED
    BY <1>3, <1>6, <2>1, <2>2
<1>9. deleter = "firing" => Len(fired) + 1 \in 1..Len(accepted)
  BY <1>6 DEF IInv, QueueInv
<1>10. queue' # <<>>
  BY <1>3, <1>6
<1>11. QueueInv'
  <2>1. Len(accepted') = Len(fired) + Len(firing) + Len(queue')
    BY <1>3, <1>6
  <2>2. deleter = "firing" => accepted'[Len(fired) + 1] = firing[1]
    BY <1>3, <1>9 DEF IInv, QueueInv
  <2> QED
    BY <1>5, <1>7, <1>8, <1>10, <2>1, <2>2 DEF IInv, QueueInv
<1> QED
  BY <1>4, <1>11 DEF IInv

\* The head of the queue is what comes next.
LEMMA LookInv ==
  ASSUME IInv, Look
  PROVE  IInv'
<1>1. CASE UNCHANGED <<queue, firing>>
  BY <1>1 DEF IInv, TypeOK, QueueInv, Look, GoTo
<1>2. CASE /\ queue # <<>> /\ now >= queue[1][2]
           /\ GoTo("firing") /\ firing' = <<Head(queue)>> /\ queue' = Tail(queue)
  <2>1. /\ Head(queue) = queue[1] /\ Head(queue) \in Tasks \X Nat
        /\ queue' \in Seq(Tasks \X Nat) /\ Len(queue') = Len(queue) - 1
        /\ \A i \in 1..Len(queue') : queue'[i] = queue[i + 1]
    BY <1>2, HeadTailProperties DEF IInv, TypeOK
  <2>2. firing' \in Seq(Tasks \X Nat) /\ Len(firing') = 1 /\ firing'[1] = queue[1]
    BY <1>2, <2>1
  <2>3. TypeOK'
    BY <1>2, <2>1, <2>2 DEF IInv, TypeOK, Look, GoTo
  <2>4. deleter # "firing" /\ deleter' = "firing" /\ UNCHANGED <<now, accepted, fired>>
    BY <1>2 DEF Look, GoTo
  <2>5. /\ Len(queue) \in Nat \ {0} /\ Len(firing) = 0
        /\ Len(accepted) \in Nat /\ Len(fired) \in Nat
    BY <1>2, <2>4, Lengths, EmptySeq DEF IInv, TypeOK, QueueInv
  <2>6. queue[1] = accepted[Len(fired) + 1]
    BY <2>5 DEF IInv, QueueInv
  <2>7. ASSUME NEW i \in 1..Len(queue')
        PROVE  queue'[i] = accepted[Len(fired) + 1 + i]
    <3>1. i \in Nat /\ i + 1 \in 1..Len(queue)
      BY <2>1, <2>5
    <3>2. queue[i + 1] = accepted[Len(fired) + Len(firing) + (i + 1)]
      BY <3>1 DEF IInv, QueueInv
    <3>3. Len(fired) + Len(firing) + (i + 1) = Len(fired) + 1 + i
      BY <2>5, <3>1
    <3> QED
      BY <2>1, <3>2, <3>3
  <2>8. Len(accepted) = Len(fired) + 1 + Len(queue')
    BY <2>1, <2>5, Lengths
  <2>9. QueueInv'
    BY <1>2, <2>2, <2>4, <2>6, <2>7, <2>8 DEF IInv, QueueInv
  <2> QED
    BY <2>3, <2>9 DEF IInv
<1> QED
  BY <1>1, <1>2 DEF Look

\* What was taken out is deleted when it was due.
LEMMA FireInv ==
  ASSUME IInv, Fire
  PROVE  IInv'
<1> DEFINE done == [task |-> firing[1][1], at |-> now]
<1>1. firing[1] \in Tasks \X Nat
  BY DEF IInv, TypeOK, QueueInv, Fire
<1>2. done \in [task : Tasks, at : Nat] /\ done.task = firing[1][1] /\ done.at = now
  BY <1>1 DEF IInv, TypeOK
<1> HIDE DEF done
<1>3. fired' = Append(fired, done) /\ firing' = <<>> /\ deleter' = "awake"
  BY DEF Fire, GoTo, done
<1>4. /\ fired' \in Seq([task : Tasks, at : Nat]) /\ Len(fired') = Len(fired) + 1
      /\ \A i \in 1..Len(fired) : fired'[i] = fired[i]
      /\ fired'[Len(fired) + 1] = done
  BY <1>2, <1>3, AppendProperties DEF IInv, TypeOK
<1>5. TypeOK'
  BY <1>3, <1>4 DEF IInv, TypeOK, Fire
<1>6. UNCHANGED <<queue, accepted, now>>
  BY DEF Fire
<1>7. /\ Len(queue) \in Nat /\ Len(firing) = 1 /\ Len(fired) \in Nat
      /\ firing[1] = accepted[Len(fired) + 1] /\ now >= firing[1][2]
  BY Lengths DEF IInv, QueueInv, Fire
<1>8. ASSUME NEW i \in 1..Len(fired')
      PROVE  fired'[i].task = accepted[i][1] /\ fired'[i].at >= accepted[i][2]
  <2>1. CASE i \in 1..Len(fired)
    BY <1>4, <2>1 DEF IInv, QueueInv
  <2>2. CASE i = Len(fired) + 1
    BY <1>2, <1>4, <1>7, <2>2
  <2> QED
    BY <1>4, <1>7, <2>1, <2>2
<1>9. Len(accepted) = Len(fired') + 0 + Len(queue)
  BY <1>4, <1>7, Lengths
<1>10. ASSUME NEW i \in 1..Len(queue)
       PROVE  queue[i] = accepted[Len(fired') + 0 + i]
  <2>1. Len(fired') + 0 + i = Len(fired) + Len(firing) + i
    BY <1>4, <1>7
  <2> QED
    BY <2>1 DEF IInv, QueueInv
<1>11. Len(firing') = 0
  BY <1>3, EmptySeq
<1>12. QueueInv'
  BY <1>3, <1>6, <1>8, <1>9, <1>10, <1>11 DEF QueueInv
<1> QED
  BY <1>5, <1>12 DEF IInv

\* The other steps leave queue and past alone.
LEMMA OthersInv ==
  ASSUME IInv, UNCHANGED <<queue, firing, accepted, fired>>,
         Timeout \/ SpuriousWakeUp \/ SetStop \/ TellDeleter \/ Join \/ Tick
           \/ (\E t \in Tasks : Notify(t)) \/ UNCHANGED vars
  PROVE  IInv'
<1> USE DEF Timeout, SpuriousWakeUp, SetStop, TellDeleter, Join, Tick,
            Notify, NotifyOne, NotifyAll, Wake, vars
<1>1. caller' \in [Tasks -> {"new", "notify", "done"}]
  <2>1. CASE \E t \in Tasks : Notify(t)
    BY <2>1 DEF IInv, TypeOK
  <2>2. CASE UNCHANGED caller
    BY <2>2 DEF IInv, TypeOK
  <2> QED
    BY <2>1, <2>2
<1>2. /\ now' \in Nat /\ now' >= now
      /\ stop' \in BOOLEAN
      /\ owner' \in {"alive", "notify", "join", "gone"}
  <2>1. now \in Nat /\ stop \in BOOLEAN /\ owner \in {"alive", "notify", "join", "gone"}
    BY DEF IInv, TypeOK
  <2>2. /\ now' = now \/ now' = now + 1
        /\ stop' = stop \/ stop' = TRUE
        /\ owner' = owner \/ owner' \in {"notify", "join", "gone"}
    OBVIOUS
  <2> HIDE DEF Timeout, SpuriousWakeUp, SetStop, TellDeleter, Join, Tick,
               Notify, NotifyOne, NotifyAll, Wake, vars
  <2>3. now' \in Nat /\ now' >= now
    BY <2>1, <2>2
  <2>4. stop' \in BOOLEAN
    BY <2>1, <2>2, Zenon
  <2>5. owner' \in {"alive", "notify", "join", "gone"}
    BY <2>1, <2>2
  <2> QED
    BY <2>3, <2>4, <2>5
<1>3. /\ deleter' \in {"awake", "asleep", "timed", "firing", "exited"}
      /\ deleter' = "firing" <=> deleter = "firing"
      /\ deleter' = "timed" => deleter = "timed"
  <2>1. CASE Wake
    BY <2>1 DEF IInv, TypeOK
  <2>2. CASE UNCHANGED deleter
    BY <2>2 DEF IInv, TypeOK
  <2> QED
    BY <2>1, <2>2
<1>4. TypeOK'
  BY <1>1, <1>2, <1>3 DEF IInv, TypeOK
<1>5. deleter = "firing" => now' >= firing[1][2]
  <2>1. deleter = "firing" => firing[1] \in Tasks \X Nat
    BY DEF IInv, TypeOK, QueueInv
  <2>2. deleter = "firing" => now >= firing[1][2] /\ firing[1][2] \in Nat
    BY <2>1 DEF IInv, QueueInv
  <2>3. now \in Nat
    BY DEF IInv, TypeOK
  <2> QED
    BY <1>2, <2>2, <2>3
<1>6. QueueInv'
  BY <1>3, <1>5 DEF IInv, QueueInv
<1> QED
  BY <1>4, <1>6 DEF IInv

LEMMA NextInv == IInv /\ [Next]_vars => IInv'
<1> SUFFICES ASSUME IInv, [Next]_vars PROVE IInv'
  OBVIOUS
<1>1. CASE \E t \in Tasks : Schedule(t)
  BY <1>1, ScheduleInv
<1>2. CASE Look
  BY <1>2, LookInv
<1>3. CASE Fire
  BY <1>3, FireInv
<1>4. CASE Timeout \/ SpuriousWakeUp \/ SetStop \/ TellDeleter \/ Join \/ Tick
             \/ (\E t \in Tasks : Notify(t)) \/ UNCHANGED vars
  <2>1. UNCHANGED <<queue, firing, accepted, fired>>
    BY <1>4 DEF Timeout, SpuriousWakeUp, SetStop, TellDeleter, Join, Tick, Notify, vars
  <2> QED
    BY <1>4, <2>1, OthersInv
<1> QED
  BY <1>1, <1>2, <1>3, <1>4 DEF Next

\* What was accepted is what was made, what is being made and what is queued,
\* in this order, in every reachable state (schedule, run).
THEOREM Invariant == Spec => []IInv
<1>1. Init /\ [][Next]_vars => []IInv
  BY InitInv, NextInv, PTL
<1> QED
  BY <1>1, PTL DEF Spec

\* The second deletes are those that were scheduled, each once, in order and
\* not before their time (SkuCache.h run).
THEOREM InOrderAndNotEarly == Spec => []SecondDeletes
<1>1. IInv => SecondDeletes
  <2> SUFFICES ASSUME IInv PROVE SecondDeletes
    OBVIOUS
  <2>1. Len(fired) <= Len(accepted)
    BY Lengths
  <2>2. DOMAIN fired = 1..Len(fired)
    BY LenProperties DEF IInv, TypeOK
  <2> QED
    BY <2>1, <2>2 DEF IInv, QueueInv, SecondDeletes
<1> QED
  BY <1>1, Invariant, PTL
=============================================================================
