------------------------- MODULE AsyncLoggerProofs --------------------------
(***************************************************************************)
(* AsyncLogger keeps every accepted message, in its order, and has written *)
(* what it promised when shutdown() returns: for any ring, any threads and *)
(* any number of messages.                                                 *)
(***************************************************************************)
EXTENDS AsyncLogger, SequenceTheorems, TLAPS

\* An index wraps around at most once.
LEMMA WrapsOnce ==
  ASSUME NEW x \in Nat, x < 2 * Capacity
  PROVE  x % Capacity = IF x < Capacity THEN x ELSE x - Capacity
  <1>1. Capacity \in Nat /\ Capacity > 0
    BY LoggerAssumption
  <1>2. x = Capacity * (x \div Capacity) + (x % Capacity)
        /\ x \div Capacity \in Int /\ x % Capacity \in 0..Capacity - 1
    BY <1>1
  <1>3. x \div Capacity \in {0, 1}
    BY <1>1, <1>2
  <1>4. CASE x \div Capacity = 0
    BY <1>1, <1>2, <1>4
  <1>5. CASE x \div Capacity = 1
    BY <1>1, <1>2, <1>5
  <1>6. QED
    BY <1>3, <1>4, <1>5

\* Positions of the ring are slots, and different positions different slots.
LEMMA SlotsDiffer ==
  ASSUME TypeOK, NEW i \in 0..Capacity, NEW j \in 0..Capacity - 1
  PROVE  /\ Slot(i) \in 0..Capacity - 1
         /\ j < i /\ i < Capacity => Slot(i) # Slot(j)
  <1>1. Capacity \in Nat \ {0} /\ head \in 0..Capacity - 1
    BY LoggerAssumption DEF TypeOK
  <1>2. Slot(i) = IF head + i < Capacity THEN head + i ELSE head + i - Capacity
    BY <1>1, WrapsOnce DEF Slot
  <1>3. Slot(j) = IF head + j < Capacity THEN head + j ELSE head + j - Capacity
    BY <1>1, WrapsOnce DEF Slot
  <1>4. QED
    BY <1>1, <1>2, <1>3

LEMMA InitInvariant == Init => IInv
  BY LoggerAssumption DEF Init, IInv, TypeOK, Message, Empty, EveryMessageOnce,
     StopInOrder

-----------------------------------------------------------------------------
(* The steps that move messages *)

\* What a refused message leaves alone, and what an accepted one adds.
LEMMA PushInvariant ==
  ASSUME IInv, NEW t \in Threads, Push(t) PROVE IInv'
  <1> USE DEF IInv
  <1>0. Capacity \in Nat \ {0}
    BY LoggerAssumption
  <1>1. CASE count = Capacity /\ Refuse
    <2>1. TypeOK'
      BY <1>1 DEF TypeOK, Push, Pushes, Refuse
    <2>2. EveryMessageOnce'
      BY <1>1 DEF EveryMessageOnce, Slot, Pushes, Push, Refuse
    <2>3. StopInOrder'
      BY <1>1 DEF StopInOrder, Pushes, Push, Refuse
    <2>4. QED
      BY <2>1, <2>2, <2>3
  <1>2. CASE count # Capacity /\ Put(t) /\ Wake
    <2> DEFINE m == <<t, said[t]>>
    <2>1. m \in Message /\ count \in 0..Capacity - 1 /\ Slot(count) \in 0..Capacity - 1
      BY <1>0, <1>2, SlotsDiffer DEF TypeOK, Message
    <2>2. /\ accepted' \in Seq(Message) /\ Len(accepted') = Len(accepted) + 1
          /\ accepted'[Len(accepted) + 1] = m
          /\ \A i \in 1..Len(accepted) : accepted'[i] = accepted[i]
      BY <1>2, <2>1 DEF Put, TypeOK
    <2>3. TypeOK'
      BY <1>0, <1>2, <2>1, <2>2 DEF TypeOK, Pushes, Push, Put, Wake
    <2>4. /\ buf'[Slot(count)] = m
          /\ \A i \in 1..count : buf'[Slot(i - 1)] = buf[Slot(i - 1)]
      <3>1. buf' = [buf EXCEPT ![Slot(count)] = m]
        BY <1>2 DEF Put
      <3>2. ASSUME NEW i \in 1..count PROVE Slot(count) # Slot(i - 1)
        <4>1. i - 1 \in 0..Capacity - 1 /\ i - 1 < count /\ count < Capacity
          BY <1>0, <2>1
        <4>2. count \in 0..Capacity
          BY <1>0, <2>1
        <4>3. QED
          BY <4>1, <4>2, SlotsDiffer
      <3>3. QED
        BY <2>1, <3>1, <3>2 DEF TypeOK
    <2>5. EveryMessageOnce'
      <3> DEFINE taken == Len(file) + Len(batch)
      <3>1. /\ count' = count + 1 /\ file' = file /\ batch' = batch /\ head' = head
            /\ Len(accepted) = taken + count
            /\ Len(file) \in Nat /\ Len(batch) \in Nat /\ count \in Nat
        BY <1>2, <2>1 DEF EveryMessageOnce, Put, Push, Pushes, TypeOK
      <3>2. \A i : Slot(i)' = Slot(i)
        BY <3>1 DEF Slot
      <3>3. ASSUME NEW i \in 1..count' PROVE accepted'[taken + i] = buf'[Slot(i - 1)]
        <4>1. CASE i \in 1..count
          <5>1. taken + i \in 1..Len(accepted)
            BY <3>1, <4>1
          <5>2. accepted[taken + i] = buf[Slot(i - 1)]
            BY <4>1 DEF EveryMessageOnce
          <5>3. QED
            BY <2>2, <2>4, <4>1, <5>1, <5>2
        <4>2. CASE i = count + 1
          <5>1. taken + i = Len(accepted) + 1 /\ i - 1 = count
            BY <3>1, <4>2
          <5>2. QED
            BY <2>2, <2>4, <5>1
        <4>3. QED
          BY <3>1, <4>1, <4>2
      <3>4. \A i \in 1..Len(file) : accepted'[i] = file[i]
        BY <2>2, <3>1 DEF EveryMessageOnce
      <3>5. \A i \in 1..Len(batch) : accepted'[Len(file) + i] = batch[i]
        BY <2>2, <3>1 DEF EveryMessageOnce
      <3>6. Len(accepted') = Len(file') + Len(batch') + count'
        BY <2>2, <3>1
      <3>7. QED
        BY <3>1, <3>2, <3>3, <3>4, <3>5, <3>6 DEF EveryMessageOnce
    <2>6. StopInOrder'
      BY <1>2, <2>2 DEF TypeOK, StopInOrder, Pushes, Push, Put, Wake
    <2>7. QED
      BY <2>3, <2>5, <2>6
  <1>3. QED
    BY <1>1, <1>2 DEF Push

LEMMA PopBatchInvariant ==
  ASSUME IInv, PopBatch PROVE IInv'
  <1> USE DEF IInv
  <1>0. Capacity \in Nat \ {0} /\ count \in 1..Capacity
    BY LoggerAssumption DEF PopBatch, TypeOK
  <1>1. \A i \in 1..count : Slot(i - 1) \in 0..Capacity - 1
    <2>1. ASSUME NEW i \in 1..count PROVE i - 1 \in 0..Capacity
      BY <1>0
    <2>2. QED
      BY <1>0, <2>1, SlotsDiffer
  <1>2. /\ batch' \in Seq(Message) /\ Len(batch') = count
        /\ \A i \in 1..count : batch'[i] = buf[Slot(i - 1)]
    <2>1. batch' = [i \in 1..count |-> buf[Slot(i - 1)]]
      BY DEF PopBatch
    <2>2. \A i \in 1..count : buf[Slot(i - 1)] \in Message
      BY <1>1 DEF TypeOK
    <2>3. batch' \in [1..count -> Message]
      BY <2>1, <2>2
    <2>4. QED
      BY <1>0, <2>1, <2>3, SeqDef
  <1>3. batch = <<>> /\ Len(batch) = 0
    BY DEF PopBatch, StopInOrder
  <1>4. Slot(count) \in 0..Capacity - 1
    BY <1>0, SlotsDiffer
  <1>5. TypeOK'
    BY <1>0, <1>2, <1>4 DEF TypeOK, PopBatch
  <1>6. EveryMessageOnce'
    <2>1. /\ count' = 0 /\ file' = file /\ accepted' = accepted
          /\ Len(file) \in Nat /\ count \in Nat
      BY <1>0 DEF PopBatch, TypeOK
    <2>2. \A i \in 1..count : accepted[Len(file) + i] = buf[Slot(i - 1)]
      BY <1>3, <2>1 DEF EveryMessageOnce
    <2>3. Len(accepted) = Len(file) + count
      BY <1>3, <2>1 DEF EveryMessageOnce
    <2>4. \A i \in 1..Len(file) : accepted[i] = file[i]
      BY DEF EveryMessageOnce
    <2>5. \A i \in 1..Len(batch') : accepted'[Len(file') + i] = batch'[i]
      BY <1>2, <2>1, <2>2
    <2>6. Len(accepted') = Len(file') + Len(batch') + count'
      BY <1>2, <2>1, <2>3
    <2>7. 1..count' = {}
      BY <2>1
    <2>8. QED
      BY <2>1, <2>4, <2>5, <2>6, <2>7 DEF EveryMessageOnce
  <1>7. StopInOrder'
    BY <1>0, <1>2 DEF StopInOrder, PopBatch
  <1>8. QED
    BY <1>5, <1>6, <1>7

LEMMA WriteInvariant ==
  ASSUME IInv, Write PROVE IInv'
  <1> USE DEF IInv
  <1>1. batch \in Seq(Message) /\ batch # <<>> /\ file \in Seq(Message)
    BY DEF Write, TypeOK, StopInOrder
  <1>2. /\ Head(batch) = batch[1] /\ Head(batch) \in Message
        /\ Tail(batch) \in Seq(Message) /\ Len(Tail(batch)) = Len(batch) - 1
        /\ \A i \in 1..Len(batch) - 1 : Tail(batch)[i] = batch[i + 1]
        /\ Len(batch) \in Nat \ {0}
    BY <1>1
  <1>3. /\ file' \in Seq(Message) /\ Len(file') = Len(file) + 1
        /\ \A i \in 1..Len(file) : file'[i] = file[i]
        /\ file'[Len(file) + 1] = batch[1]
        /\ Len(file) \in Nat
    BY <1>1, <1>2 DEF Write
  <1>4. batch' = Tail(batch) /\ UNCHANGED <<ring, accepted, promised, main>>
    BY DEF Write
  <1>5. TypeOK'
    BY <1>2, <1>3, <1>4 DEF TypeOK, Write, ring
  <1>6. EveryMessageOnce'
    <2>1. Len(file') + Len(batch') = Len(file) + Len(batch)
      BY <1>2, <1>3, <1>4
    <2>2. \A i \in 1..Len(file') : accepted[i] = file'[i]
      <3>1. accepted[Len(file) + 1] = batch[1]
        BY <1>2 DEF EveryMessageOnce
      <3>2. \A i \in 1..Len(file) : accepted[i] = file'[i]
        BY <1>3 DEF EveryMessageOnce
      <3>3. QED
        BY <1>3, <3>1, <3>2
    <2>3. \A i \in 1..Len(batch') : accepted[Len(file') + i] = batch'[i]
      <3>1. ASSUME NEW i \in 1..Len(batch') PROVE accepted[Len(file') + i] = batch'[i]
        <4>1. i + 1 \in 1..Len(batch) /\ batch'[i] = batch[i + 1]
          BY <1>2, <1>4
        <4>2. accepted[Len(file) + (i + 1)] = batch[i + 1]
          BY <4>1 DEF EveryMessageOnce
        <4>3. Len(file') + i = Len(file) + (i + 1)
          BY <1>3
        <4>4. QED
          BY <4>1, <4>2, <4>3
      <3>2. QED
        BY <3>1
    <2>4. QED
      BY <1>4, <2>1, <2>2, <2>3 DEF EveryMessageOnce, Slot, ring
  <1>7. StopInOrder'
    <2>1. Tail(batch) = <<>> <=> Len(batch) = 1
      <3>1. Len(<<>>) = 0
        OBVIOUS
      <3>2. Tail(batch) # <<>> => Len(Tail(batch)) \in Nat \ {0}
        BY <1>2, EmptySeq, Zenon
      <3>3. Tail(batch) = <<>> <=> Len(Tail(batch)) = 0
        BY <3>1, <3>2
      <3>4. QED
        BY <1>2, <3>3
    <2>2. QED
      BY <1>3, <1>4, <2>1 DEF StopInOrder, Write, ring
  <1>8. QED
    BY <1>5, <1>6, <1>7

-----------------------------------------------------------------------------
(* The steps that leave messages where they are *)

LEMMA MessagesStay ==
  ASSUME EveryMessageOnce, UNCHANGED <<ring, batch, file, accepted>>
  PROVE  EveryMessageOnce'
  BY DEF EveryMessageOnce, Slot, ring

LEMMA TalkInvariant ==
  ASSUME IInv, NEW t \in Threads, Enabled(t) \/ Log(t) PROVE IInv'
  <1>1. TypeOK'
    <2>1. CASE Enabled(t)
      BY <2>1 DEF IInv, TypeOK, Enabled, ring
    <2>2. CASE Log(t)
      <3>1. pc' \in [Threads -> {"idle", "building", "pushing"}]
        BY <2>2 DEF IInv, TypeOK, Log
      <3>2. said' \in [Threads -> Nat]
        BY <2>2 DEF IInv, TypeOK, Log
      <3>3. QED
        BY <2>2, <3>1, <3>2 DEF IInv, TypeOK, Log, ring
    <2>3. QED
      BY <2>1, <2>2
  <1>2. EveryMessageOnce'
    BY MessagesStay DEF IInv, Enabled, Log
  <1>3. StopInOrder'
    BY DEF IInv, StopInOrder, Enabled, Log, ring
  <1>4. QED
    BY <1>1, <1>2, <1>3 DEF IInv

LEMMA SleepInvariant ==
  ASSUME IInv, Sleep \/ SpuriousWakeUp PROVE IInv'
  <1>1. TypeOK'
    BY DEF IInv, TypeOK, Sleep, SpuriousWakeUp, ring
  <1>2. EveryMessageOnce'
    BY MessagesStay DEF IInv, Sleep, SpuriousWakeUp
  <1>3. StopInOrder'
    BY DEF IInv, StopInOrder, Sleep, SpuriousWakeUp, ring
  <1>4. QED
    BY <1>1, <1>2, <1>3 DEF IInv

\* With the ring and the batch empty, all that was accepted is in the file.
LEMMA ExitInvariant ==
  ASSUME IInv, Exit PROVE IInv'
  <1>1. TypeOK'
    BY DEF IInv, TypeOK, Exit, ring
  <1>2. EveryMessageOnce'
    BY MessagesStay DEF IInv, Exit
  <1>3. Len(file) >= promised
    <2>1. batch = <<>> /\ Len(batch) = 0 /\ count = 0
      BY DEF IInv, StopInOrder, Exit
    <2>2. Len(accepted) = Len(file)
      BY <2>1 DEF IInv, TypeOK, EveryMessageOnce
    <2>3. QED
      BY <2>2 DEF IInv, TypeOK, StopInOrder
  <1>4. StopInOrder'
    BY <1>3 DEF IInv, StopInOrder, Exit, ring
  <1>5. QED
    BY <1>1, <1>2, <1>4 DEF IInv

LEMMA MainInvariant ==
  ASSUME IInv, Start \/ Spawn \/ Shutdown \/ NotifyAll \/ Join PROVE IInv'
  <1>1. TypeOK'
    BY DEF IInv, TypeOK, Start, Spawn, Shutdown, NotifyAll, Join, Wake, ring
  <1>2. EveryMessageOnce'
    BY MessagesStay DEF IInv, Start, Spawn, Shutdown, NotifyAll, Join
  <1>3. StopInOrder'
    BY DEF IInv, TypeOK, StopInOrder, Start, Spawn, Shutdown, NotifyAll, Join,
       Wake, ring
  <1>4. QED
    BY <1>1, <1>2, <1>3 DEF IInv

LEMMA SetStopInvariant ==
  ASSUME IInv, SetStop PROVE IInv'
  <1>1. TypeOK'
    BY DEF IInv, TypeOK, SetStop
  <1>2. EveryMessageOnce'
    BY DEF IInv, EveryMessageOnce, Slot, SetStop
  <1>3. worker # "exited"
    BY DEF IInv, StopInOrder, SetStop
  <1>4. StopInOrder'
    BY <1>3 DEF IInv, TypeOK, StopInOrder, SetStop
  <1>5. QED
    BY <1>1, <1>2, <1>4 DEF IInv

-----------------------------------------------------------------------------
LEMMA StepInvariant == IInv /\ [Next]_vars => IInv'
  <1>1. ASSUME IInv, UNCHANGED vars PROVE IInv'
    BY <1>1 DEF IInv, TypeOK, EveryMessageOnce, StopInOrder, Slot, vars, ring
  <1>2. ASSUME IInv, NEW t \in Threads, Logging(t) PROVE IInv'
    BY <1>2, TalkInvariant, PushInvariant DEF Logging
  <1>3. ASSUME IInv, Working \/ SpuriousWakeUp PROVE IInv'
    BY <1>3, SleepInvariant, PopBatchInvariant, ExitInvariant, WriteInvariant
    DEF Working
  <1>4. ASSUME IInv, Start \/ Spawn \/ Shutdown \/ Stopping PROVE IInv'
    BY <1>4, MainInvariant, SetStopInvariant DEF Stopping
  <1>5. QED
    BY <1>1, <1>2, <1>3, <1>4 DEF Next, Gone

\* The inductive invariant holds of the logger.
THEOREM Invariant == Spec => []IInv
  <1>1. QED
    BY InitInvariant, StepInvariant, PTL DEF Spec

\* The variables keep their types: in particular count never exceeds the
\* ring's capacity, so a batch fits in the worker's array.
THEOREM TypeCorrect == Spec => []TypeOK
  <1>1. IInv => TypeOK
    BY DEF IInv
  <1>2. QED
    BY <1>1, Invariant, PTL

\* No accepted message is lost, doubled or reordered between push() and the
\* file.
THEOREM MessagesKept == Spec => []EveryMessageOnce
  <1>1. IInv => EveryMessageOnce
    BY DEF IInv
  <1>2. QED
    BY <1>1, Invariant, PTL

\* When shutdown() returns, what was accepted before the stop is written.
THEOREM ShutdownKeepsPromise == Spec => []ShutdownFlushes
  <1>1. IInv => ShutdownFlushes
    BY DEF IInv, StopInOrder, ShutdownFlushes
  <1>2. QED
    BY <1>1, Invariant, PTL
=============================================================================
