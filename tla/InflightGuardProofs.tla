------------------------ MODULE InflightGuardProofs ------------------------
(***************************************************************************)
(* InflightGuard keeps its sets exclusive, its marks exact, and implements *)
(* Gate: for any requests, keys, shards, bitmap size and captures.         *)
(***************************************************************************)
EXTENDS InflightGuard, TLAPS

\* A request's shard is one of the shards.
LEMMA ShardInRange == \A r \in Reqs : Shard(r) \in 0..(Shards - 1)
  <1>1. SUFFICES ASSUME NEW r \in Reqs PROVE Shard(r) \in 0..(Shards - 1)
    OBVIOUS
  <1>2. Key[r] \in Nat /\ Shards \in Nat \ {0}
    BY GuardAssumption
  <1>3. QED
    BY <1>2 DEF Shard

\* A request's mark never changes, since the mode does not.
LEMMA MarkFixed == ASSUME mode' = mode PROVE \A r \in Reqs : Mark(r)' = Mark(r)
  BY DEF Mark, Locking

\* Without locks or bitmap, a request's mark is its own.
LEMMA OwnMark == ASSUME mode = "none" PROVE \A r \in Reqs : Mark(r) = r
  BY DEF Mark, Locking

\* Under locks, requests with one mark have one shard.
LEMMA SameMarkSameShard ==
  ASSUME Locking, NEW q \in Reqs, NEW r \in Reqs, Mark(q) = Mark(r)
  PROVE  Shard(q) = Shard(r)
  <1>1. Mark(q) = Key[q] /\ Mark(r) = Key[r]
    BY DEF Mark, Locking
  <1>2. QED
    BY <1>1 DEF Shard

\* Whoever is inside a shard is there alone, and so is every mark looked at.
LEMMA OthersElsewhere ==
  ASSUME IInv, NEW r \in Reqs, Inside(r)
  PROVE  \A q \in Reqs : q # r /\ Inside(q) =>
           Shard(q) # Shard(r) /\ Mark(q) # Mark(r)
  <1>1. ASSUME NEW q \in Reqs, q # r, Inside(q) PROVE Shard(q) # Shard(r)
    BY <1>1 DEF IInv, InsideAlone
  <1>2. Locking
    BY DEF IInv, InsideAlone
  <1>3. QED
    BY <1>1, <1>2, SameMarkSameShard

LEMMA InitInvariant == Init => IInv
  BY GuardAssumption DEF Init, IInv, TypeOK, InsideAlone, MarksMatchHolders,
     Inside, Holders, Places

-----------------------------------------------------------------------------
LEMMA PassThroughInvariant ==
  ASSUME IInv, NEW r \in Reqs, PassThrough(r) PROVE IInv'
  <1> USE DEF IInv
  <1>1. TypeOK'
    BY ShardInRange DEF TypeOK, Places, PassThrough, Goto, HandOut
  <1>m. mode' = mode /\ \A q \in Reqs : Mark(q)' = Mark(q)
    BY MarkFixed DEF PassThrough
  <1>2. InsideAlone'
    BY <1>m, ShardInRange, OwnMark, GuardAssumption DEF TypeOK, InsideAlone, MarksMatchHolders, Inside, Holders, Locking, Places, Shard, PassThrough, Goto, HandOut
  <1>3. MarksMatchHolders'
    BY <1>m, OwnMark DEF TypeOK, InsideAlone, MarksMatchHolders, Inside, Holders, Locking, Places, PassThrough, Goto, HandOut
  <1>4. QED
    BY <1>1, <1>2, <1>3

LEMMA LockInvariant ==
  ASSUME IInv, NEW r \in Reqs, Lock(r) PROVE IInv'
  <1> USE DEF IInv
  <1>1. TypeOK'
    BY ShardInRange DEF TypeOK, Places, Lock, Goto, Acquired
  <1>m. mode' = mode /\ \A q \in Reqs : Mark(q)' = Mark(q)
    BY MarkFixed DEF Lock
  <1>2. InsideAlone'
    BY <1>m, ShardInRange, OwnMark, GuardAssumption DEF TypeOK, InsideAlone, MarksMatchHolders, Inside, Holders, Locking, Places, Shard, Lock, Goto, Acquired
  <1>3. MarksMatchHolders'
    <2>1. Holders' = Holders
      BY DEF TypeOK, Holders, Lock, Goto
    <2>2. \A q \in Reqs : copies'[q] > 0 <=> pc'[q] = "held"
      BY DEF TypeOK, MarksMatchHolders, Lock, Goto
    <2>3. QED
      BY <1>m, <2>1, <2>2 DEF MarksMatchHolders, Holders, Lock
  <1>4. QED
    BY <1>1, <1>2, <1>3

LEMMA LookInvariant ==
  ASSUME IInv, NEW r \in Reqs, Look(r) PROVE IInv'
  <1>m. mode' = mode /\ \A q \in Reqs : Mark(q)' = Mark(q)
    BY MarkFixed DEF Look
  <1>1. Inside(r) /\ r \notin Holders
    BY DEF Look, Inside, Holders
  <1>2. PICK place \in {"present", "absent"} :
          /\ pc' = [pc EXCEPT ![r] = place]
          /\ place = "present" <=> Mark(r) \in marks
    BY DEF Look, Goto
  <1>3. TypeOK'
    BY <1>2 DEF IInv, TypeOK, Places, Look
  <1>4. InsideAlone'
    BY <1>m, <1>1, <1>2 DEF IInv, TypeOK, InsideAlone, Inside, Locking, Shard, Look
  <1>5. Holders' = Holders
    BY <1>1, <1>2 DEF IInv, TypeOK, Holders
  <1>6. MarksMatchHolders'
    BY <1>m, <1>1, <1>2, <1>5 DEF IInv, TypeOK, MarksMatchHolders, Inside, Holders, Look
  <1>7. QED
    BY <1>3, <1>4, <1>6 DEF IInv

LEMMA InsertInvariant ==
  ASSUME IInv, NEW r \in Reqs, Insert(r) PROVE IInv'
  <1>m. mode' = mode /\ \A q \in Reqs : Mark(q)' = Mark(q)
    BY MarkFixed DEF Insert
  <1>1. Inside(r)
    BY DEF Insert, Inside
  <1>2. TypeOK'
    BY ShardInRange DEF IInv, TypeOK, Places, Insert, Goto, HandOut, Unlock
  <1>3. InsideAlone'
    <2>1. SUFFICES ASSUME NEW q \in Reqs, Inside(q)'
                   PROVE  /\ Locking' /\ lock'[Shard(q)] = q
                          /\ pc'[q] = "absent" => Mark(q) \notin marks'
                          /\ pc'[q] = "present" => Mark(q) \in marks'
      BY <1>m DEF InsideAlone, Shard
    <2>2. q # r /\ Inside(q) /\ pc'[q] = pc[q]
      BY <2>1 DEF IInv, TypeOK, Inside, Insert, HandOut, Goto
    <2>3. Shard(q) # Shard(r) /\ Mark(q) # Mark(r)
      BY <1>1, <2>2, OthersElsewhere
    <2>4. QED
      BY <1>m, <2>2, <2>3, ShardInRange
      DEF IInv, TypeOK, InsideAlone, Locking, Insert, Unlock
  <1>4. MarksMatchHolders'
    <2>1. Mark(r) \notin marks /\ mode # "none"
      BY <1>1 DEF IInv, InsideAlone, Insert, Locking
    <2>2. Holders' = Holders \cup {r}
      BY DEF IInv, TypeOK, Holders, Insert, HandOut, Goto
    <2>3. \A q \in Reqs : copies'[q] > 0 <=> pc'[q] = "held"
      BY DEF IInv, TypeOK, MarksMatchHolders, Insert, HandOut, Goto
    <2>4. QED
      BY <1>m, <2>1, <2>2, <2>3 DEF IInv, MarksMatchHolders, Holders, Insert
  <1>5. QED
    BY <1>2, <1>3, <1>4 DEF IInv

LEMMA RejectInvariant ==
  ASSUME IInv, NEW r \in Reqs, Reject(r) PROVE IInv'
  <1> USE DEF IInv
  <1>1. TypeOK'
    BY ShardInRange DEF TypeOK, Places, Reject, Goto, Unlock
  <1>m. mode' = mode /\ \A q \in Reqs : Mark(q)' = Mark(q)
    BY MarkFixed DEF Reject
  <1>2. InsideAlone'
    BY <1>m, ShardInRange, OwnMark, GuardAssumption DEF TypeOK, InsideAlone, MarksMatchHolders, Inside, Holders, Locking, Places, Shard, Reject, Goto, Unlock
  <1>3. MarksMatchHolders'
    <2>1. Holders' = Holders
      BY DEF TypeOK, Holders, Reject, Goto
    <2>2. \A q \in Reqs : copies'[q] > 0 <=> pc'[q] = "held"
      BY DEF TypeOK, MarksMatchHolders, Reject, Goto
    <2>3. QED
      BY <1>m, <2>1, <2>2 DEF MarksMatchHolders, Holders, Reject
  <1>4. QED
    BY <1>1, <1>2, <1>3

LEMMA FetchOrInvariant ==
  ASSUME IInv, NEW r \in Reqs, FetchOr(r) PROVE IInv'
  <1>m. mode' = mode /\ \A q \in Reqs : Mark(q)' = Mark(q)
    BY MarkFixed DEF FetchOr
  <1>1. ~Locking /\ r \notin Holders
    BY DEF FetchOr, Locking, Holders
  <1>2. InsideAlone'
    BY <1>m, <1>1 DEF IInv, TypeOK, InsideAlone, Inside, Locking, FetchOr, HandOut, Goto
  <1>3. CASE Mark(r) \in marks
    <2>1. pc' = [pc EXCEPT ![r] = "refused"] /\ copies' = copies /\ marks' = marks
      BY <1>3 DEF FetchOr, Goto
    <2>2. TypeOK' /\ Holders' = Holders
      BY <1>1, <2>1 DEF IInv, TypeOK, Places, Holders, FetchOr
    <2>3. MarksMatchHolders'
      BY <1>m, <2>1, <2>2 DEF IInv, TypeOK, MarksMatchHolders, Holders, FetchOr
    <2>4. QED
      BY <1>2, <2>2, <2>3 DEF IInv
  <1>4. CASE Mark(r) \notin marks
    <2>1. /\ pc' = [pc EXCEPT ![r] = "held"]
          /\ copies' = [copies EXCEPT ![r] = 1]
          /\ marks' = marks \cup {Mark(r)}
      BY <1>4 DEF FetchOr, HandOut, Goto
    <2>2. TypeOK' /\ Holders' = Holders \cup {r}
      BY <1>1, <2>1 DEF IInv, TypeOK, Places, Holders, FetchOr
    <2>3. MarksMatchHolders'
      BY <1>m, <1>4, <2>1, <2>2 DEF IInv, TypeOK, MarksMatchHolders, Holders, FetchOr
    <2>4. QED
      BY <1>2, <2>2, <2>3 DEF IInv
  <1>5. QED
    BY <1>3, <1>4

LEMMA CaptureInvariant ==
  ASSUME IInv, NEW r \in Reqs, Capture(r) PROVE IInv'
  <1> USE DEF IInv
  <1>1. TypeOK'
    BY ShardInRange DEF TypeOK, Places, Capture, Goto
  <1>m. mode' = mode /\ \A q \in Reqs : Mark(q)' = Mark(q)
    BY MarkFixed DEF Capture
  <1>2. InsideAlone'
    BY <1>m, ShardInRange, OwnMark, GuardAssumption DEF TypeOK, InsideAlone, MarksMatchHolders, Inside, Holders, Locking, Places, Shard, Capture, Goto
  <1>3. MarksMatchHolders'
    BY <1>m, OwnMark DEF TypeOK, InsideAlone, MarksMatchHolders, Inside, Holders, Locking, Places, Capture, Goto
  <1>4. QED
    BY <1>1, <1>2, <1>3

LEMMA DestroyInvariant ==
  ASSUME IInv, NEW r \in Reqs, Destroy(r) PROVE IInv'
  <1>m. mode' = mode /\ \A q \in Reqs : Mark(q)' = Mark(q)
    BY MarkFixed DEF Destroy
  <1>1. copies[r] \in Nat \ {0}
    BY DEF IInv, TypeOK, MarksMatchHolders, Destroy
  <1>2. PICK place \in {"held", "releasing"} :
          /\ pc' = [pc EXCEPT ![r] = place]
          /\ place = "held" <=> copies[r] # 1
    BY DEF IInv, TypeOK, Destroy, Goto
  <1>3. TypeOK'
    BY <1>1, <1>2 DEF IInv, TypeOK, Places, Destroy
  <1>4. InsideAlone'
    BY <1>m, <1>2 DEF IInv, TypeOK, InsideAlone, Inside, Locking, Shard, Destroy
  <1>5. Holders' = Holders
    BY <1>2 DEF IInv, TypeOK, Holders, Destroy
  <1>6. MarksMatchHolders'
    <2>1. \A q \in Reqs : copies'[q] > 0 <=> pc'[q] = "held"
      BY <1>1, <1>2 DEF IInv, TypeOK, MarksMatchHolders, Destroy
    <2>2. QED
      BY <1>m, <1>5, <2>1 DEF IInv, MarksMatchHolders, Holders, Destroy
  <1>7. QED
    BY <1>3, <1>4, <1>6 DEF IInv

LEMMA LockAgainInvariant ==
  ASSUME IInv, NEW r \in Reqs, LockAgain(r) PROVE IInv'
  <1> USE DEF IInv
  <1>1. TypeOK'
    BY ShardInRange DEF TypeOK, Places, LockAgain, Goto, Acquired
  <1>m. mode' = mode /\ \A q \in Reqs : Mark(q)' = Mark(q)
    BY MarkFixed DEF LockAgain
  <1>2. InsideAlone'
    BY <1>m, ShardInRange, OwnMark, GuardAssumption DEF TypeOK, InsideAlone, MarksMatchHolders, Inside, Holders, Locking, Places, Shard, LockAgain, Goto, Acquired
  <1>3. MarksMatchHolders'
    BY <1>m, OwnMark DEF TypeOK, InsideAlone, MarksMatchHolders, Inside, Holders, Locking, Places, LockAgain, Goto, Acquired
  <1>4. QED
    BY <1>1, <1>2, <1>3

LEMMA EraseInvariant ==
  ASSUME IInv, NEW r \in Reqs, Erase(r) PROVE IInv'
  <1>m. mode' = mode /\ \A q \in Reqs : Mark(q)' = Mark(q)
    BY MarkFixed DEF Erase
  <1>1. Inside(r) /\ r \in Holders
    BY DEF Erase, Inside, Holders
  <1>2. TypeOK'
    BY ShardInRange DEF IInv, TypeOK, Places, Erase, Goto, Unlock
  <1>3. InsideAlone'
    <2>1. SUFFICES ASSUME NEW q \in Reqs, Inside(q)'
                   PROVE  /\ Locking' /\ lock'[Shard(q)] = q
                          /\ pc'[q] = "absent" => Mark(q) \notin marks'
                          /\ pc'[q] = "present" => Mark(q) \in marks'
      BY <1>m DEF InsideAlone, Shard
    <2>2. q # r /\ Inside(q) /\ pc'[q] = pc[q]
      BY <2>1 DEF IInv, TypeOK, Inside, Erase, Goto
    <2>3. Shard(q) # Shard(r) /\ Mark(q) # Mark(r)
      BY <1>1, <2>2, OthersElsewhere
    <2>4. QED
      BY <1>m, <2>2, <2>3, ShardInRange
      DEF IInv, TypeOK, InsideAlone, Locking, Erase, Unlock, Unmark
  <1>4. MarksMatchHolders'
    BY <1>m DEF IInv, TypeOK, InsideAlone, MarksMatchHolders, Inside, Holders,
                Erase, Goto, Unmark
  <1>5. QED
    BY <1>2, <1>3, <1>4 DEF IInv

LEMMA FetchAndInvariant ==
  ASSUME IInv, NEW r \in Reqs, FetchAnd(r) PROVE IInv'
  <1> USE DEF IInv
  <1>1. TypeOK'
    BY ShardInRange DEF TypeOK, Places, FetchAnd, Goto, Unmark
  <1>m. mode' = mode /\ \A q \in Reqs : Mark(q)' = Mark(q)
    BY MarkFixed DEF FetchAnd
  <1>2. InsideAlone'
    BY <1>m, ShardInRange, OwnMark, GuardAssumption DEF TypeOK, InsideAlone, MarksMatchHolders, Inside, Holders, Locking, Places, Shard, FetchAnd, Goto, Unmark
  <1>3. MarksMatchHolders'
    BY <1>m, OwnMark DEF TypeOK, InsideAlone, MarksMatchHolders, Inside, Holders, Locking, Places, FetchAnd, Goto, Unmark
  <1>4. QED
    BY <1>1, <1>2, <1>3

-----------------------------------------------------------------------------
LEMMA StepInvariant == IInv /\ [Next]_vars => IInv'
  <1>1. ASSUME IInv, UNCHANGED vars PROVE IInv'
    BY <1>1 DEF IInv, TypeOK, InsideAlone, MarksMatchHolders, Inside, Holders,
                Locking, Shard, Mark, vars
  <1>2. ASSUME IInv, NEW r \in Reqs, TryAcquire(r) \/ Capture(r) \/ GiveBack(r)
        PROVE  IInv'
    BY <1>2, PassThroughInvariant, LockInvariant, LookInvariant,
       InsertInvariant, RejectInvariant, FetchOrInvariant,
       CaptureInvariant, DestroyInvariant, LockAgainInvariant,
       EraseInvariant, FetchAndInvariant
    DEF TryAcquire, GiveBack
  <1>3. QED
    BY <1>1, <1>2 DEF Next, Finished

\* In every reachable state the shards are exclusive and the marks exact.
THEOREM Invariant == Spec => []IInv
  <1>1. QED
    BY InitInvariant, StepInvariant, PTL DEF Spec

\* The variables keep their types.
THEOREM TypeCorrect == Spec => []TypeOK
  <1>1. IInv => TypeOK
    BY DEF IInv
  <1>2. QED
    BY <1>1, Invariant, PTL

\* No two threads are inside one hash set, and what a thread saw in it holds
\* until it leaves.
THEOREM AloneInside == Spec => []InsideAlone
  <1>1. IInv => InsideAlone
    BY DEF IInv
  <1>2. QED
    BY <1>1, Invariant, PTL

\* Marks are those of the live tokens, and no two tokens share a mark.
THEOREM MarksExact == Spec => []MarksMatchHolders
  <1>1. IInv => MarksMatchHolders
    BY DEF IInv
  <1>2. QED
    BY <1>1, Invariant, PTL

-----------------------------------------------------------------------------
(* The guard implements the gate *)

LEMMA InitRefines == Init => G!Init
  BY DEF Init, G!Init, Verdict, Holders

\* Before its verdict a request holds nothing; a mark that is set is held.
LEMMA FoundIsTaken ==
  ASSUME IInv, NEW r \in Reqs, mode # "none"
  PROVE  G!Taken(r) <=> Mark(r) \in marks
  BY DEF IInv, MarksMatchHolders, G!Taken, Slots, Holders

LEMMA SlotsFixed == ASSUME mode' = mode PROVE Slots' = Slots
  BY MarkFixed DEF Slots

LEMMA LockRefines ==
  ASSUME IInv, NEW r \in Reqs, Lock(r)
  PROVE  UNCHANGED <<Slots, Verdict, Holders>>
  <1>1. Slots' = Slots
    BY SlotsFixed DEF Lock
  <1>2. Verdict' = Verdict /\ Holders' = Holders
    BY DEF IInv, TypeOK, Places, Verdict, Holders, Lock, Goto
  <1>3. QED
    BY <1>1, <1>2

LEMMA LookRefines ==
  ASSUME IInv, NEW r \in Reqs, Look(r)
  PROVE  UNCHANGED <<Slots, Verdict, Holders>>
  <1>1. Slots' = Slots
    BY SlotsFixed DEF Look
  <1>2. Verdict' = Verdict /\ Holders' = Holders
    BY DEF IInv, TypeOK, Places, Verdict, Holders, Look, Goto
  <1>3. QED
    BY <1>1, <1>2

LEMMA CaptureRefines ==
  ASSUME IInv, NEW r \in Reqs, Capture(r)
  PROVE  UNCHANGED <<Slots, Verdict, Holders>>
  <1>1. Slots' = Slots
    BY SlotsFixed DEF Capture
  <1>2. Verdict' = Verdict /\ Holders' = Holders
    BY DEF IInv, TypeOK, Places, Verdict, Holders, Capture
  <1>3. QED
    BY <1>1, <1>2

LEMMA DestroyRefines ==
  ASSUME IInv, NEW r \in Reqs, Destroy(r)
  PROVE  UNCHANGED <<Slots, Verdict, Holders>>
  <1>1. Slots' = Slots
    BY SlotsFixed DEF Destroy
  <1>2. Verdict' = Verdict /\ Holders' = Holders
    BY DEF IInv, TypeOK, Places, Verdict, Holders, Destroy, Goto
  <1>3. QED
    BY <1>1, <1>2

LEMMA LockAgainRefines ==
  ASSUME IInv, NEW r \in Reqs, LockAgain(r)
  PROVE  UNCHANGED <<Slots, Verdict, Holders>>
  <1>1. Slots' = Slots
    BY SlotsFixed DEF LockAgain
  <1>2. Verdict' = Verdict /\ Holders' = Holders
    BY DEF IInv, TypeOK, Places, Verdict, Holders, LockAgain, Goto
  <1>3. QED
    BY <1>1, <1>2

LEMMA PassThroughRefines ==
  ASSUME IInv, NEW r \in Reqs, PassThrough(r)
  PROVE  G!Acquire(r)
  <1>1. Slots' = Slots
    BY SlotsFixed DEF PassThrough
  <1>2. ~G!Taken(r)
    BY OwnMark DEF PassThrough, G!Taken, Slots, Holders
  <1>3. /\ Verdict[r] = "none"
        /\ Verdict' = [Verdict EXCEPT ![r] = "valid"]
        /\ Holders' = Holders \cup {r}
    BY DEF IInv, TypeOK, Verdict, Holders, PassThrough, HandOut, Goto
  <1>4. QED
    BY <1>1, <1>2, <1>3 DEF G!Acquire

LEMMA InsertRefines ==
  ASSUME IInv, NEW r \in Reqs, Insert(r)
  PROVE  G!Acquire(r)
  <1>1. Slots' = Slots
    BY SlotsFixed DEF Insert
  <1>2. ~G!Taken(r)
    BY FoundIsTaken DEF IInv, InsideAlone, Inside, Locking, Insert
  <1>3. /\ Verdict[r] = "none"
        /\ Verdict' = [Verdict EXCEPT ![r] = "valid"]
        /\ Holders' = Holders \cup {r}
    BY DEF IInv, TypeOK, Verdict, Holders, Insert, HandOut, Goto
  <1>4. QED
    BY <1>1, <1>2, <1>3 DEF G!Acquire

LEMMA RejectRefines ==
  ASSUME IInv, NEW r \in Reqs, Reject(r)
  PROVE  G!Refuse(r)
  <1>1. Slots' = Slots
    BY SlotsFixed DEF Reject
  <1>2. G!Taken(r)
    BY FoundIsTaken DEF IInv, InsideAlone, Inside, Locking, Reject
  <1>3. /\ Verdict[r] = "none"
        /\ Verdict' = [Verdict EXCEPT ![r] = "empty"]
        /\ Holders' = Holders
    BY DEF IInv, TypeOK, Verdict, Holders, Reject, Goto
  <1>4. QED
    BY <1>1, <1>2, <1>3 DEF G!Refuse

LEMMA FetchOrRefines ==
  ASSUME IInv, NEW r \in Reqs, FetchOr(r)
  PROVE  G!Acquire(r) \/ G!Refuse(r)
  <1>1. Slots' = Slots
    BY SlotsFixed DEF FetchOr
  <1>2. G!Taken(r) <=> Mark(r) \in marks
    BY FoundIsTaken DEF FetchOr
  <1>3. CASE Mark(r) \in marks
    <2>1. pc' = [pc EXCEPT ![r] = "refused"]
      BY <1>3 DEF FetchOr, Goto
    <2>2. /\ Verdict[r] = "none"
          /\ Verdict' = [Verdict EXCEPT ![r] = "empty"]
          /\ Holders' = Holders
      BY <2>1 DEF IInv, TypeOK, Verdict, Holders, FetchOr
    <2>3. QED
      BY <1>1, <1>2, <1>3, <2>2 DEF G!Refuse
  <1>4. CASE Mark(r) \notin marks
    <2>1. pc' = [pc EXCEPT ![r] = "held"]
      BY <1>4 DEF FetchOr, HandOut, Goto
    <2>2. /\ Verdict[r] = "none"
          /\ Verdict' = [Verdict EXCEPT ![r] = "valid"]
          /\ Holders' = Holders \cup {r}
      BY <2>1 DEF IInv, TypeOK, Verdict, Holders, FetchOr
    <2>3. QED
      BY <1>1, <1>2, <1>4, <2>2 DEF G!Acquire
  <1>5. QED
    BY <1>3, <1>4

LEMMA EraseRefines ==
  ASSUME IInv, NEW r \in Reqs, Erase(r)
  PROVE  G!Release(r)
  <1>1. Slots' = Slots
    BY SlotsFixed DEF Erase
  <1>2. r \in Holders
    BY DEF Holders, Erase
  <1>3. Verdict' = Verdict /\ Holders' = Holders \ {r}
    BY DEF IInv, TypeOK, Verdict, Holders, Erase, Goto
  <1>4. QED
    BY <1>1, <1>2, <1>3 DEF G!Release

LEMMA FetchAndRefines ==
  ASSUME IInv, NEW r \in Reqs, FetchAnd(r)
  PROVE  G!Release(r)
  <1>1. Slots' = Slots
    BY SlotsFixed DEF FetchAnd
  <1>2. r \in Holders
    BY DEF Holders, FetchAnd
  <1>3. Verdict' = Verdict /\ Holders' = Holders \ {r}
    BY DEF IInv, TypeOK, Verdict, Holders, FetchAnd, Goto
  <1>4. QED
    BY <1>1, <1>2, <1>3 DEF G!Release

LEMMA StepRefines ==
  IInv /\ [Next]_vars => [G!Next]_<<Slots, Verdict, Holders>>
  <1>1. ASSUME UNCHANGED vars PROVE UNCHANGED <<Slots, Verdict, Holders>>
    BY <1>1 DEF Slots, Verdict, Holders, Mark, Locking, vars
  <1>2. ASSUME IInv, NEW r \in Reqs, TryAcquire(r) \/ Capture(r) \/ GiveBack(r)
        PROVE  [G!Next]_<<Slots, Verdict, Holders>>
    BY <1>2, PassThroughRefines, LockRefines, LookRefines, InsertRefines,
       RejectRefines, FetchOrRefines, CaptureRefines, DestroyRefines,
       LockAgainRefines, EraseRefines, FetchAndRefines
    DEF TryAcquire, GiveBack, G!Next
  <1>3. QED
    BY <1>1, <1>2 DEF Next, Finished

\* Every call is refused or accepted as the gate allows, at one point inside
\* the call, whatever the threads do.
THEOREM GuardImplementsGate == Spec => ImplementsGate
  <1>1. QED
    BY InitRefines, StepRefines, Invariant, PTL DEF Spec, ImplementsGate, G!Spec
=============================================================================
