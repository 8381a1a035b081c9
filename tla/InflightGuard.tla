--------------------------- MODULE InflightGuard ---------------------------
(***************************************************************************)
(* InflightGuard: the in-flight marks behind SeckillOrder's gate, step by  *)
(* step.  Mutex and spin lock guard one hash set per shard; the atomic     *)
(* bitmap has no lock; mode none marks nothing.  The token is a shared_ptr *)
(* captured by the lambdas of a request, which die on any thread: the      *)
(* death of the last copy runs the deleter, which clears the mark.         *)
(***************************************************************************)
EXTENDS Integers

CONSTANTS
  Reqs,      \* calls of tryAcquire
  Key,       \* [Reqs -> Nat]: makeKey of user and sku, 64 bits
  Shards,    \* the shards parameter, 64
  Bits,      \* seckill_lock.bits
  WordBits,  \* bits of a bitmap word: 64
  Modes,     \* the modes to start in
  Captures,  \* lambdas of a request that copy its token
  Free       \* not a request: nobody holds the lock

VARIABLES
  mode,      \* seckill_lock.mode
  pc,        \* [Reqs -> Places]
  lock,      \* [0..Shards-1 -> Reqs or Free]: mutexes_ or spins_
  marks,     \* keys in sets_, or <<word, bit>> set in bitmap_
  copies,    \* [Reqs -> Nat]: the use count of the token's shared_ptr
  captures   \* [Reqs -> Nat]: captures the request has still to make

vars == <<mode, pc, lock, marks, copies, captures>>

Places == {"start", "locked", "absent", "present", "held", "refused",
           "releasing", "erasing", "done"}

ASSUME GuardAssumption ==
  /\ Key \in [Reqs -> Nat]
  /\ Shards \in Nat \ {0} /\ Bits \in Nat \ {0} /\ WordBits \in Nat \ {0}
  /\ Modes \subseteq {"none", "mutex", "spin", "atomic"}
  /\ Captures \in Nat
  /\ Free \notin Reqs

Init ==
  /\ mode \in Modes
  /\ pc = [r \in Reqs |-> "start"]
  /\ lock = [i \in 0..(Shards - 1) |-> Free]
  /\ marks = {}
  /\ copies = [r \in Reqs |-> 0]
  /\ captures = [r \in Reqs |-> Captures]

Goto(r, place) == pc' = [pc EXCEPT ![r] = place]

Locking == mode \in {"mutex", "spin"}

Shard(r) == Key[r] % Shards

\* What a mark of r sets: its key in a hash set, its bit in the bitmap, or
\* nothing that another request could find.
Mark(r) ==
  CASE Locking -> Key[r]
    [] mode = "atomic" -> <<(Key[r] % Bits) \div WordBits, Key[r] % WordBits>>
    [] OTHER -> r

\* lock_guard on the shard of r.  Mutant: the lock is not taken.
NotLocked(r) == UNCHANGED lock
Acquired(r) ==
  /\ lock[Shard(r)] = Free
  /\ lock' = [lock EXCEPT ![Shard(r)] = r]

Unlock(r) == lock' = [lock EXCEPT ![Shard(r)] = Free]

\* The caller gets the first copy of a token.
HandOut(r) ==
  /\ Goto(r, "held")
  /\ copies' = [copies EXCEPT ![r] = 1]

\* tryAcquire without a gate.
PassThrough(r) ==
  /\ mode = "none" /\ pc[r] = "start"
  /\ HandOut(r)
  /\ UNCHANGED <<mode, lock, marks, captures>>

\* tryAcquire under a shard lock: lock, look the key up, insert it, unlock.
Lock(r) ==
  /\ Locking /\ pc[r] = "start"
  /\ Acquired(r)
  /\ Goto(r, "locked")
  /\ UNCHANGED <<mode, marks, copies, captures>>

Look(r) ==
  /\ pc[r] = "locked"
  /\ Goto(r, IF Mark(r) \in marks THEN "present" ELSE "absent")
  /\ UNCHANGED <<mode, lock, marks, copies, captures>>

Insert(r) ==
  /\ pc[r] = "absent"
  /\ marks' = marks \cup {Mark(r)}
  /\ Unlock(r)
  /\ HandOut(r)
  /\ UNCHANGED <<mode, captures>>

Reject(r) ==
  /\ pc[r] = "present"
  /\ Unlock(r)
  /\ Goto(r, "refused")
  /\ UNCHANGED <<mode, marks, copies, captures>>

\* tryAcquire on the bitmap: one fetch_or.
FetchOr(r) ==
  /\ mode = "atomic" /\ pc[r] = "start"
  /\ marks' = marks \cup {Mark(r)}
  /\ \/ Mark(r) \in marks /\ Goto(r, "refused") /\ UNCHANGED copies
     \/ Mark(r) \notin marks /\ HandOut(r)
  /\ UNCHANGED <<mode, lock, captures>>

\* A lambda that captures the token is made.
Capture(r) ==
  /\ pc[r] = "held" /\ captures[r] > 0
  /\ copies' = [copies EXCEPT ![r] = @ + 1]
  /\ captures' = [captures EXCEPT ![r] = @ - 1]
  /\ UNCHANGED <<mode, pc, lock, marks>>

\* A copy of the token is destroyed; the last one runs the deleter.  Mutant:
\* lambdas that own each other keep the last copy.
DestroyInCycle(r) ==
  /\ pc[r] = "held" /\ copies[r] > 1
  /\ copies' = [copies EXCEPT ![r] = @ - 1]
  /\ UNCHANGED <<mode, pc, lock, marks, captures>>
Destroy(r) ==
  /\ pc[r] = "held"
  /\ copies' = [copies EXCEPT ![r] = @ - 1]
  /\ IF copies[r] = 1 THEN Goto(r, "releasing") ELSE UNCHANGED pc
  /\ UNCHANGED <<mode, lock, marks, captures>>

\* release under a shard lock.
LockAgain(r) ==
  /\ Locking /\ pc[r] = "releasing"
  /\ Acquired(r)
  /\ Goto(r, "erasing")
  /\ UNCHANGED <<mode, marks, copies, captures>>

\* sets_[idx].erase(key).  Mutant: the mark stays.
ForgetMark(r) == UNCHANGED marks
Unmark(r) == marks' = marks \ {Mark(r)}

Erase(r) ==
  /\ pc[r] = "erasing"
  /\ Unmark(r)
  /\ Unlock(r)
  /\ Goto(r, "done")
  /\ UNCHANGED <<mode, copies, captures>>

\* release on the bitmap (one fetch_and), or without a gate (nothing).
FetchAnd(r) ==
  /\ ~Locking /\ pc[r] = "releasing"
  /\ Unmark(r)
  /\ Goto(r, "done")
  /\ UNCHANGED <<mode, lock, copies, captures>>

TryAcquire(r) ==
  \/ PassThrough(r) \/ Lock(r) \/ Look(r) \/ Insert(r) \/ Reject(r) \/ FetchOr(r)

GiveBack(r) ==
  \/ Destroy(r) \/ LockAgain(r) \/ Erase(r) \/ FetchAnd(r)

\* All calls are over.
Finished ==
  /\ \A r \in Reqs : pc[r] \in {"refused", "done"}
  /\ UNCHANGED vars

Next == Finished \/ \E r \in Reqs : TryAcquire(r) \/ Capture(r) \/ GiveBack(r)

Spec == Init /\ [][Next]_vars

\* Threads keep running, so a thread inside a critical section leaves it and
\* lambdas die.  A shard's lock is not fair, but a request takes it at most
\* twice.  Nothing forces a call to be made.
Fairness ==
  \A r \in Reqs :
    /\ WF_vars(Look(r) \/ Insert(r) \/ Reject(r))
    /\ WF_vars(Destroy(r))
    /\ WF_vars(LockAgain(r) \/ Erase(r) \/ FetchAnd(r))

FairSpec == Spec /\ Fairness

-----------------------------------------------------------------------------
(* Properties *)

\* The requests whose mark must be set.
Holders == {r \in Reqs : pc[r] \in {"held", "releasing", "erasing"}}

TypeOK ==
  /\ mode \in {"none", "mutex", "spin", "atomic"}
  /\ pc \in [Reqs -> Places]
  /\ lock \in [0..(Shards - 1) -> Reqs \cup {Free}]
  /\ copies \in [Reqs -> Nat]
  /\ captures \in [Reqs -> Nat]

Inside(r) == pc[r] \in {"locked", "absent", "present", "erasing"}

\* The hash set of a shard is only touched by the thread that holds the
\* shard's lock (an unordered_set does not survive two threads), and what
\* that thread saw in it is still so when it acts on it.
InsideAlone ==
  \A r \in Reqs :
    Inside(r) =>
      /\ Locking /\ lock[Shard(r)] = r
      /\ pc[r] = "absent" => Mark(r) \notin marks
      /\ pc[r] = "present" => Mark(r) \in marks

\* A mark is set exactly while a token with copies exists for it, and two
\* tokens never share one: no release clears the mark of another request,
\* however many lambdas copied the tokens.
MarksMatchHolders ==
  /\ mode # "none" => marks = {Mark(r) : r \in Holders}
  /\ \A q, r \in Holders : Mark(q) = Mark(r) => q = r
  /\ \A r \in Reqs : copies[r] > 0 <=> pc[r] = "held"

\* The invariant that is inductive.
IInv == TypeOK /\ InsideAlone /\ MarksMatchHolders

\* No mark stays (InflightGuard.h 9-10: a mark that is forgotten keeps the
\* user from the sku for good): the deleter runs and gets the shard's lock.
MarksGoAway ==
  \A r \in Reqs : pc[r] # "start" ~> pc[r] \in {"refused", "done"}

\* What the gate sees: the mark of a request as its slot, the pc as verdict.
Slots == [r \in Reqs |-> Mark(r)]

Verdict == [r \in Reqs |->
  CASE pc[r] \in {"start", "locked", "absent", "present"} -> "none"
    [] pc[r] = "refused" -> "empty"
    [] OTHER -> "valid"]

G == INSTANCE Gate WITH slot <- Slots, verdict <- Verdict, holders <- Holders

\* The guard implements the gate: a call is refused exactly if another one
\* holds its key (in the bitmap: its bit), at one point inside the call.
ImplementsGate == G!Spec
=============================================================================
