----------------------------- MODULE LoginGuard ------------------------------
(***************************************************************************)
(* LoginGuard: failed logins of a phone are counted in Redis and lock it.  *)
(* Two keys: login:fail, the count, which lives lockSeconds from its first *)
(* failure on, and login:lock.  A Lua script is one step.  Time is the     *)
(* order in which keys expire.                                             *)
(***************************************************************************)
EXTENDS Integers, FiniteSets

CONSTANTS
  Phones,
  MaxFail   \* max_fail

ASSUME GuardAssumption == MaxFail \in Nat \ {0}

VARIABLES
  fail,   \* login:fail, [Phones -> Nat]; 0 when there is no such key
  lock,   \* login:lock; Redis rounds its TTL, which in the "ending" half second is 0
  misses, \* ghost: failures counted since the phone was last locked
  resets  \* ghost: how often since then the count was deleted or expired

guardVars == <<fail, lock, misses, resets>>

GuardInit ==
  /\ fail = [p \in Phones |-> 0]
  /\ lock = [p \in Phones |-> "off"]
  /\ misses = [p \in Phones |-> 0]
  /\ resets = [p \in Phones |-> 0]

GuardTypeOK ==
  /\ fail \in [Phones -> Nat]
  /\ lock \in [Phones -> {"off", "on", "ending"}]
  /\ misses \in [Phones -> Nat] /\ resets \in [Phones -> Nat]

-----------------------------------------------------------------------------
(* The scripts *)

\* kCheckScript and checkLocked, which asks for ttl > 0.
\* Mutant: nothing is ever locked, as when the guard is not asked.
NeverLocked(p) == FALSE
IsLocked(p) == lock[p] = "on"

\* kOnFailureScript asks EXISTS: a lock that is ending is still there.
AlreadyLocked(p) == lock[p] # "off" /\ UNCHANGED guardVars

\* n >= maxFail, of the count with this failure in it.
\* Mutant: the failure itself is left out.
ReachesLate(p) == fail[p] >= MaxFail
Reaches(p) == fail[p] + 1 >= MaxFail

Counting(p) ==
  /\ lock[p] = "off" /\ ~Reaches(p)
  /\ fail' = [fail EXCEPT ![p] = @ + 1]
  /\ misses' = [misses EXCEPT ![p] = @ + 1]
  /\ UNCHANGED <<lock, resets>>

\* SETEX of the lock and DEL of the count, in one step.
\* Mutant: the count is left to expire.
Locks(p) ==
  /\ lock[p] = "off" /\ Reaches(p)
  /\ lock' = [lock EXCEPT ![p] = "on"]
  /\ misses' = [misses EXCEPT ![p] = 0]
  /\ resets' = [resets EXCEPT ![p] = 0]
LockedNowKeeps(p) == Locks(p) /\ fail' = [fail EXCEPT ![p] = @ + 1]
LockedNow(p) == Locks(p) /\ fail' = [fail EXCEPT ![p] = 0]

OnFailure(p) == AlreadyLocked(p) \/ Counting(p) \/ LockedNow(p)

\* onSuccess deletes the count and leaves the lock.
OnSuccess(p) ==
  /\ fail' = [fail EXCEPT ![p] = 0]
  /\ resets' = [resets EXCEPT ![p] = @ + 1]
  /\ UNCHANGED <<lock, misses>>

-----------------------------------------------------------------------------
(* Keys expire *)

FailTtl(p) == fail[p] > 0 /\ OnSuccess(p)

LockEnds(p) ==
  /\ lock[p] # "off"
  /\ lock' = [lock EXCEPT ![p] = IF @ = "on" THEN "ending" ELSE "off"]
  /\ UNCHANGED <<fail, misses, resets>>

GuardNext == \E p \in Phones : FailTtl(p) \/ LockEnds(p)

-----------------------------------------------------------------------------
(* Properties *)

\* A phone is locked only after MaxFail failures that were counted since it
\* was locked before: neither the count that led to the last lock nor the
\* failures that arrived while it held count a second time (kOnFailureScript).
LocksAreEarned ==
  [][\A p \in Phones :
        lock'[p] = "on" /\ lock[p] # "on" => lock[p] = "off" /\ misses[p] + 1 >= MaxFail
    ]_guardVars

\* However many logins fail at the same time, MaxFail - 1 of them between two
\* resets of the count are all that go by without a lock (LoginGuard.h:8-13).
GuessesAreBounded ==
  \A p \in Phones : misses[p] <= (MaxFail - 1) * (resets[p] + 1)

\* What makes it so: the count holds the failures since the last reset.
CountInv ==
  \A p \in Phones :
     /\ fail[p] <= misses[p] /\ fail[p] < MaxFail
     /\ misses[p] <= (MaxFail - 1) * resets[p] + fail[p]
=============================================================================
