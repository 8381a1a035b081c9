------------------------------ MODULE SkuCache ------------------------------
(***************************************************************************)
(* SkuCache: the cache of sku rows in Redis (L2) with an in-process LRU    *)
(* (L1) in front and an optional delayed second delete.  Every write to    *)
(* Redis is fire-and-forget on one of several pooled connections, so       *)
(* commands sent by one callback may be executed in any order relative to  *)
(* those of another, and may fail.                                         *)
(*                                                                         *)
(* Values: a cached JSON text is abstracted to the committed version of    *)
(* each row it shows, [skus -> version].  Version 0 is "no such row": an   *)
(* item key holding [s |-> 0] is the null sentinel of setNull.             *)
(***************************************************************************)
EXTENDS Integers, Sequences, FiniteSets

CONSTANTS
  Skus,              \* sku ids, positive integers
  CacheEnabled,      \* cache.enabled and a Redis client exists
  InvalidateOnOrder, \* "none", "item" or "all"
  DoubleDelete,      \* double_delete_ms > 0
  LocalCapacity,     \* entries of L1, 0 when local_enabled is false
  Spoilable,         \* keys somebody may write a value of another shape into
  Nil,               \* no value
  Garbage            \* a value that is not the JSON the readers expect

VARIABLES
  redis,   \* [Keys -> a value, Nil or Garbage]
  wire,    \* SETEX and DEL commands sent and not executed yet
  local,   \* L1, most recently used first: Seq([key, value, live])
  delayed, \* the delayed deleter's queue: Seq([keys, from, window])
  undone   \* ghost: a second delete failed, which nothing makes up for

cacheVars == <<redis, wire, local, delayed, undone>>

List == 0                 \* keys_.list(); keys_.item(s) is s itself
Keys == Skus \cup {List}

\* What the readers of a key can parse: a list, or one row.
Values(k) == IF k = List THEN [Skus -> Nat] ELSE [{k} -> Nat]

ASSUME SkusAssumption == Skus \subseteq Nat \ {0} /\ IsFiniteSet(Skus)

ASSUME CacheAssumption ==
  /\ CacheEnabled \in BOOLEAN /\ DoubleDelete \in BOOLEAN
  /\ InvalidateOnOrder \in {"none", "item", "all"}
  /\ LocalCapacity \in Nat
  /\ Spoilable \subseteq Keys

CacheInit ==
  /\ redis = [k \in Keys |-> Nil]
  /\ wire = {} /\ local = <<>> /\ delayed = <<>>
  /\ undone = FALSE

-----------------------------------------------------------------------------
(* L1: LocalLruCache *)

LocalKeys == {local[i].key : i \in DOMAIN local}
LocalAt(k) == CHOOSE i \in DOMAIN local : local[i].key = k
LocalHit(k) == k \in LocalKeys /\ local[LocalAt(k)].live

\* How many of the numbers of S are up to i, the j-th smallest of them, and the
\* entries of l at the positions is, in their order.
Rank(S, i) == Cardinality({k \in S : k <= i})
Nth(S, j) == CHOOSE i \in S : Rank(S, i) = j
Pick(l, is) == [j \in 1..Cardinality(is) |-> l[Nth(is, j)]]

\* l without the entries of ks.
Drop(l, ks) == Pick(l, {i \in DOMAIN l : l[i].key \notin ks})

\* put() of several entries, the last one put first in es: each moves to the
\* front, and what exceeds the capacity falls off the end.
Put(l, es) ==
  LET kept == es \o Drop(l, {es[i].key : i \in DOMAIN es})
  IN  IF Len(kept) > LocalCapacity THEN SubSeq(kept, 1, LocalCapacity) ELSE kept

Entry(k, v) == [key |-> k, value |-> v, live |-> TRUE]

\* get(): a live entry moves to the front, an expired one is removed.
Touch(l, k) ==
  Pick(l, {i \in DOMAIN l : l[i].key = k /\ l[i].live}) \o Drop(l, {k})

-----------------------------------------------------------------------------
(* Commands.  Each is said to be from the request or order that caused it. *)

\* setex for a sequence of entries, in Redis and in L1.
Setex(from, es) ==
  IF CacheEnabled
  THEN /\ wire' = wire \cup {[op |-> "SETEX", key |-> es[i].key,
                              value |-> es[i].value, from |-> from] :
                             i \in DOMAIN es}
       /\ local' = Put(local, es)
  ELSE UNCHANGED <<wire, local>>

Delete(ks, from, again) == [op |-> "DEL", keys |-> ks, from |-> from, again |-> again]

\* invalidate, invalidateItem and invalidateList: DEL in Redis and in L1, and
\* the same again later.  window is ghost state: the requests that may still
\* write back a row they read before now.  Mutant: no second delete.
InvalidateOnce(ks, from, window) ==
  /\ wire' = wire \cup {Delete(ks, from, FALSE)}
  /\ local' = Drop(local, ks)
  /\ UNCHANGED delayed
Invalidate(ks, from, window) ==
  IF CacheEnabled
  THEN /\ wire' = wire \cup {Delete(ks, from, FALSE)}
       /\ local' = Drop(local, ks)
       /\ delayed' = IF DoubleDelete
                     THEN Append(delayed, [keys |-> ks, from |-> from,
                                           window |-> window])
                     ELSE delayed
  ELSE UNCHANGED <<wire, local, delayed>>

\* The keys an order on s invalidates.  Mutant: the key of another sku.
OrderKeysOfNext(s) == {s + 1}
OrderKeys(s) == CASE InvalidateOnOrder = "none" -> {}
                  [] InvalidateOnOrder = "item" -> {s}
                  [] InvalidateOnOrder = "all"  -> {s, List}

\* The delayed deleter's thread takes the oldest task that is due and deletes
\* its keys one by one.
FireDelayed ==
  /\ delayed # <<>>
  /\ delayed' = Tail(delayed)
  /\ LET task == Head(delayed)
     IN  /\ wire' = wire \cup {Delete({k}, task.from, TRUE) : k \in task.keys}
         /\ local' = Drop(local, task.keys)
  /\ UNCHANGED <<redis, undone>>

-----------------------------------------------------------------------------
(* Redis *)

Effect(c) ==
  IF c.op = "SETEX" THEN [redis EXCEPT ![c.key] = c.value]
  ELSE [k \in Keys |-> IF k \in c.keys THEN Nil ELSE redis[k]]

RedisExecutes(c) ==
  /\ c \in wire
  /\ wire' = wire \ {c}
  /\ redis' = Effect(c)
  /\ UNCHANGED <<local, delayed, undone>>

\* The command is answered by an exception and was not executed; the callback
\* only counts and logs it.  (When it was executed before the answer was lost,
\* that is RedisExecutes: nobody waits for the answer.)
RedisFails(c) ==
  /\ c \in wire
  /\ wire' = wire \ {c}
  /\ undone' = (undone \/ (c.op = "DEL" /\ c.again))
  /\ UNCHANGED <<redis, local, delayed>>

\* The TTL of a key elapses.
Expire(k) ==
  /\ redis[k] \notin {Nil, Garbage}
  /\ redis' = [redis EXCEPT ![k] = Nil]
  /\ UNCHANGED <<wire, local, delayed, undone>>

\* An L1 entry reaches its expireAt; get() removes it when it meets it.
LocalExpire(i) ==
  /\ i \in DOMAIN local /\ local[i].live
  /\ local' = [local EXCEPT ![i].live = FALSE]
  /\ UNCHANGED <<redis, wire, delayed, undone>>

\* Somebody writes a value readers cannot parse into the key, without a TTL.
Spoil(k) ==
  /\ redis[k] # Garbage
  /\ redis' = [redis EXCEPT ![k] = Garbage]
  /\ UNCHANGED <<wire, local, delayed, undone>>
=============================================================================
