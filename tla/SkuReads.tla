------------------------------ MODULE SkuReads ------------------------------
(***************************************************************************)
(* The requests that use SkuCache: SeckillService's detailSku, listSkus,   *)
(* warmCache and rebuildBloom, and the commit of an order with its         *)
(* invalidation.  A request sends one command at a time and continues in   *)
(* the callback of its answer; the database changes in between.            *)
(***************************************************************************)
EXTENDS SkuCache

CONSTANTS
  Reqs,         \* requests other than orders
  Kind,         \* [Reqs -> {"detail", "list", "warm", "rebuild"}]
                \* a "rebuild" is a warm request with rebuild_bloom
  Wants,        \* [Reqs -> Skus]: the sku of a detail request
  Orders,       \* orders that will be committed
  Buys,         \* [Orders -> Skus]
  OnSale,       \* skus with a row from the start; the others are added later
  ListLimit,    \* LIMIT of the list query (100)
  WarmLimit,    \* LIMIT of the warm request (1000 unless its body says)
  BloomEnabled,
  Bits, Hashes, Word, Hash1, Hash2, \* of the filter, see BloomFilter
  Error,        \* the exception callback of the database
  NotFound,     \* the (false, null) a callback is called with
  Prompt        \* BOOLEAN: no row stays between SELECT and Redis for longer
                \* than double_delete_ms

VARIABLES
  version, \* [Skus -> Nat]: committed version of a row, 0 while it is absent
  order,   \* [Orders -> {"new", "committed", "invalidated", "lost"}]
  pc,      \* [Reqs -> {"new", "get", "got", "ids", "gotIds", "select", "rows", "done"}]
  got,     \* [Reqs -> what Redis or the database answered]
  answer,  \* [Reqs -> Nil before the HTTP callback is called, or its argument]
  bloom,   \* the published Bloom filter, or Nil
  up,      \* FALSE once the process died
  \* Ghosts, read by the properties only:
  reads,   \* Seq of the sets of ids that had a row at each rebuild's query
  turn,    \* [Reqs -> the number of a rebuild's query in reads, or 0]
  owner,   \* the number of the query the published filter is made from, or 0
  assured  \* detail requests asked when nothing denied their sku, see Known

ghosts == <<reads, turn, owner, assured>>
readVars == <<version, order, pc, got, answer, bloom, up, ghosts>>
vars == <<cacheVars, readVars>>

Filter == INSTANCE BloomFilter WITH Ids <- Skus

ASSUME RequestsAssumption ==
  /\ Kind \in [Reqs -> {"detail", "list", "warm", "rebuild"}]
  /\ Wants \in [Reqs -> Skus]
  /\ Buys \in [Orders -> Skus]
  /\ OnSale \subseteq Skus
  /\ ListLimit \in Nat /\ WarmLimit \in Nat
  /\ Prompt \in BOOLEAN /\ BloomEnabled \in BOOLEAN
  /\ Filter!BloomConstants

ASSUME ValuesAssumption ==
  /\ NotFound # Nil
  /\ \A k \in Keys : \A v \in {Nil, Garbage, NotFound} : v \notin Values(k)

Init ==
  /\ CacheInit
  /\ version = [s \in Skus |-> IF s \in OnSale THEN 1 ELSE 0]
  /\ order = [o \in Orders |-> "new"]
  /\ pc = [r \in Reqs |-> "new"]
  /\ got = [r \in Reqs |-> Nil]
  /\ answer = [r \in Reqs |-> Nil]
  /\ bloom = Nil
  /\ up = TRUE
  /\ reads = <<>> /\ turn = [r \in Reqs |-> 0] /\ owner = 0 /\ assured = {}

Goto(r, place) == pc' = [pc EXCEPT ![r] = place]
Finish(r, a) == Goto(r, "done") /\ answer' = [answer EXCEPT ![r] = a]
Receive(r, v) == got' = [got EXCEPT ![r] = v]

KeyOf(r) == IF Kind[r] = "detail" THEN Wants[r] ELSE List

\* Requests that hold rows they read, or whose write-back is on its way.
WritingBack ==
  {r \in Reqs : pc[r] = "rows"} \cup {c.from : c \in {d \in wire : d.op = "SETEX"}}

Found(rows) == {s \in DOMAIN rows : rows[s] # 0}

\* The text says that the row of its key is missing.
Denies(k, v) == v = [s \in {k} |-> 0]

\* s has a row, and nothing says otherwise: no text in Redis, in L1, on its way
\* or in the hands of a request, and no filter, published or about to be.
Known(s) ==
  /\ version[s] # 0
  /\ ~Denies(s, redis[s])
  /\ \A c \in wire : c.op = "SETEX" /\ c.key = s => ~Denies(s, c.value)
  /\ \A i \in DOMAIN local : local[i].key = s => ~Denies(s, local[i].value)
  /\ bloom # Nil => Filter!MaybeContains(bloom, s)
  /\ \A r \in Reqs :
       /\ pc[r] \in {"got", "rows"} /\ KeyOf(r) = s /\ got[r] # Error => ~Denies(s, got[r])
       /\ pc[r] = "gotIds" /\ got[r] # Error => s \in got[r]

-----------------------------------------------------------------------------
(* The read path *)

\* No filter yet lets every id through.
BloomRejects(s) == BloomEnabled /\ bloom # Nil /\ ~Filter!MaybeContains(bloom, s)

\* detailSku and listSkus up to their first command; L1 answers at once.
Ask(r) ==
  /\ up /\ pc[r] = "new" /\ Kind[r] \in {"detail", "list"}
  /\ \/ /\ ~CacheEnabled
        /\ Goto(r, "select")
        /\ UNCHANGED <<got, answer, local>>
     \/ /\ CacheEnabled /\ Kind[r] = "detail" /\ BloomRejects(Wants[r])
        /\ Finish(r, NotFound)
        /\ UNCHANGED <<got, local>>
     \/ /\ CacheEnabled /\ ~(Kind[r] = "detail" /\ BloomRejects(Wants[r]))
        /\ local' = Touch(local, KeyOf(r))
        /\ IF LocalHit(KeyOf(r))
           THEN Goto(r, "got") /\ Receive(r, local[LocalAt(KeyOf(r))].value)
           ELSE Goto(r, "get") /\ UNCHANGED got
        /\ UNCHANGED answer
  /\ assured' = assured \cup {q \in {r} : Kind[q] = "detail" /\ Known(Wants[q])}
  /\ UNCHANGED <<redis, wire, delayed, undone, version, order, bloom, up>>
  /\ UNCHANGED <<reads, turn, owner>>

\* The warm request: rebuildBloom, which does nothing without the filter, if
\* its body asks for it, and then warmCache.
Operate(r) ==
  /\ up /\ pc[r] = "new" /\ Kind[r] \in {"warm", "rebuild"}
  /\ Goto(r, IF Kind[r] = "rebuild" /\ BloomEnabled THEN "ids" ELSE "select")
  /\ UNCHANGED <<cacheVars, version, order, got, answer, bloom, up, ghosts>>

\* Redis answers GET, or fails it.
RedisGet(r) ==
  /\ up /\ pc[r] = "get"
  /\ Goto(r, "got")
  /\ Receive(r, redis[KeyOf(r)]) \/ Receive(r, Nil)
  /\ UNCHANGED <<cacheVars, version, order, answer, bloom, up, ghosts>>

\* The callback of get: answer a hit, drop a value it cannot parse, and go
\* to the database for everything else.
IsNull(r, v) == Kind[r] = "detail" /\ v = [s \in {Wants[r]} |-> 0]
Hit(r, v) == Finish(r, IF IsNull(r, v) THEN NotFound ELSE v)

\* Mutant: the callback was moved from before, and a miss answers nobody.
OnGotEmptyCallback(r) ==
  /\ up /\ pc[r] = "got" /\ got[r] \notin {Nil, Garbage}
  /\ Hit(r, got[r])
  /\ UNCHANGED <<cacheVars, version, order, got, bloom, up, ghosts>>
OnGot(r) ==
  /\ up /\ pc[r] = "got"
  /\ \/ /\ got[r] \notin {Nil, Garbage}
        /\ Hit(r, got[r])
        /\ UNCHANGED <<wire, local, delayed>>
     \/ /\ got[r] = Nil
        /\ Goto(r, "select")
        /\ UNCHANGED <<wire, local, delayed, answer>>
     \/ /\ got[r] = Garbage
        /\ Goto(r, "select")
        /\ Invalidate({KeyOf(r), List}, r, WritingBack)
        /\ UNCHANGED answer
  /\ UNCHANGED <<redis, undone, version, order, got, bloom, up, ghosts>>

\* SELECT id, with no limit.
DbSelectIds(r) ==
  /\ up /\ pc[r] = "ids"
  /\ Goto(r, "gotIds")
  /\ \/ /\ Receive(r, Found(version))
        /\ reads' = Append(reads, Found(version))
        /\ turn' = [turn EXCEPT ![r] = Len(reads) + 1]
     \/ Receive(r, Error) /\ UNCHANGED <<reads, turn>>
  /\ UNCHANGED <<cacheVars, version, order, answer, bloom, up, owner, assured>>

\* The filter is filled and then published; the warm-up follows, also when the
\* query failed.
Publish(r) == bloom' = Filter!Build(got[r]) /\ owner' = turn[r]

\* Mutant: the callback of the failed query publishes a filter as well.
OnIdsOfError(r) ==
  /\ up /\ pc[r] = "gotIds"
  /\ Goto(r, "select")
  /\ IF got[r] = Error THEN bloom' = Filter!Build({}) /\ UNCHANGED owner ELSE Publish(r)
  /\ UNCHANGED <<cacheVars, version, order, got, answer, up, reads, turn, assured>>
OnIds(r) ==
  /\ up /\ pc[r] = "gotIds"
  /\ Goto(r, "select")
  /\ IF got[r] = Error THEN UNCHANGED <<bloom, owner>> ELSE Publish(r)
  /\ UNCHANGED <<cacheVars, version, order, got, answer, up, reads, turn, assured>>

\* SELECT ... ORDER BY id LIMIT n, as the rows' versions.
Rows(n) ==
  [s \in Skus |-> IF Rank(Found(version), s) <= n THEN version[s] ELSE 0]

Selected(r) == CASE Kind[r] = "detail"  -> [s \in {Wants[r]} |-> version[s]]
                 [] Kind[r] = "list"    -> Rows(ListLimit)
                 [] OTHER               -> Rows(WarmLimit)

DbSelect(r) ==
  /\ up /\ pc[r] = "select"
  /\ Goto(r, "rows")
  /\ Receive(r, Selected(r)) \/ Receive(r, Error)
  /\ UNCHANGED <<cacheVars, version, order, answer, bloom, up, ghosts>>

\* What warmCache writes: the item keys in the order of their ids, then the
\* first ListLimit rows as the list.  (Last written first.)
WarmEntries(rows) ==
  LET ids == Found(rows)
      n == Cardinality(ids)
  IN  IF n = 0 THEN <<>>
      ELSE <<Entry(List, [s \in Skus |-> IF Rank(ids, s) <= ListLimit THEN rows[s] ELSE 0])>>
           \o [i \in 1..n |-> LET s == Nth(ids, n + 1 - i)
                              IN  Entry(s, [t \in {s} |-> rows[s]])]

\* The callbacks of the queries: answer and write back.
OnDetail(r) ==
  /\ Kind[r] = "detail"
  /\ Finish(r, IF Found(got[r]) = {} THEN NotFound ELSE got[r])
  /\ Setex(r, <<Entry(Wants[r], got[r])>>)

OnList(r) ==
  /\ Kind[r] = "list"
  /\ Finish(r, got[r])
  /\ Setex(r, <<Entry(List, got[r])>>)

OnWarm(r) ==
  /\ Kind[r] \in {"warm", "rebuild"}
  /\ Finish(r, "done")
  /\ Setex(r, WarmEntries(got[r]))

\* Mutant: the answer to a failed query is cached like that to an empty one.
OnRowsCachesError(r) ==
  /\ up /\ pc[r] = "rows"
  /\ IF got[r] = Error
     THEN /\ Finish(r, NotFound)
          /\ Setex(r, IF Kind[r] = "detail"
                      THEN <<Entry(Wants[r], [s \in {Wants[r]} |-> 0])>> ELSE <<>>)
     ELSE OnDetail(r) \/ OnList(r) \/ OnWarm(r)
  /\ UNCHANGED <<redis, delayed, undone, version, order, got, bloom, up, ghosts>>
OnRows(r) ==
  /\ up /\ pc[r] = "rows"
  /\ IF got[r] = Error THEN Finish(r, NotFound) /\ UNCHANGED <<wire, local>>
     ELSE OnDetail(r) \/ OnList(r) \/ OnWarm(r)
  /\ UNCHANGED <<redis, delayed, undone, version, order, got, bloom, up, ghosts>>

-----------------------------------------------------------------------------
(* The writers *)

\* The transaction of an order commits, and its commit callback runs later.
Commit(o) ==
  /\ order[o] = "new" /\ version[Buys[o]] # 0
  /\ up
  /\ order' = [order EXCEPT ![o] = "committed"]
  /\ version' = [version EXCEPT ![Buys[o]] = @ + 1]
  /\ UNCHANGED <<cacheVars, pc, got, answer, bloom, up, ghosts>>

OnCommitted(o) ==
  /\ up /\ order[o] = "committed"
  /\ order' = [order EXCEPT ![o] = "invalidated"]
  /\ IF InvalidateOnOrder = "none" THEN UNCHANGED <<wire, local, delayed>>
     ELSE Invalidate(OrderKeys(Buys[o]), o, WritingBack)
  /\ UNCHANGED <<redis, undone, version, pc, got, answer, bloom, up, ghosts>>

\* COMMIT was applied but its answer is an error: nothing is invalidated.
LoseCommit(o) ==
  /\ up /\ order[o] = "committed"
  /\ order' = [order EXCEPT ![o] = "lost"]
  /\ UNCHANGED <<cacheVars, version, pc, got, answer, bloom, up, ghosts>>

\* An operator adds a row.
AddSku(s) ==
  /\ version[s] = 0
  /\ version' = [version EXCEPT ![s] = 1]
  /\ UNCHANGED <<cacheVars, order, pc, got, answer, bloom, up, ghosts>>

\* The delayed deleter; see Prompt for the timing it relies on.
SecondDelete ==
  /\ up /\ delayed # <<>>
  /\ Prompt => Head(delayed).window \cap WritingBack = {}
  /\ FireDelayed
  /\ UNCHANGED readVars

\* The process dies with its L1, its queue and its callbacks; Redis stays.
Crash ==
  /\ up
  /\ up' = FALSE /\ local' = <<>> /\ delayed' = <<>>
  /\ UNCHANGED <<redis, wire, undone, version, order, pc, got, answer, bloom, ghosts>>

-----------------------------------------------------------------------------
Request(r) ==
  \/ Ask(r) \/ RedisGet(r) \/ OnGot(r)
  \/ Operate(r) \/ DbSelectIds(r) \/ OnIds(r)
  \/ DbSelect(r) \/ OnRows(r)

Redis ==
  \/ \E c \in wire : RedisExecutes(c) \/ RedisFails(c)
  \/ \E k \in Keys : Expire(k)
  \/ \E k \in Spoilable : Spoil(k)
  \/ \E i \in DOMAIN local : LocalExpire(i)

Next ==
  \/ \E r \in Reqs : Request(r)
  \/ Redis /\ UNCHANGED readVars
  \/ \E o \in Orders : Commit(o) \/ OnCommitted(o) \/ LoseCommit(o)
  \/ \E s \in Skus : AddSku(s)
  \/ SecondDelete \/ Crash

Spec == Init /\ [][Next]_vars

\* Callbacks run, and Redis and MySQL answer (or fail) every command they were
\* sent.
Fairness ==
  \A r \in Reqs : WF_vars(RedisGet(r) \/ OnGot(r) \/ DbSelectIds(r)
                          \/ OnIds(r) \/ DbSelect(r) \/ OnRows(r))

FairSpec == Spec /\ Fairness

-----------------------------------------------------------------------------
(* Properties *)

TypeOK ==
  /\ DOMAIN redis = Keys
  /\ \A k \in Keys : redis[k] \in Values(k) \cup {Nil, Garbage}
  /\ \A c \in wire : c.op = "SETEX" => c.key \in Keys /\ c.value \in Values(c.key)
  /\ \A c \in wire : c.op = "DEL" => c.keys \subseteq Keys
  /\ \A i \in DOMAIN local : local[i].key \in Keys /\ local[i].value \in Values(local[i].key)
  /\ \A i \in DOMAIN delayed : delayed[i].keys \subseteq Keys
  /\ undone \in BOOLEAN /\ up \in BOOLEAN
  /\ version \in [Skus -> Nat]
  /\ order \in [Orders -> {"new", "committed", "invalidated", "lost"}]
  /\ pc \in [Reqs -> {"new", "get", "got", "ids", "gotIds", "select", "rows", "done"}]
  /\ reads \in Seq(SUBSET Skus) /\ turn \in [Reqs -> Nat] /\ owner \in Nat
  /\ assured \subseteq Reqs

\* What orders invalidate, whatever they buy.
Watched == UNION {OrderKeys(s) : s \in Skus}

\* A value shows a row as it was before some committed order.
Stale(v) ==
  v \notin {Nil, Garbage} /\ \E s \in DOMAIN v : v[s] \notin {0, version[s]}

\* Nothing is on its way: every committed order has run its commit callback, no
\* command is in flight, no write-back is left, and the second deletes are
\* over, none of which failed.
Quiet ==
  /\ up /\ ~undone /\ wire = {} /\ delayed = <<>> /\ WritingBack = {}
  /\ \A o \in Orders : order[o] \in {"new", "invalidated"}

\* Commit, then delete twice (SkuCache.h 105-115): once things are quiet, no
\* invalidated key shows a row from before an order, in L1 or in Redis, also
\* when GETs, SETEXs and first DELs failed: those are logged and not retried
\* (SkuCache.cc 94-99), so only the second DEL makes up for a lost first one.
FreshWhenQuiet ==
  Quiet =>
    /\ \A k \in Watched : ~Stale(redis[k])
    /\ \A i \in DOMAIN local : local[i].key \in Watched => ~Stale(local[i].value)

\* A request asked once nothing denied its sku is not answered that it is
\* missing: no sentinel, no write-back and no filter, however it is rebuilt,
\* denies it again; only a failed query is answered like a missing row.  (A row
\* added later may be denied before, by what was cached or built without it;
\* a row on sale from the start never is, see OnSaleIsAssured.)
NotFoundIsHonest == \A r \in assured : answer[r] = NotFound => got[r] = Error

\* An operator who adds a sku and then rebuilds can rely on it
\* (CACHE-DESIGN.md 360-361), whatever rebuilds follow, overlap or fail: what
\* had a row at a rebuild's query passes the filter, unless a rebuild that
\* queried before it publishes after it.
RebuildCounts ==
  \A i \in 1..owner : \A s \in reads[i] : Filter!MaybeContains(bloom, s)

-----------------------------------------------------------------------------
(* What the safety properties rest on: the inductive invariants *)

\* Where a request of a kind can be, and what it was answered there.
RequestsOK ==
  /\ got = [r \in Reqs |-> got[r]] /\ answer = [r \in Reqs |-> answer[r]]
  /\ \A r \in Reqs :
       /\ pc[r] \in {"get", "got"} => Kind[r] \in {"detail", "list"}
       /\ pc[r] \in {"ids", "gotIds"} => Kind[r] = "rebuild"
       /\ pc[r] = "got" => got[r] \in Values(KeyOf(r)) \cup {Nil, Garbage}
       /\ pc[r] = "gotIds" => got[r] = Error \/ got[r] \subseteq Skus
       /\ pc[r] = "rows" => got[r] \in Values(KeyOf(r)) \cup {Error}
       /\ answer[r] # Nil => pc[r] = "done"

\* Queries find more and more, a rebuild publishes what its query found, and
\* the filter has what its own query found.
RebuildsGrow ==
  /\ owner \in 0..Len(reads)
  /\ \A i, j \in 1..Len(reads) : i <= j => reads[i] \subseteq reads[j]
  /\ \A i \in 1..Len(reads) : reads[i] \subseteq Found(version)
  /\ \A r \in Reqs : pc[r] = "gotIds" /\ got[r] # Error =>
       turn[r] \in 1..Len(reads) /\ got[r] = reads[turn[r]]
  /\ owner # 0 => \A s \in reads[owner] : Filter!MaybeContains(bloom, s)

\* What is on sale, and what an assured request wants, is known.
AssuredAreKnown ==
  /\ \A s \in OnSale : Known(s)
  /\ \A r \in assured : Kind[r] = "detail" /\ Known(Wants[r])

\* Every request for a sku that was on sale from the start is assured.
OnSaleIsAssured ==
  \A r \in Reqs :
    Kind[r] = "detail" /\ Wants[r] \in OnSale /\ pc[r] # "new" => r \in assured

\* A text shows the row of s as it was before some committed order.
StaleOn(s, v) == v \notin {Nil, Garbage} /\ s \in DOMAIN v /\ v[s] \notin {0, version[s]}

\* The commit callback of an order on s is to come.
Awaited(s) == \E o \in Orders : order[o] = "committed" /\ Buys[o] = s

\* The delete that will remove the text from key k is to come: the commit
\* callback, or a second delete.
DeleteToCome(k, s) ==
  Awaited(s) \/ \E i \in DOMAIN delayed : k \in delayed[i].keys

\* The same for a row of s that r has yet to write: that delete waits for r.
DeleteAfter(r, s) ==
  \/ Awaited(s)
  \/ \E i \in DOMAIN delayed :
       r \in delayed[i].window /\ OrderKeys(s) \subseteq delayed[i].keys

\* Nothing went wrong that only the TTL of a stale value makes good.
Undisturbed == up /\ ~undone /\ \A o \in Orders : order[o] # "lost"

\* A stale text of a key orders invalidate has its delete ahead of it, in
\* Redis, in L1, on its way to Redis and in the hands of a request.
StaleIsDoomed ==
  Undisturbed =>
    \A s \in Skus :
      /\ \A k \in OrderKeys(s) : StaleOn(s, redis[k]) =>
           DeleteToCome(k, s) \/ \E c \in wire : c.op = "DEL" /\ c.again /\ k \in c.keys
      /\ \A i \in DOMAIN local :
           local[i].key \in OrderKeys(s) /\ StaleOn(s, local[i].value) =>
             DeleteToCome(local[i].key, s)
      /\ \A c \in wire : c.op = "SETEX" /\ StaleOn(s, c.value) => DeleteAfter(c.from, s)
      /\ \A r \in Reqs :
           pc[r] = "rows" /\ got[r] # Error /\ StaleOn(s, got[r]) => DeleteAfter(r, s)

-----------------------------------------------------------------------------
\* Every request is answered, whatever Redis and MySQL do, unless the process
\* dies.
EveryRequestAnswered ==
  \A r \in Reqs : pc[r] # "new" ~> pc[r] = "done" \/ ~up
=============================================================================
