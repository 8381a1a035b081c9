# seckill-cpp in TLA+

A model, model-checked and in part proved, of the flash-sale server in this
repository: a Drogon (asynchronous HTTP, MySQL, Redis) service that sells limited
stock, caches what it shows, and logs without blocking. `PROJECT.json` maps every
definition to the lines it models and lists components, runs, hazards and theorems.

To check a run: `tlc -workers 2 -config order_gated.cfg MCSeckillOrder`.
To check the proofs of a module: `tlapm SeckillOrderProofs.tla`.

## 1. Inventory

| Component | State | Operations | Talks to |
|---|---|---|---|
| SeckillService, orders (`SeckillService.cc` 58-206, `sql/schema.sql`) | `seckill_sku.stock`, `seckill_order`, row locks and open transactions in MySQL; a chain of callbacks per request | `doSeckill` and the callbacks of BEGIN, UPDATE, INSERT, COMMIT | InflightGuard (token), MySQL (one pooled connection per transaction), SkuCache (`invalidateOnOrder`) |
| InflightGuard (`InflightGuard.h`) | 64 hash sets with their locks, or a bitmap of atomic words | `tryAcquire`, the token's copies, `release` | called on every IO thread |
| SkuCache (`SkuCache.cc/.h`), LocalLruCache | keys in Redis with TTLs, an in-process LRU, the delayed deleter's queue | `get`, `setex`, `del`, `invalidate*`, second delete | Redis (fire and forget), its own thread |
| SeckillService, reads (`SeckillService.cc` 208-470), BloomFilter | the published Bloom filter | `listSkus`, `detailSku`, `warmCache`, `rebuildBloom`, `bloomAllows` | SkuCache, MySQL |
| Async logger (`src/logging`) | ring buffer, stop flag, `running_`, worker's batch, file | `SK_LOG_*`, `push`, `waitAndPopBatch`, `start`, `shutdown` | every thread; one worker |
| SmsService, SmsSender | per phone in Redis: the code, its failed tries, the pause, the day's count | `sendCode`, `verifyCode` (one Lua script each) | Redis; UserService, SmsController |
| UserService, registration; RegisterGuard | `user` rows in MySQL (unique phone), `reg:ip` in Redis | `registerUser`; `check`, `markSuccess` | SmsService, MySQL, a detached thread for the hash |
| UserService, login and sessions; LoginGuard, SessionStore, Jwt | per phone a failure count and a lock, per token a session, all in Redis; the decoding table of `base64UrlDecode` | `login`, `logout`, `authenticate`; `checkLocked`, `onFailure`, `onSuccess`; `save`, `exists`, `revoke`; `sign`, `verify` | Redis, MySQL, a detached thread for the hash |
| Controllers, `HttpJson.h`, `main.cc`, password hashing | none that changes | validation, wiring, PBKDF2 | everything |

What makes each one correct:

* **Orders**: no oversell; stock and order rows agree once no transaction is open;
  one order per user and sku; one answer per request, an honest one; the cache is
  deleted after COMMIT and before OK is said; every accepted request ends.
* **Gate**: of one user's requests for one sku at most one is past it; no mark
  is lost, shared or left behind.
* **Delayed deleter**: every delete that was scheduled is made, once, in order, not
  early, unless the cache is destroyed first; its destructor returns.
* **Bloom filter**: no false negatives, whatever the sizes and hashes.
* **Cache and reads**: a value that an order made stale is gone once its second delete
  was made; who asks for a sku that nothing denies is not told it is missing; what a
  rebuild found passes the filter from then on; every read is answered.
* **Logger**: accepted messages are written once and in order; no wake-up is lost;
  shutdown writes what was accepted before it, and returns.
* **Registration and codes**: until its last half second a code gets at most so many
  wrong tries; it is redeemed once; OK
  is said to the one whose INSERT made the account; a failing Redis opens the gate of
  the address but not that of the code; refusals are honest.
* **Login and sessions**: a lock is earned by so many counted failures, guesses between
  two resets are bounded, who comes while it holds gets no token; a token whose logout
  said OK is dead, and one that was handed out is refused only for a reason.

What is hard here: the order path is a chain of callbacks with an implicit commit
in a destructor, over connections that can break with a transaction open; several
pooled Redis connections reorder commands; reads write back rows they took before
an order; tokens die on any thread; guards are check-then-act over Redis. Each such
place is a hazard in `PROJECT.json`, at its line.

## 2. Plan

| Step | Modules | State |
|---|---|---|
| 1 | `FlashSale` (abstract), `SeckillOrder`, `SeckillOrderProofs` | done |
| 2 | `Gate` (abstract), `InflightGuard`, `InflightGuardProofs` | done |
| 3 | `SkuCache`, `SkuReads` (composes the cache with reads and the orders' commits) | done |
| 4 | `AsyncLogger`, `AsyncLoggerProofs` | done |
| 5 | `SmsCodes`, `Registration` (composes the codes with RegisterGuard and `registerUser`), `RegistrationProofs` | done |
| 6 | `LoginGuard`, `Sessions` (SessionStore and Jwt under logout and authenticate), `Login` (composes both with `UserService::login`), `LoginProofs` | done |
| 7 | `BloomFilter` (bits and double hashing, instantiated by `SkuReads`) with `BloomFilterProofs`, `DelayDeleter` with `DelayDeleterProofs`, the warm handler of `main.cc` | done |
| 8 | `SkuReadsProofs`: the type invariant and all safety invariants of `SkuReads`, with the lemmas of the LRU operators and of the filter; `DuplicateIsHonest`; `UsesGate` | done |
| 9 | that `DelayDeleter` implements the queue `SkuCache` has, and `SeckillOrder` the commits `SkuReads` has | next |

Twelve runs answer the questions above; the invariants `IInv` of `SeckillOrder`,
`AsyncLogger`, `Registration`, `Login` and `DelayDeleter`, and those of `SkuReads` (section 6), were
model-checked on the instances of the runs before they were proved, and are no
properties of runs any more; nor are the type invariants, but that of `SkuReads`, nor
`MarkedIffHeld`, which is one of the conjuncts of `IInv` that `GateShields` rests on.

## 3. Modules and code

### SeckillOrder, FlashSale

One request is one call of `doSeckill`; a retry is another request. `pc[r]` says
where its callback chain is and `answer[r]` what the database answered to its
statement. `On*` actions are callbacks on an IO thread, `Db*` actions are MySQL. A
callback acts on an answer some time after the database moved on.

* *Transaction.* `OnTransaction` takes a pooled connection (`PoolSize`), or
  `OnTransactionTimeout` gets null. `DbUpdate` waits for the row lock of the sku and
  keeps it to the end of the transaction; `stock` is what a current read sees, so it
  includes uncommitted updates. `DbInsert` is the `ON DUPLICATE KEY` insert.
  `AutoCommit` is the death of the last transaction handle, which sends COMMIT;
  `RollBack` is an explicit `rollback()`.
* *Failure.* `DbError` turns any statement's outcome into an exception: the
  transaction is aborted, or only the statement failed, or it was applied and the
  answer lost, with the transaction (and its lock and unit) left open in MySQL until
  `DbAbort` or a COMMIT already sent. `Crash` ends the process; MySQL keeps its state.
* *Gate.* `token` and `marked` abstract InflightGuard to its contract, which
  `InflightGuard` is shown to keep. `UsesGate` closes the circle: what a request does
  from tryAcquire to the death of its last lambda is one use of `Gate`. Marks are in the
  memory of the process, so a crash lets all of them go (`RestartingSpec`; a guard that
  did so without a crash would not implement `Gate!Spec`).

`FlashSale` has two variables: who owns a unit, and what each caller was told.
`ImplementsFlashSale` maps *sold* to the requests whose transaction is committed.

### InflightGuard, Gate

One request is one `tryAcquire`. Under mutex and spin lock the model has a step for
taking the shard's lock, looking the key up, inserting or refusing, and again for
locking and erasing; the bitmap modes are one atomic instruction each. `copies` is
the use count of the token, `captures` how many more lambdas will copy it. `mode` is
a variable that never changes, so that one run covers all four.

### SkuCache, SkuReads

A cached text is abstracted to the versions of the rows it shows (`[s |-> v]`); a
version grows with each committed order; 0 is "no such row", so an item key with
`[s |-> 0]` is the null sentinel. `wire` is the set of Redis commands sent and not
executed: any of them may be next (pooled connections), or fail (one that was executed
before its answer was lost is one that was executed: nobody waits for it). L1 is the sequence of its entries, most recently used first.
`Drop` and `Touch` say which positions of it are kept, and in which order (`Pick`).
A read is `Ask`, `RedisGet`, `OnGot`, `DbSelect`, `OnRows`: between any two of them
orders commit, deletes run and TTLs elapse. `Values(k)` is what the readers of a key can
parse; `ValuesAssumption` says that `Nil`, `Garbage` and the answer `NotFound` are none
of it, as a null reply, a foreign text and a status are none in the code.

Abstractions: the Redis command of one `setex` or `del` is sent in the same step as
L1 is changed; `warmCache`'s loop over rows is one step (its commands are still
executed one by one); the delayed deleter removes the keys of one task from L1 in one
step (`DelayDeleter` has its thread); order transactions are reduced to their commit (`SeckillOrder` has the rest); hit and miss counters
and TTL jitter are left out. `window` in a delayed delete is ghost state. `Prompt`
states the timing that double delete rests on: a read does not hold its row, nor its
SETEX stay on the wire, for longer than `double_delete_ms`.

The warm request (`Operate`) asks for the ids first if it rebuilds (`DbSelectIds`,
`OnIds`) and goes on to the warm-up whatever became of that, as the handler in
`main.cc` does.

Ghosts tell the properties what happened before. `undone`: a *second* delete failed,
which nothing makes up for; a GET, SETEX or first DEL that fails is excused by nothing.
`reads` has what every rebuild's query found, in the order of the queries, `turn` which
of them a rebuild made, `owner` which one the published filter is made from:
`RebuildCounts` says that all found by that query *and by every earlier one* passes, so
it speaks of rebuilds that overlap, fail and are repeated, and the only exception is
the one of finding 3. `assured` are the detail requests that were asked when the row was
there and no text and no filter denied it (`Known`): `NotFoundIsHonest` is about those.
A sku added later can be denied before: by a sentinel or L1 text cached while it was
absent (until its TTL or deletion), or by a filter built without it (until the next
rebuild). From the moment that is over it stays over, whatever is cached or built then;
for a sku on sale from the start it never begins (`OnSaleIsAssured`). That a sentinel
outlives the INSERT of its row for up to its TTL is what the code's design accepts, and
no property denies it.

### BloomFilter

A filter is the function from its words to the bits set in them. Positions are double
hashing in arithmetic modulo `Word` (2^64 in the code) and then modulo `Bits`, with the
second hash mended when it is 0; splitmix64 is any function of the ids. `SkuReads`
instantiates it and publishes `Filter!Build(ids)`. The instance for TLC has an id whose
position overflows `Word`, one whose stride is mended, and a last word of 6 bits.

### DelayDeleter

Threads are the callers of `schedule`, the deleter's own and the one in the destructor.
What is done under the mutex up to a wait or an unlock is one step (`Look` is a turn of
the loop in `run`); a notification comes after the unlock, in a step of its own, and
`Fire` is without the lock. A wait ends by a notification, its deadline or for no
reason. `accepted` and `fired` are ghosts. `SkuCache`'s `delayed` and `FireDelayed` are
what the rest of the cache sees of it, where time is abstracted to order. Calls of
`schedule` after the destructor has ended are not modelled: nobody may make them.

### LoginGuard, Sessions, Login

`LoginGuard` is the two keys of a phone: `fail` and `lock`. Each script is one step
with an operator per return; an expiry is an action. A lock that is *ending* is the
half second in which TTL rounds to 0: `checkLocked` reads it as unlocked,
`kOnFailureScript`, which asks EXISTS, as locked.

`Sessions` has the tokens, named by the login they are signed for: until when they are
valid (`exp`), their session in Redis (`sess`), and the calls of `logout` and
`authenticate`. A call is the look at `reverseInit`, the reset and the filling of the
table if it looked too early, the rest of `verify`, and one Redis command. `verify`
decodes with whatever the table then is: with an incomplete one it may refuse anything.
One clock tells the server and Redis the time.

`Login` follows `UserService::login`: `pc[l]` is the next command, and a step is that
command with the callback its answer runs: `Check` (kCheckScript), `Select`, `Hash`
(with the signing, as nothing happens in between), `Unknown` and `Wrong`
(kOnFailureScript), `Save` (SETEX); `Reset` is the DEL of the count, which is sent and
not waited for. Redis commands and statements may fail, or be applied and their answer
be lost. `misses`, `resets`, `unlocked`, `before`, `garbled` and `cut` are ghosts.

Abstractions: signatures are perfect and a token names its login, so base64, JSON and
HMAC are left out; `authenticate` is modelled though no route calls it yet; what is
counted down to the user (tries, seconds) is left out. `GuardAssumption` takes
`max_fail` as positive, as the configuration has it.

### SmsCodes, Registration

`SmsCodes` is the Redis side of one phone's codes: `stored`, `tries`, `cooldown` and
`quota` are sms:code, sms:try, sms:cd and sms:day. Each Lua script is one step with a
branch per return. A code is named by the request that asked for it, since codes are
random; an expiry is an action, and codes expire in the order in which they were
stored (`live`). sms:try is a key of its own: at each wrong try EXPIRE gives it the TTL
of the code (`triesEnd` says of which), which Redis rounds to the nearest second. So it
may end up to half a second before that code or after it (`TriesTtl` and `CodeTtl`, in
either order, once the code is `late`), and if the code has less than half a second left
TTL is 0 and EXPIRE deletes the count (`Misses`). `late` has the codes whose last half
second has begun (`CodeEnding`); two codes of a phone are a pause of at least a second
apart, so a count that outlives its code is gone before the next code gets there. A
script may fail, or run and have its answer lost.

`Registration` follows `registerUser`: `pc[r]` is the next command, and a step is that
command with the callback its answer runs, so anything may happen before the next one:
`Check` (RegisterGuard), `Verify` (kVerifyScript), `Select`, `Hash` (the detached
thread), `Insert` (decided by `uk_phone`), and `Mark` (markSuccess, not waited for).

Abstractions: CODE_* answers are one, DB_ERROR and HASH_FAILED are one, and so are
INVALID_PHONE and WEAK_PASSWORD, which any request may get; sms:day is reset by
`DayEnds`, so a script counts for the day it runs in. `redeemed`, `missed` and
`voided` are ghosts.

### AsyncLogger

A step is one critical section of the ring's mutex or one access of `running_`.
`SK_LOG` asks `running_` twice (`enabled()`, then `log()`), and pushes later. The
worker sleeps on the condition variable (with spurious wake-ups), takes all messages
out under one lock, and writes them one by one. `accepted` and `promised` are ghosts.
Left out: levels (only messages the level admits are modelled), rotation, the
fall-back to stderr. After `done` the singleton's memory is gone and nothing is modelled.

## 4. Runs

| Run | Shows | Bounds, and why they are enough |
|---|---|---|
| `order_gated` | sale safe, cache invalidated for committed orders only, FlashSale implemented, Gate used as it promises, every accepted request ends | r1 and r2 of one user, r3 of another, 1 unit, pool of 2: duplicate, sold out, give-back, row-lock wait and pool exhaustion all occur |
| `order_ungated` | DUPLICATE_ORDER honest; the unique key alone keeps one order per user; units return | 4 requests of 3 users, 2 units, no gate: duplicates reach the unique key while others wait. Symmetry: r1 with r2, r3 with r4 and their users; the stock, slots and cfg treat them alike and the run has no temporal property |
| `guard` | exclusion, exact marks, Gate implemented, marks go away | 4 calls: one key twice, a key that shares shard and bit with it, one of another shard; 2 shards, 8 bits in words of 4, 2 captures, all modes |
| `cache_double_delete` | with two deletes no invalidated key stays stale, though reads, write-backs and first deletes fail | 1 sku, 2 orders, detail and list read, L1 of 2, every command may fail: the write-back of one read meets the deletes of two orders |
| `cache_answers` | every read answered | detail and list read, 1 sku added late, 1 order, failing commands, crash, garbage values, L1 of 1 (eviction) |
| `cache_filter` | a sku nothing denies not reported missing; a rebuild counts | 2 skus (one added late), two detail reads of the late one (the first may leave a sentinel, the second meet it), two rebuilds with their warm-ups, which overlap in every way, and failing queries; 70 bits in two words, 3 hashes, `Word` 128, `WarmLimit` 1 (the second sku is then written by its reads only). Symmetry: the two reads, and the two rebuilds, differ in nothing |
| `logger` | messages written once, in order, woken for, flushed; shutdown returns | 2 threads, 3 messages each, ring of 2: overflow and wrap-around at every head |
| `registration` | codes, accounts and refusals consistent | 4 requests alike for one phone from one address, 2 codes (the second on the next day), 2 tries, 1 account per address, both Redis and MySQL may fail. Symmetry: the requests, which differ in nothing |
| `sms_retry` (violated) | a new code made void at its first try | as above |
| `login` | locks earned and effective, guesses bounded, logged out means out, tokens honoured | 3 logins of one phone and 2 calls (logout, authenticate), `MaxFail` 2, a lifetime of 1 s, seconds 0 and 1, Redis and MySQL may fail: a lock can be earned by two and met by the third, or fall while one is hashing; a token may be signed in one second and saved or brought in the next. Symmetry: the logins, which differ in nothing |
| `token_refused` (violated) | a genuine token refused while the table is filled | as above, and nothing fails |
| `second_delete` | deletes in order, not early, none lost; the destructor returns | 3 calls, delay of 2, clock to 5: two are queued when one fires, and the stop meets every state of the thread |

Skus, requests and orders are symmetric or differ only in what they share (user,
sku, slot, key); the instances have every such sharing at least once. Nothing counts
upwards without end: versions are bounded by the number of orders, messages by
`MaxMessages`, captures by `Captures`, days by `MaxDays`, codes by `Sends` and the clocks
of `Sessions` and `DelayDeleter` by `MaxTime`.

`CHECK_DEADLOCK FALSE` is set where everything may simply be over (all requests done,
the process dead or the object destroyed); `guard` and `logger` check for deadlock.

**Fairness.** Only what the code's scheduling gives: event loops run queued
callbacks, MySQL and Redis execute or fail what they were sent, MySQL cleans up after
dead connections, threads holding a lock leave it, the deleter's and
the logger's threads are scheduled. All of it weak. No fairness on requests arriving,
orders, errors, timeouts, TTLs, crashes, evictions, wake-ups without cause or shutdown; in
`DelayDeleter` time goes on and a deadline that has passed ends its wait. A
shard's lock is not fair, and none is assumed: a call takes it at most twice. Likewise
a waiting UPDATE gets the row lock because the other holders are finitely many.

## 5. Findings

Each is in `PROJECT.json` with the quoted line.

1. The gate says DUPLICATE_ORDER for an order that may never exist (with the gate,
   `DuplicateIsHonest` fails at once; it holds in `order_ungated`).
2. A second delete after a fixed delay does not catch every late write-back. No run of
   its own: `FreshWhenQuiet` fails in `cache_double_delete` with `Prompt = FALSE`.
3. Overlapping Bloom rebuilds: the older result may win. No run of its own:
   `RebuildCounts` says exactly what is left, by quantifying over the queries up to that
   of the published filter (`1..owner`) and not over all that were published.
4. Warming with a limit below 100 caches a list that is short (seen in the code; the
   runs warm with `WarmLimit` as configured and state nothing about it).
5. A message may be accepted, uncounted and never written at shutdown: `log()` looks at
   `running_` and pushes later. `ShutdownFlushes` is the half of the promise that holds.
6. A new verification code inherits the failed tries of the one before and may be made
   void at its first, correct try (`sms_retry`).
7. The limit of an address is read before the account is made and raised after it:
   requests in between pass together (seen in the code; `RefusalsAreHonest` is the
   half of the promise that holds).
8. A failed detail query is answered like a missing sku (`NotFoundIsHonest` excepts it
   as `got = Error`).
9. `start()` does not survive a log directory that cannot be made (not modelled).
10. A genuine token is refused as invalid while another thread fills the decoding table
    (`token_refused`).
11. A login that was let past before the lock may succeed under it and delete the count
    (`LockedOutStaysOut` says what holds instead).
12. A logout whose DEL failed is answered like one of a session that was gone
    (`RevokedStaysOut` therefore speaks of those answered OK).
13. In the last half second of a lock `checkLocked` takes it for none.
14. In the last half second of a code its count is deleted at every try, so tries are
   not limited then. No run of its own: `TriesPerCode` without its exception fails in
   `registration`.

## 6. Proofs

All for every value of the constants, from the named assumptions of the modules.

* **SeckillOrderProofs.** `IInv` is inductive. The properties alone are not: that
  stock and orders agree needs to know which requests hold a unit and which
  transaction is under which row lock, so it conjoins where a transaction stands given
  its callbacks (`TxnOK`), what it holds (`HoldingsOK`: a row implies a unit, an open
  unit is under the row lock, a row lock has one owner), conservation of units
  (`StockConserved`), and what was said when (`RepliesOK`). From it: `NeverOversold`,
  `StockMatchesOrders`, `OneOrderEach`, `SoldOutHonest`, `OkDurable`,
  `InvalidationCommitted`, `RefusedStaysUnsold`, `GateShields`. `OrderImplementsSale` takes each
  action to a `FlashSale` step or a stutter. `OrderUsesGate` takes tryAcquire, the death
  of the last lambda and a crash to steps of `Gate` and all else to stutters; it needs
  `TransactionOK`, which tells a request the gate refused from one the unique key did.
  `DuplicateHonest` is for the server without
  the gate (`~Gated`), since with it the property is false (finding 1). Assumed: finitely many requests,
  `InitStock` natural, the gate's slots a function of user and sku.
* **InflightGuardProofs.** `IInv == TypeOK /\ InsideAlone /\ MarksMatchHolders` is
  inductive: exclusion is needed to know that what a thread saw in its shard still
  holds when it inserts. `GuardImplementsGate` follows: acquire happens at the insert
  or fetch_or, refusal at the lookup, release at the erase. Note that the slots are
  keys under the locks, bits in the bitmap: a collision refuses, it never clears
  another's mark.
* **AsyncLoggerProofs.** The messages accepted are file, then batch, then ring, index
  by index (`EveryMessageOnce`); with `StopInOrder` this is inductive. The arithmetic
  rests on `WrapsOnce` and `SlotsDiffer`: positions of a ring that is not full are
  different slots.

* **RegistrationProofs.** `IInv` is inductive. `TriesPerCode` needs `KeysInv`: until its
  last half second a stored code that was missed is the one sms:try was given the end
  of, so the count holds all its misses and cannot vanish before, across codes that
  replace each other and counts that outlive theirs. `RefusalsAreHonest` needs `QuotaInv`: reg:ip never exceeds the
  accounts that were marked, each of which exists. `NoAccountWithoutCode` carries
  `HasCode` along the request (`RequestInv`) to the row (`AccountInv`).
* **LoginProofs.** `IInv` is inductive. `GuessesAreBounded` needs `CountInv`: the count
  is the failures since the last reset, below `MaxFail`. `LocksAreEarned` follows from
  it step by step. `LockedOutStaysOut` needs `LoginInv`: whoever is past the look at
  the lock ran at a moment without one. `RevokedStaysOut` and `TokensAreHonored` need
  `SessionInv`: a token is handed out after its session was saved, the session is gone
  only when the token has expired or somebody revoked it, and what a logout deleted
  never comes back, since a token is saved once.
* **DelayDeleterProofs.** `QueueInv`: what was accepted is what was made, what is being
  made and what is queued, index by index. `InOrderAndNotEarly` follows.
* **BloomFilterProofs.** `NoFalseNegatives` and `WordsAreThere`, for every size, number
  of hashes, word width and pair of hash functions (`BloomConstants`, which `SkuReads`
  assumes of the filter it instantiates and TLC checks there).
* **SkuReadsProofs.** For any skus, requests, orders, capacity of L1 and filter.
  - `TypeCorrect`: with `RequestsOK` (what a request can hold where it is) inductive. The
    lemmas say what `Pick`, `Drop`, `Touch` and `Put` keep of a sequence of entries, and
    what each step does to each part of the state (`LocalStep`, `WireStep`, `RedisStep`).
  - `RebuildsCount`, with no hypothesis on how rebuilds overlap: `RebuildsGrow` says that
    later queries find more (rows are only added), that what a rebuild is about to
    publish is what its query found, and that the filter has all its own query found. It
    rests on `NoFalseNegatives`.
  - `NotFoundHonest`: `KnownStep` says that a sku which no text denies, in Redis, on its
    way, in L1 or in the hands of a request, and no filter, published or about to be, is
    denied by none after any step. So assured requests stay so (`AssuredAreKnown`), and
    the skus on sale from the start are known from the start.
  - `FreshAfterDeletes`, from `DoubleDelete` and `Prompt` (finding 2 shows that `Prompt`
    is needed). GETs, SETEXs and first DELs may fail. `StaleIsDoomed`: every old copy of a row still has a delete ahead of it,
    the commit callback's, or a second one, queued or on the wire; and a copy
    that is yet to be written has the commit callback, or a second delete whose window
    contains its writer, ahead of it. The second half is what makes it inductive: the
    first delete may overtake the write-back, or be overtaken by it. Without a cache
    nothing is ever stored, and with `InvalidateOnOrder = "none"` nothing is promised.
  - `NothingIsInvented`: no answer and no cached text shows a version that was not yet
    committed, nor one under a key it does not belong to. It is defined in the proofs
    module, and no run has it.

Only model-checked: everything temporal beyond invariants and refinement
(`AcceptedRequestsFinish`, `MarksGoAway`, `EveryRequestAnswered`,
`AcceptedAreWritten`, `ShutdownReturns`, `SecondDeleteComes`, `StopReturns`): liveness
under fairness is out of the prover's reach. Every invariant a passing run checks is
a theorem.

## 7. Not modelled, and why

* How `BloomFilter::create` derives the size from capacity and error rate, and the error
  rate itself: floating point and probability; every size is allowed instead.
* Health, `main.cc` but for the warm handler, JSON helpers: they validate, wire and map
  codes to statuses and keep no state; their settings are the models' constants. With no
  Redis `main.cc` wires neither cache nor users: `CacheEnabled = FALSE` is that case (no run has it: reads are then queries only).
* base64, JSON and HMAC of the tokens, and password hashing: pure functions, taken as
  perfect.
* Two clocks: server and Redis are given one; the code's own comment (`Jwt.cc` 176)
  relies on one clock as well.
* Counters and statistics, log texts, JSON texts, TTL jitter: no property depends on them.
