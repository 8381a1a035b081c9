---------------------------- MODULE SeckillOrder ----------------------------
(***************************************************************************)
(* SeckillService::doSeckill: the in-flight gate, the asynchronous Drogon  *)
(* transaction (deduct stock, insert order, commit when the last handle    *)
(* dies) and its callbacks, against an InnoDB table pair with row locks.   *)
(*                                                                         *)
(* A request is in one place of the callback chain (pc).  While a          *)
(* statement is out, the database moves on its own (Db* actions) and       *)
(* leaves an answer; the callback that consumes it (On* actions) runs      *)
(* later on an IO thread.  Connections can break, so the answer and what   *)
(* the database did may differ, and the process can crash.                 *)
(***************************************************************************)
EXTENDS Integers, Sequences, FiniteSets

CONSTANTS
  Reqs,      \* order requests (a client's retry is another request)
  Users, Skus,
  UserOf,    \* [Reqs -> Users]
  SkuOf,     \* [Reqs -> Skus]
  InitStock, \* [Skus -> Nat]: seckill_sku.stock when the sale opens
  PoolSize,  \* connections of the Drogon MySQL pool
  Gated,     \* seckill_lock.mode is not "none"
  Slots,     \* what the guard marks: 64-bit keys, or bits of its bitmap
  SlotOf     \* [Users \X Skus -> Slots]: makeKey and the bitmap index

VARIABLES
  pc,          \* [Reqs -> Places]: where the callback chain of a request is
  answer,      \* [Reqs -> Answers]: the database's answer to its statement
  replies,     \* [Reqs -> Seq(Codes)]: the calls made of the HTTP callback
  token,       \* requests whose callback chain holds an InflightToken
  marked,      \* slots marked in the guard
  invalidated, \* requests whose commit callback ran invalidateOnOrder
  stock,       \* [Skus -> Int]: seckill_sku.stock, uncommitted updates included
  deducted,    \* requests whose UPDATE took a unit that is still taken
  orders,      \* requests with a row in seckill_order, committed or not
  locked,      \* requests whose transaction holds the row lock of its sku
  txn,         \* [Reqs -> TxnStates]: the transaction as MySQL sees it
  commitSent   \* requests whose COMMIT was sent

server == <<pc, answer, replies, token, marked, invalidated>>
db     == <<stock, deducted, orders, locked, txn, commitSent>>
vars   == <<server, db>>

Places == {"new", "opening", "updating", "inserting", "committing",
           "rollingback", "releasing", "done", "crashed"}
Answers == {"none", "0", "1", "err"}   \* affectedRows(), or the exception
Codes == {"OK", "SOLD_OUT", "DUPLICATE_ORDER", "DB_ERROR"}
TxnStates == {"none", "open", "committed", "aborted"}

ASSUME RequestsAssumption ==
  /\ IsFiniteSet(Reqs)
  /\ UserOf \in [Reqs -> Users]
  /\ SkuOf \in [Reqs -> Skus]

ASSUME StockAssumption == InitStock \in [Skus -> Nat]

ASSUME GateAssumption ==
  /\ Gated \in BOOLEAN
  /\ SlotOf \in [Users \X Skus -> Slots]

Pair(r) == <<UserOf[r], SkuOf[r]>>
Slot(r) == SlotOf[Pair(r)]

Init ==
  /\ pc = [r \in Reqs |-> "new"]
  /\ answer = [r \in Reqs |-> "none"]
  /\ replies = [r \in Reqs |-> <<>>]
  /\ token = {} /\ marked = {} /\ invalidated = {}
  /\ stock = InitStock
  /\ deducted = {} /\ orders = {} /\ locked = {} /\ commitSent = {}
  /\ txn = [r \in Reqs |-> "none"]

Goto(r, place) == pc' = [pc EXCEPT ![r] = place]
Reply(r, code) == replies' = [replies EXCEPT ![r] = Append(@, code)]

-----------------------------------------------------------------------------
(* The service's callbacks *)

\* What tryAcquire looks at.
IsMarked(r) == Slot(r) \in marked

\* doSeckill up to newTransactionAsync: a marked slot is refused at once, an
\* unmarked one is marked and the token travels with the callbacks.
DoSeckill(r) ==
  /\ pc[r] = "new"
  /\ \/ /\ Gated /\ IsMarked(r)
        /\ Goto(r, "done")
        /\ Reply(r, "DUPLICATE_ORDER")
        /\ UNCHANGED <<token, marked>>
     \/ /\ Gated /\ ~IsMarked(r)
        /\ Goto(r, "opening")
        /\ token' = token \cup {r}
        /\ marked' = marked \cup {Slot(r)}
        /\ UNCHANGED replies
     \/ /\ ~Gated
        /\ Goto(r, "opening")
        /\ UNCHANGED <<replies, token, marked>>
  /\ UNCHANGED <<answer, invalidated, db>>

\* Requests that occupy a pooled connection.
Connected == {r \in Reqs : pc[r] \in {"updating", "inserting", "committing",
                                      "rollingback"}}

\* Mutant: only the outermost lambda captures the token, so the mark goes as
\* soon as the first SQL is out (the mistake SeckillService.cc 79-82 warns of).
OnTransactionDropsToken(r) ==
  /\ pc[r] = "opening"
  /\ Cardinality(Connected) < PoolSize
  /\ Goto(r, "updating")
  /\ txn' = [txn EXCEPT ![r] = "open"]
  /\ token' = token \ {r}
  /\ marked' = marked \ {Slot(r)}
  /\ UNCHANGED <<answer, replies, invalidated,
                 stock, deducted, orders, locked, commitSent>>

\* newTransactionAsync hands out a transaction; the UPDATE is sent.
OnTransaction(r) ==
  /\ pc[r] = "opening"
  /\ Cardinality(Connected) < PoolSize
  /\ Goto(r, "updating")
  /\ txn' = [txn EXCEPT ![r] = "open"]
  /\ UNCHANGED <<answer, replies, token, marked, invalidated,
                 stock, deducted, orders, locked, commitSent>>

\* newTransactionAsync hands out null.  Mutant: the null check answers nobody.
OnTransactionTimeoutSilent(r) ==
  /\ pc[r] = "opening"
  /\ Goto(r, "releasing")
  /\ UNCHANGED <<answer, replies, token, marked, invalidated, db>>
OnTransactionTimeout(r) ==
  /\ pc[r] = "opening"
  /\ Goto(r, "releasing")
  /\ Reply(r, "DB_ERROR")
  /\ UNCHANGED <<answer, token, marked, invalidated, db>>

\* The two callbacks of the UPDATE: go on, or roll back and answer.
OnUpdate(r) ==
  /\ pc[r] = "updating"
  /\ answer[r] # "none"
  /\ answer' = [answer EXCEPT ![r] = "none"]
  /\ \/ /\ answer[r] = "1"
        /\ Goto(r, "inserting")
        /\ UNCHANGED replies
     \/ /\ answer[r] = "0"
        /\ Goto(r, "rollingback")
        /\ Reply(r, "SOLD_OUT")
     \/ /\ answer[r] = "err"
        /\ Goto(r, "rollingback")
        /\ Reply(r, "DB_ERROR")
  /\ UNCHANGED <<token, marked, invalidated, db>>

\* The last handle of the transaction dies without rollback(): COMMIT is sent.
AutoCommit(r) ==
  /\ Goto(r, "committing")
  /\ commitSent' = commitSent \cup {r}

\* rollback() is called, so the destructor will not commit.  Mutant: it is
\* forgotten, and the destructor commits.
ForgetRollback(r) == AutoCommit(r)
RollBack(r) ==
  /\ Goto(r, "rollingback")
  /\ UNCHANGED commitSent

\* Mutant: the success callback of the INSERT answers OK and invalidates the
\* cache itself instead of leaving both to the commit callback.
OnInsertAnswersOk(r) ==
  /\ pc[r] = "inserting"
  /\ answer[r] = "1"
  /\ answer' = [answer EXCEPT ![r] = "none"]
  /\ AutoCommit(r)
  /\ Reply(r, "OK")
  /\ invalidated' = invalidated \cup {r}
  /\ UNCHANGED <<token, marked, stock, deducted, orders, locked, txn>>

\* Mutant: the cache is invalidated as the order is inserted.
OnInsertInvalidates(r) ==
  /\ pc[r] = "inserting"
  /\ answer[r] = "1"
  /\ answer' = [answer EXCEPT ![r] = "none"]
  /\ AutoCommit(r)
  /\ invalidated' = invalidated \cup {r}
  /\ UNCHANGED <<token, marked, replies, stock, deducted, orders, locked, txn>>

\* Mutant: every exception of the INSERT is taken for the unique key.
OnInsertErrorIsDuplicate(r) ==
  /\ pc[r] = "inserting"
  /\ answer[r] # "none"
  /\ answer' = [answer EXCEPT ![r] = "none"]
  /\ IF answer[r] = "1" THEN AutoCommit(r) /\ UNCHANGED replies
     ELSE RollBack(r) /\ Reply(r, "DUPLICATE_ORDER")
  /\ UNCHANGED <<token, marked, invalidated,
                 stock, deducted, orders, locked, txn>>

\* The two callbacks of the INSERT.  affectedRows() = 0 is the unique key.
OnInsert(r) ==
  /\ pc[r] = "inserting"
  /\ answer[r] # "none"
  /\ answer' = [answer EXCEPT ![r] = "none"]
  /\ \/ /\ answer[r] = "1"
        /\ AutoCommit(r)
        /\ UNCHANGED replies
     \/ /\ answer[r] = "0"
        /\ RollBack(r)
        /\ Reply(r, "DUPLICATE_ORDER")
     \/ /\ answer[r] = "err"
        /\ RollBack(r)
        /\ Reply(r, "DB_ERROR")
  /\ UNCHANGED <<token, marked, invalidated,
                 stock, deducted, orders, locked, txn>>

\* The commit callback: invalidate, then answer.
OnCommit(r) ==
  /\ pc[r] = "committing"
  /\ answer[r] # "none"
  /\ answer' = [answer EXCEPT ![r] = "none"]
  /\ Goto(r, "releasing")
  /\ \/ /\ answer[r] = "1"
        /\ invalidated' = invalidated \cup {r}
        /\ Reply(r, "OK")
     \/ /\ answer[r] = "err"
        /\ Reply(r, "DB_ERROR")
        /\ UNCHANGED invalidated
  /\ UNCHANGED <<token, marked, db>>

\* The last lambda dies, and with it the last copy of the token.
Release(r) ==
  /\ pc[r] = "releasing"
  /\ Goto(r, "done")
  /\ token' = token \ {r}
  /\ marked' = marked \ {Slot(q) : q \in token \cap {r}}
  /\ UNCHANGED <<answer, replies, invalidated, db>>

\* The process dies: callbacks and the guard are gone, MySQL keeps what it has.
Crash ==
  /\ \E r \in Reqs : pc[r] \notin {"new", "done", "crashed"}
  /\ pc' = [r \in Reqs |-> IF pc[r] \in {"new", "done"} THEN pc[r]
                           ELSE "crashed"]
  /\ answer' = [r \in Reqs |-> "none"]
  /\ token' = {} /\ marked' = {}
  /\ UNCHANGED <<replies, invalidated, db>>

-----------------------------------------------------------------------------
(* MySQL: the two statements, COMMIT, ROLLBACK, and broken connections *)

Answer(r, a) == answer' = [answer EXCEPT ![r] = a]

\* UPDATE waits for the row lock of its sku.
RowFree(r) == \A q \in locked : SkuOf[q] # SkuOf[r]

\* WHERE id = ? AND stock > 0.  Mutants: no stock condition; off by one.
NoStockCondition(s) == TRUE
StockAboveOne(s) == stock[s] > 1
InStock(s) == stock[s] > 0

\* UPDATE seckill_sku SET stock = stock - 1 WHERE id = ? AND stock > 0.
DbUpdate(r) ==
  /\ pc[r] = "updating" /\ answer[r] = "none"
  /\ RowFree(r)
  /\ locked' = locked \cup {r}
  /\ \/ /\ InStock(SkuOf[r])
        /\ stock' = [stock EXCEPT ![SkuOf[r]] = @ - 1]
        /\ deducted' = deducted \cup {r}
        /\ Answer(r, "1")
     \/ /\ ~InStock(SkuOf[r])
        /\ Answer(r, "0")
        /\ UNCHANGED <<stock, deducted>>
  /\ UNCHANGED <<pc, replies, token, marked, invalidated,
                 orders, txn, commitSent>>

\* uk_user_sku.  Mutant: the table has no such key.
NoUniqueKey(r) == FALSE
IsDuplicate(r) == \E q \in orders : Pair(q) = Pair(r)

\* INSERT INTO seckill_order ... ON DUPLICATE KEY UPDATE id = id.  It never
\* waits: a row of this sku that is not committed would be under the row
\* lock this transaction holds.
DbInsert(r) ==
  /\ pc[r] = "inserting" /\ answer[r] = "none"
  /\ \/ /\ IsDuplicate(r)
        /\ Answer(r, "0")
        /\ UNCHANGED orders
     \/ /\ ~IsDuplicate(r)
        /\ Answer(r, "1")
        /\ orders' = orders \cup {r}
  /\ UNCHANGED <<pc, replies, token, marked, invalidated,
                 stock, deducted, locked, txn, commitSent>>

\* COMMIT is applied; the answer counts only if the server still waits for it.
DbCommit(r) ==
  /\ txn[r] = "open" /\ r \in commitSent
  /\ txn' = [txn EXCEPT ![r] = "committed"]
  /\ locked' = locked \ {r}
  /\ IF pc[r] = "committing" /\ answer[r] = "none"
     THEN Answer(r, "1") ELSE UNCHANGED answer
  /\ UNCHANGED <<pc, replies, token, marked, invalidated,
                 stock, deducted, orders, commitSent>>

\* What MySQL undoes when a transaction ends without COMMIT.
StockAfterUndo(r) ==
  IF r \in deducted THEN [stock EXCEPT ![SkuOf[r]] = @ + 1] ELSE stock

Undo(r) ==
  /\ txn' = [txn EXCEPT ![r] = "aborted"]
  /\ stock' = StockAfterUndo(r)
  /\ deducted' = deducted \ {r}
  /\ orders' = orders \ {r}
  /\ locked' = locked \ {r}
  /\ UNCHANGED commitSent

\* The statement ends in an exception: MySQL aborted the transaction
\* (deadlock victim), or only the statement failed, or the connection broke
\* (perhaps after the statement was executed, so its answer is lost) and
\* MySQL still holds the transaction and may yet apply its COMMIT.
DbError(r) ==
  /\ pc[r] \in {"updating", "inserting", "committing"} /\ answer[r] # "err"
  /\ Answer(r, "err")
  /\ \/ txn[r] = "open" /\ Undo(r)
     \/ UNCHANGED db
  /\ UNCHANGED <<pc, replies, token, marked, invalidated>>

\* ROLLBACK is executed, finds the transaction aborted already, or is lost
\* with the connection; in each case the chain ends.
DbRollback(r) ==
  /\ pc[r] = "rollingback"
  /\ Goto(r, "releasing")
  /\ \/ txn[r] = "open" /\ Undo(r)
     \/ UNCHANGED db
  /\ UNCHANGED <<answer, replies, token, marked, invalidated>>

\* MySQL notices a dead connection and aborts the transaction it left behind.
DbAbort(r) ==
  /\ txn[r] = "open"
  /\ pc[r] \in {"releasing", "done", "crashed"}
  /\ Undo(r)
  /\ UNCHANGED server

-----------------------------------------------------------------------------
Callbacks(r) ==
  \/ DoSeckill(r) \/ OnTransaction(r) \/ OnTransactionTimeout(r)
  \/ OnUpdate(r) \/ OnInsert(r) \/ OnCommit(r) \/ Release(r)

Database(r) ==
  \/ DbUpdate(r) \/ DbInsert(r) \/ DbCommit(r)
  \/ DbError(r) \/ DbRollback(r) \/ DbAbort(r)

Next == Crash \/ \E r \in Reqs : Callbacks(r) \/ Database(r)

Spec == Init /\ [][Next]_vars

\* The event loops keep running callbacks and MySQL keeps executing what it
\* was sent and cleaning up after dead connections.  Nothing forces a request
\* to arrive, a timeout, an error or a crash.
Fairness ==
  \A r \in Reqs :
    /\ WF_vars(OnTransaction(r))
    /\ WF_vars(OnUpdate(r) \/ OnInsert(r) \/ OnCommit(r) \/ Release(r))
    /\ WF_vars(DbUpdate(r) \/ DbInsert(r))
    /\ WF_vars(DbCommit(r) \/ DbRollback(r) \/ DbAbort(r))

FairSpec == Spec /\ Fairness

-----------------------------------------------------------------------------
(* Properties *)

TypeOK ==
  /\ pc \in [Reqs -> Places]
  /\ answer \in [Reqs -> Answers]
  /\ replies \in [Reqs -> Seq(Codes)]
  /\ token \subseteq Reqs
  /\ marked \subseteq Slots
  /\ invalidated \subseteq Reqs
  /\ stock \in [Skus -> Int]
  /\ deducted \subseteq Reqs
  /\ orders \subseteq Reqs
  /\ locked \subseteq Reqs
  /\ txn \in [Reqs -> TxnStates]
  /\ commitSent \subseteq Reqs

\* The orders of s whose transaction is committed.
Sold(s) == {r \in orders : txn[r] = "committed" /\ SkuOf[r] = s}

\* The requests that hold a unit of s, committed or not.
Taken(s) == {r \in deducted : SkuOf[r] = s}

\* The inductive invariant behind the properties below, in four parts.

\* Where the transaction of a request stands, given where its callbacks are.
TxnAt(r) ==
  /\ pc[r] \in {"new", "opening"} => txn[r] = "none" /\ answer[r] = "none"
  /\ pc[r] = "updating" /\ answer[r] = "none" =>
       txn[r] = "open" /\ r \notin locked
  /\ pc[r] = "updating" /\ answer[r] = "1" =>
       txn[r] = "open" /\ r \in deducted
  /\ pc[r] = "inserting" /\ answer[r] = "none" =>
       txn[r] = "open" /\ r \in deducted
  /\ pc[r] = "inserting" /\ answer[r] = "1" =>
       txn[r] = "open" /\ r \in orders
  /\ pc[r] = "committing" => r \in commitSent
  /\ pc[r] = "committing" /\ answer[r] = "1" => txn[r] = "committed"
  /\ r \in commitSent => pc[r] \in {"committing", "releasing", "done", "crashed"}
  /\ r \in commitSent /\ txn[r] = "open" => r \in orders
  /\ txn[r] = "committed" => r \in commitSent /\ r \in orders

TxnOK == \A r \in Reqs : TxnAt(r)

\* What a transaction holds: an order row implies a unit taken, a unit taken
\* by an open transaction is under its row lock, and a row lock has one owner.
HoldingsAt(r) ==
  /\ r \in orders => r \in deducted
  /\ r \in deducted => txn[r] \in {"open", "committed"}
  /\ r \in locked => txn[r] = "open"
  /\ r \in deducted /\ txn[r] = "open" => r \in locked

HoldingsOK ==
  /\ \A r \in Reqs : HoldingsAt(r)
  /\ \A q, r \in locked : SkuOf[q] = SkuOf[r] => q = r

\* Units are conserved.
StockConserved ==
  \A s \in Skus :
    /\ stock[s] \in Nat
    /\ stock[s] + Cardinality(Taken(s)) = InitStock[s]

\* No oversell (PLAN.md 18): stock never goes negative and a sku never has
\* more committed orders than it had units.
NoOversell ==
  \A s \in Skus : stock[s] >= 0 /\ Cardinality(Sold(s)) <= InitStock[s]

\* sold == orders (PLAN.md 18): whenever no transaction on s is open, the
\* units missing from its stock are exactly its order rows, whatever was
\* rolled back, lost or crashed before.
SoldEqualsOrders ==
  \A s \in Skus :
    (\A r \in Reqs : SkuOf[r] = s => txn[r] # "open") =>
      stock[s] + Cardinality({r \in orders : SkuOf[r] = s}) = InitStock[s]

\* One order per user and sku (PLAN.md 19, uk_user_sku): two order rows, even
\* uncommitted ones, are never for the same pair.
OneOrderPerUser ==
  \A q, r \in orders : Pair(q) = Pair(r) => q = r

\* SOLD_OUT is final: the caller that hears it is told while every unit of
\* the sku belongs to a committed order.  It is never said because another
\* transaction holds a unit it will give back.
SoldOutIsHonest ==
  \A r \in Reqs :
    replies[r] = <<"SOLD_OUT">> =>
      Cardinality(Sold(SkuOf[r])) = InitStock[SkuOf[r]]

\* A caller that was told OK owns a committed order, and the cache was
\* invalidated before it heard so (SeckillService.cc 113-122).
OkIsDurable ==
  \A r \in Reqs :
    replies[r] = <<"OK">> => /\ r \in orders /\ txn[r] = "committed"
                             /\ r \in invalidated

\* The cache is never invalidated for an order that is not committed yet
\* (SeckillService.cc 115-119: DEL before COMMIT lets a reader cache the old
\* value).
InvalidationFollowsCommit ==
  \A r \in invalidated : r \in orders /\ txn[r] = "committed"

\* A refused request is never sold a unit, then or later: a path that called
\* rollback() does not also commit (SeckillService.cc 86-90).
RefusedNeverSold ==
  \A r \in Reqs :
    (\E i \in DOMAIN replies[r] : replies[r][i] \in {"SOLD_OUT", "DUPLICATE_ORDER"})
      => /\ r \notin commitSent /\ txn[r] # "committed"
         /\ Len(replies[r]) = 1

\* What the gate is for: of the requests of one user for one sku, at most one
\* is past the gate, from tryAcquire until its callback chain has ended (a
\* transaction orphaned by a broken connection may outlive it in MySQL).
GateShieldsDatabase ==
  Gated => \A q, r \in Reqs :
    /\ q # r /\ Pair(q) = Pair(r)
    /\ pc[q] \notin {"new", "done", "crashed"}
    => pc[r] \in {"new", "done", "crashed"}

\* Another request of the user of r has the order.
Ordered(r) == \E q \in orders : q # r /\ Pair(q) = Pair(r) /\ txn[q] = "committed"

\* DUPLICATE_ORDER means the user has the order (InflightGuard's refusal is
\* said to be the same to the client, SeckillService.cc 72).
DuplicateIsHonest ==
  \A r \in Reqs :
    replies[r] = <<"DUPLICATE_ORDER">> => Ordered(r)

\* What a request has been told, given where its callbacks are.
RepliesOK ==
  \A r \in Reqs :
    /\ pc[r] \in {"new", "opening", "updating", "inserting", "committing"} =>
         replies[r] = <<>>
    /\ replies[r] = <<>> \/ \E code \in Codes : replies[r] = <<code>>
    /\ pc[r] = "updating" /\ answer[r] = "0" =>
         Cardinality(Sold(SkuOf[r])) = InitStock[SkuOf[r]]

\* With a gate, a request holds its token from tryAcquire to the end of its
\* callback chain; without one there are no tokens.
TokensOK ==
  token = {r \in Reqs : Gated /\ pc[r] \notin {"new", "done", "crashed"}}

\* With the gate off, only the unique key says DUPLICATE_ORDER.
DuplicateOK ==
  \A r \in Reqs :
    /\ pc[r] \in {"new", "opening", "updating"} => r \notin orders
    /\ pc[r] = "inserting" /\ answer[r] = "none" => r \notin orders
    /\ pc[r] = "inserting" /\ answer[r] = "0" => Ordered(r)

\* Who is past the gate has a transaction from its UPDATE on, and a request
\* that got none is told so.
TransactionOK ==
  \A r \in Reqs : txn[r] = "none" =>
    /\ pc[r] \in {"new", "opening", "releasing", "done", "crashed"}
    /\ pc[r] = "releasing" => replies[r] = <<"DB_ERROR">>

\* A slot is marked exactly while one request holds a token for it: what
\* GateShieldsDatabase and UsesGate rest on.
MarkedIffHeld ==
  /\ marked = {Slot(r) : r \in token}
  /\ \A q, r \in token : Slot(q) = Slot(r) => q = r

IInv ==
  /\ TypeOK /\ TxnOK /\ HoldingsOK /\ StockConserved /\ OneOrderPerUser
  /\ RepliesOK /\ SoldOutIsHonest /\ OkIsDurable /\ RefusedNeverSold
  /\ InvalidationFollowsCommit /\ TokensOK /\ MarkedIffHeld

\* Every accepted request is answered, unless the process dies, and gives
\* back its token and its row lock.
AcceptedRequestsFinish ==
  \A r \in Reqs :
    pc[r] # "new" ~>
      /\ \/ pc[r] = "crashed"
         \/ pc[r] = "done" /\ Len(replies[r]) = 1
      /\ r \notin token /\ r \notin locked

\* The order path implements the sale: a unit is sold when its transaction
\* commits.
Sale == INSTANCE FlashSale
          WITH sold <- {r \in Reqs : txn[r] = "committed"}, told <- replies

ImplementsFlashSale == Sale!Spec

\* What the gate sees of a request: its slot, or itself if the guard is off;
\* what tryAcquire returned; and whether its callback chain is going on.
SlotsSeen == [r \in Reqs |-> IF Gated THEN Slot(r) ELSE r]
RefusedAtGate(r) ==
  pc[r] = "done" /\ txn[r] = "none" /\ replies[r] = <<"DUPLICATE_ORDER">>
Verdict(r) == CASE pc[r] = "new"    -> "none"
                [] RefusedAtGate(r) -> "empty"
                [] OTHER            -> "valid"
Verdicts == [r \in Reqs |-> Verdict(r)]
Inside == {r \in Reqs : pc[r] \notin {"new", "done", "crashed"}}

G == INSTANCE Gate
       WITH slot <- SlotsSeen, verdict <- Verdicts, holders <- Inside

\* A request passes the gate once, for its whole chain of callbacks: from
\* tryAcquire to the death of the last lambda it is the holder of its slot,
\* others are refused exactly then, and a crash lets all of them go.
UsesGate == G!RestartingSpec
=============================================================================
