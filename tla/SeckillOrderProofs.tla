------------------------ MODULE SeckillOrderProofs ------------------------
(***************************************************************************)
(* Proofs about SeckillOrder, for every number of requests, users, skus,   *)
(* units, connections and slots, gated or not, with crashes and broken     *)
(* connections.                                                            *)
(***************************************************************************)
EXTENDS SeckillOrder, FiniteSetTheorems, TLAPS

-----------------------------------------------------------------------------
(* Types *)

LEMMA GotoType ==
  ASSUME pc \in [Reqs -> Places], NEW r \in Reqs, NEW place \in Places,
         Goto(r, place)
  PROVE  pc' \in [Reqs -> Places]
BY DEF Goto

LEMMA AnswerType ==
  ASSUME answer \in [Reqs -> Answers], NEW r \in Reqs, NEW a \in Answers,
         answer' = [answer EXCEPT ![r] = a]
  PROVE  answer' \in [Reqs -> Answers]
OBVIOUS

LEMMA ReplyType ==
  ASSUME replies \in [Reqs -> Seq(Codes)], NEW r \in Reqs, NEW code \in Codes,
         Reply(r, code)
  PROVE  replies' \in [Reqs -> Seq(Codes)]
<1>1. Append(replies[r], code) \in Seq(Codes)
  OBVIOUS
<1> QED
  BY <1>1 DEF Reply

\* Undo leaves the tables, the locks and the transactions well typed.
LEMMA UndoType ==
  ASSUME TypeOK, NEW r \in Reqs, Undo(r)
  PROVE  /\ stock' \in [Skus -> Int]
         /\ deducted' \subseteq Reqs /\ orders' \subseteq Reqs
         /\ locked' \subseteq Reqs /\ commitSent' \subseteq Reqs
         /\ txn' \in [Reqs -> TxnStates]
<1>1. stock' \in [Skus -> Int]
  <2>1. SkuOf[r] \in Skus /\ stock \in [Skus -> Int]
    BY RequestsAssumption DEF TypeOK
  <2>2. stock' = stock \/ stock' = [stock EXCEPT ![SkuOf[r]] = stock[SkuOf[r]] + 1]
    BY DEF Undo, StockAfterUndo
  <2> QED
    BY <2>1, <2>2
<1>2. txn' \in [Reqs -> TxnStates]
  BY DEF Undo, TypeOK, TxnStates
<1> QED
  BY <1>1, <1>2 DEF Undo, TypeOK

LEMMA TypeCorrectStep == TypeOK /\ [Next]_vars => TypeOK'
<1> SUFFICES ASSUME TypeOK, [Next]_vars PROVE TypeOK'
  OBVIOUS
<1> USE DEF TypeOK
<1>1. CASE Crash
  BY <1>1 DEF Crash, db, Places, Answers
<1>a. /\ "opening" \in Places /\ "updating" \in Places
      /\ "inserting" \in Places /\ "committing" \in Places
      /\ "rollingback" \in Places /\ "releasing" \in Places
      /\ "done" \in Places
  BY DEF Places
<1>b. "none" \in Answers /\ "0" \in Answers /\ "1" \in Answers /\ "err" \in Answers
  BY DEF Answers
<1>c. /\ "OK" \in Codes /\ "SOLD_OUT" \in Codes
      /\ "DUPLICATE_ORDER" \in Codes /\ "DB_ERROR" \in Codes
  BY DEF Codes
<1>d. "open" \in TxnStates /\ "committed" \in TxnStates
  BY DEF TxnStates
<1>2. ASSUME NEW r \in Reqs, Callbacks(r) PROVE TypeOK'
  <2>1. CASE DoSeckill(r)
    <3>1. Slot(r) \in Slots
      BY RequestsAssumption, GateAssumption DEF Slot, Pair
    <3> QED
      BY <2>1, <3>1, <1>a, <1>c, GotoType, ReplyType DEF DoSeckill, db
  <2>2. CASE OnTransaction(r)
    BY <2>2, <1>a, <1>d, GotoType DEF OnTransaction
  <2>3. CASE OnTransactionTimeout(r)
    BY <2>3, <1>a, <1>c, GotoType, ReplyType DEF OnTransactionTimeout, db
  <2>4. CASE OnUpdate(r)
    BY <2>4, <1>a, <1>b, <1>c, GotoType, AnswerType, ReplyType
    DEF OnUpdate, db
  <2>5. CASE OnInsert(r)
    BY <2>5, <1>a, <1>b, <1>c, GotoType, AnswerType, ReplyType
    DEF OnInsert, AutoCommit, RollBack
  <2>6. CASE OnCommit(r)
    BY <2>6, <1>a, <1>b, <1>c, GotoType, AnswerType, ReplyType
    DEF OnCommit, db
  <2>7. CASE Release(r)
    BY <2>7, <1>a, GotoType DEF Release, db
  <2> QED
    BY <1>2, <2>1, <2>2, <2>3, <2>4, <2>5, <2>6, <2>7 DEF Callbacks
<1>3. ASSUME NEW r \in Reqs, Database(r) PROVE TypeOK'
  <2> USE <1>a, <1>b, <1>d DEF Answer
  <2>1. CASE DbUpdate(r)
    <3>1. stock' \in [Skus -> Int]
      BY <2>1, RequestsAssumption DEF DbUpdate
    <3> QED
      BY <2>1, <3>1, AnswerType DEF DbUpdate
  <2>2. CASE DbInsert(r)
    BY <2>2, AnswerType DEF DbInsert
  <2>3. CASE DbCommit(r)
    BY <2>3, AnswerType DEF DbCommit
  <2>4. CASE DbError(r)
    BY <2>4, AnswerType, UndoType DEF DbError, db
  <2>5. CASE DbRollback(r)
    BY <2>5, GotoType, UndoType DEF DbRollback, db
  <2>6. CASE DbAbort(r)
    BY <2>6, UndoType DEF DbAbort, server
  <2> QED
    BY <1>3, <2>1, <2>2, <2>3, <2>4, <2>5, <2>6 DEF Database
<1>4. CASE UNCHANGED vars
  BY <1>4 DEF vars, server, db
<1> QED
  BY <1>1, <1>2, <1>3, <1>4 DEF Next

\* The variables keep their types.
THEOREM TypeCorrect == Spec => []TypeOK
<1>1. Init => TypeOK
  BY RequestsAssumption, StockAssumption
  DEF Init, TypeOK, Places, Answers, TxnStates
<1> QED
  BY <1>1, TypeCorrectStep, PTL DEF Spec

-----------------------------------------------------------------------------
(* Transactions and what they hold *)

LEMMA TxnStep ==
  TypeOK /\ TxnOK /\ HoldingsOK /\ [Next]_vars => TxnOK'
<1> SUFFICES ASSUME TypeOK, TxnOK, HoldingsOK, [Next]_vars, NEW q \in Reqs
             PROVE  TxnAt(q)'
  BY DEF TxnOK
<1>0. TxnAt(q)
  BY DEF TxnOK
<1> USE <1>0 DEF TypeOK, TxnAt
<1>1. CASE Crash
  BY <1>1 DEF Crash, db
<1>2. ASSUME NEW r \in Reqs, Callbacks(r) PROVE TxnAt(q)'
  <2> USE DEF db, Goto
  <2>1. CASE DoSeckill(r)
    BY <2>1 DEF DoSeckill
  <2>2. CASE OnTransaction(r)
    BY <2>2 DEF OnTransaction, HoldingsOK, HoldingsAt
  <2>3. CASE OnTransactionTimeout(r)
    BY <2>3 DEF OnTransactionTimeout
  <2>4. CASE OnUpdate(r)
    BY <2>4 DEF OnUpdate
  <2>5. CASE OnInsert(r)
    BY <2>5 DEF OnInsert, AutoCommit, RollBack
  <2>6. CASE OnCommit(r)
    BY <2>6 DEF OnCommit
  <2>7. CASE Release(r)
    BY <2>7 DEF Release
  <2> QED
    BY <1>2, <2>1, <2>2, <2>3, <2>4, <2>5, <2>6, <2>7 DEF Callbacks
<1>3. ASSUME NEW r \in Reqs, Database(r) PROVE TxnAt(q)'
  <2> USE DEF Answer, Undo
  <2>1. CASE DbUpdate(r)
    BY <2>1 DEF DbUpdate
  <2>2. CASE DbInsert(r)
    BY <2>2 DEF DbInsert
  <2>3. CASE DbCommit(r)
    BY <2>3 DEF DbCommit
  <2>4. CASE DbError(r)
    BY <2>4 DEF DbError, db
  <2>5. CASE DbRollback(r)
    BY <2>5 DEF DbRollback, db, Goto
  <2>6. CASE DbAbort(r)
    BY <2>6 DEF DbAbort, server
  <2> QED
    BY <1>3, <2>1, <2>2, <2>3, <2>4, <2>5, <2>6 DEF Database
<1>4. CASE UNCHANGED vars
  BY <1>4 DEF vars, server, db
<1> QED
  BY <1>1, <1>2, <1>3, <1>4 DEF Next

LEMMA HoldingsStep ==
  TypeOK /\ TxnOK /\ HoldingsOK /\ [Next]_vars => HoldingsOK'
<1> SUFFICES ASSUME TypeOK, TxnOK, HoldingsOK, [Next]_vars
             PROVE  HoldingsOK'
  OBVIOUS
<1> USE DEF TypeOK, HoldingsOK, HoldingsAt
<1>1. CASE Crash
  BY <1>1 DEF Crash, db
<1>2. ASSUME NEW r \in Reqs, Callbacks(r) PROVE HoldingsOK'
  <2>1. CASE OnTransaction(r)
    BY <2>1 DEF OnTransaction, TxnOK, TxnAt
  <2>2. CASE ~OnTransaction(r)
    <3>1. UNCHANGED <<deducted, orders, locked, txn>>
      BY <1>2, <2>2 DEF Callbacks, DoSeckill, OnTransactionTimeout, OnUpdate,
                       OnInsert, OnCommit, Release, db
    <3> QED
      BY <3>1
  <2> QED
    BY <2>1, <2>2
<1>3. ASSUME NEW r \in Reqs, Database(r) PROVE HoldingsOK'
  <2>0. TxnAt(r)
    BY DEF TxnOK
  <2>1. CASE DbUpdate(r)
    BY <2>0, <2>1 DEF DbUpdate, TxnAt, RowFree
  <2>2. CASE DbInsert(r)
    BY <2>0, <2>2 DEF DbInsert, TxnAt
  <2>3. CASE DbCommit(r)
    BY <2>3 DEF DbCommit
  <2>4. CASE txn[r] = "open" /\ Undo(r)
    BY <2>4 DEF Undo
  <2>5. CASE UNCHANGED db
    BY <2>5 DEF db
  <2> QED
    BY <1>3, <2>1, <2>2, <2>3, <2>4, <2>5
    DEF Database, DbError, DbRollback, DbAbort
<1>4. CASE UNCHANGED vars
  BY <1>4 DEF vars, server, db
<1> QED
  BY <1>1, <1>2, <1>3, <1>4 DEF Next

-----------------------------------------------------------------------------
(* Units and orders *)

LEMMA TakenFinite ==
  ASSUME TypeOK, NEW s \in Skus
  PROVE  /\ IsFiniteSet(Taken(s)) /\ Cardinality(Taken(s)) \in Nat
         /\ InitStock[s] \in Nat
<1>1. Taken(s) \subseteq Reqs
  BY DEF Taken, TypeOK
<1>2. IsFiniteSet(Taken(s))
  BY <1>1, RequestsAssumption, FS_Subset
<1> QED
  BY <1>2, FS_CardinalityType, StockAssumption

\* Giving a unit back keeps the balance.
LEMMA UndoConserves ==
  ASSUME TypeOK, StockConserved, NEW r \in Reqs, Undo(r)
  PROVE  StockConserved'
<1> SUFFICES ASSUME NEW s \in Skus
             PROVE  /\ stock'[s] \in Nat
                    /\ stock'[s] + Cardinality(Taken(s)') = InitStock[s]
  BY DEF StockConserved
<1>0. /\ stock[s] \in Nat /\ stock \in [Skus -> Int]
      /\ stock[s] + Cardinality(Taken(s)) = InitStock[s]
  BY DEF StockConserved, TypeOK
<1>1. CASE r \in deducted /\ SkuOf[r] = s
  <2>1. Taken(s)' = Taken(s) \ {r} /\ r \in Taken(s)
    BY <1>1 DEF Undo, Taken
  <2>2. Cardinality(Taken(s)') = Cardinality(Taken(s)) - 1
    BY <2>1, TakenFinite, FS_RemoveElement
  <2>3. stock'[s] = stock[s] + 1
    BY <1>0, <1>1 DEF Undo, StockAfterUndo
  <2> QED
    BY <1>0, <2>2, <2>3, TakenFinite
<1>2. CASE ~(r \in deducted /\ SkuOf[r] = s)
  <2>1. Taken(s)' = Taken(s)
    BY <1>2 DEF Undo, Taken
  <2>2. stock'[s] = stock[s]
    BY <1>0, <1>2 DEF Undo, StockAfterUndo
  <2> QED
    BY <1>0, <2>1, <2>2
<1> QED
  BY <1>1, <1>2

\* Taking a unit keeps the balance.
LEMMA UpdateConserves ==
  ASSUME TypeOK, TxnOK, HoldingsOK, StockConserved, NEW r \in Reqs, DbUpdate(r)
  PROVE  StockConserved'
<1>1. CASE ~InStock(SkuOf[r])
  BY <1>1 DEF DbUpdate, StockConserved, Taken
<1>2. CASE InStock(SkuOf[r])
  <2> SUFFICES ASSUME NEW s \in Skus
               PROVE  /\ stock'[s] \in Nat
                      /\ stock'[s] + Cardinality(Taken(s)') = InitStock[s]
    BY DEF StockConserved
  <2>0. /\ stock[s] \in Nat /\ stock \in [Skus -> Int]
        /\ stock[s] + Cardinality(Taken(s)) = InitStock[s]
    BY DEF StockConserved, TypeOK
  <2>1. /\ stock' = [stock EXCEPT ![SkuOf[r]] = @ - 1]
        /\ deducted' = deducted \cup {r}
    BY <1>2 DEF DbUpdate
  <2>2. r \notin deducted
    BY DEF DbUpdate, TxnOK, TxnAt, HoldingsOK, HoldingsAt
  <2>3. CASE SkuOf[r] = s
    <3>1. Taken(s)' = Taken(s) \cup {r} /\ r \notin Taken(s)
      BY <2>1, <2>2, <2>3 DEF Taken
    <3>2. Cardinality(Taken(s)') = Cardinality(Taken(s)) + 1
      BY <3>1, TakenFinite, FS_AddElement
    <3>3. stock'[s] = stock[s] - 1 /\ stock[s] > 0
      BY <1>2, <2>0, <2>1, <2>3 DEF InStock
    <3> QED
      BY <2>0, <3>2, <3>3, TakenFinite
  <2>4. CASE SkuOf[r] # s
    <3>1. Taken(s)' = Taken(s) /\ stock'[s] = stock[s]
      BY <2>0, <2>1, <2>4 DEF Taken
    <3> QED
      BY <2>0, <3>1
  <2> QED
    BY <2>3, <2>4
<1> QED
  BY <1>1, <1>2

\* What a step can do to the tables: take a unit, add an order row, commit,
\* undo an open transaction, or leave stock, units and rows alone.
LEMMA TableSteps ==
  ASSUME [Next]_vars
  PROVE  \/ \E r \in Reqs : DbUpdate(r) \/ DbInsert(r) \/ DbCommit(r)
         \/ \E r \in Reqs : txn[r] = "open" /\ Undo(r)
         \/ \E r \in Reqs : /\ txn' = [txn EXCEPT ![r] = "open"]
                           /\ pc[r] = "opening"
                           /\ UNCHANGED <<stock, deducted, orders, locked>>
         \/ UNCHANGED <<stock, deducted, orders, locked, txn>>
<1>1. CASE Crash \/ UNCHANGED vars
  BY <1>1 DEF Crash, vars, db
<1>2. ASSUME NEW r \in Reqs, Callbacks(r)
      PROVE \/ /\ txn' = [txn EXCEPT ![r] = "open"]
               /\ pc[r] = "opening"
               /\ UNCHANGED <<stock, deducted, orders, locked>>
            \/ UNCHANGED <<stock, deducted, orders, locked, txn>>
  BY <1>2 DEF Callbacks, DoSeckill, OnTransaction, OnTransactionTimeout,
              OnUpdate, OnInsert, OnCommit, Release, db
<1>3. ASSUME NEW r \in Reqs, Database(r)
      PROVE \/ DbUpdate(r) \/ DbInsert(r) \/ DbCommit(r)
            \/ txn[r] = "open" /\ Undo(r)
            \/ UNCHANGED <<stock, deducted, orders, locked, txn>>
  BY <1>3 DEF Database, DbError, DbRollback, DbAbort, db
<1> QED
  BY <1>1, <1>2, <1>3 DEF Next

LEMMA StockStep ==
  TypeOK /\ TxnOK /\ HoldingsOK /\ StockConserved /\ [Next]_vars
    => StockConserved'
<1> SUFFICES ASSUME TypeOK, TxnOK, HoldingsOK, StockConserved, [Next]_vars
             PROVE  StockConserved'
  OBVIOUS
<1>1. CASE UNCHANGED <<stock, deducted>>
  BY <1>1 DEF StockConserved, Taken
<1>2. ASSUME NEW r \in Reqs, DbInsert(r) \/ DbCommit(r)
      PROVE  UNCHANGED <<stock, deducted>>
  BY <1>2 DEF DbInsert, DbCommit
<1> QED
  BY <1>1, <1>2, TableSteps, UndoConserves, UpdateConserves

LEMMA OneOrderStep ==
  OneOrderPerUser /\ [Next]_vars => OneOrderPerUser'
<1> SUFFICES ASSUME OneOrderPerUser, [Next]_vars PROVE OneOrderPerUser'
  OBVIOUS
<1> USE DEF OneOrderPerUser, Pair
<1>1. CASE orders' \subseteq orders
  BY <1>1
<1>2. ASSUME NEW r \in Reqs, DbInsert(r) PROVE OneOrderPerUser'
  BY <1>2 DEF DbInsert, IsDuplicate
<1>3. ASSUME NEW r \in Reqs, DbUpdate(r) \/ DbCommit(r) \/ Undo(r)
      PROVE  orders' \subseteq orders
  BY <1>3 DEF DbUpdate, DbCommit, Undo
<1> QED
  BY <1>1, <1>2, <1>3, TableSteps

-----------------------------------------------------------------------------
(* Answers *)

\* A committed order stays: no step undoes it or moves its transaction on.
LEMMA CommittedStays ==
  ASSUME TypeOK, TxnOK, [Next]_vars, NEW q \in Reqs,
         q \in orders, txn[q] = "committed"
  PROVE  q \in orders' /\ txn'[q] = "committed"
<1> USE DEF TypeOK
<1>1. ASSUME NEW r \in Reqs, DbUpdate(r) \/ DbInsert(r) \/ DbCommit(r)
      PROVE  q \in orders' /\ txn'[q] = "committed"
  BY <1>1 DEF DbUpdate, DbInsert, DbCommit
<1>2. ASSUME NEW r \in Reqs, txn[r] = "open", Undo(r)
      PROVE  q \in orders' /\ txn'[q] = "committed"
  BY <1>2 DEF Undo
<1>3. ASSUME NEW r \in Reqs, txn' = [txn EXCEPT ![r] = "open"],
             pc[r] = "opening", UNCHANGED orders
      PROVE  q \in orders' /\ txn'[q] = "committed"
  BY <1>3 DEF TxnOK, TxnAt
<1> QED
  BY <1>1, <1>2, <1>3, TableSteps

\* Committed orders never outnumber the units.
LEMMA SoldBound ==
  ASSUME TypeOK, HoldingsOK, StockConserved, NEW s \in Skus
  PROVE  /\ IsFiniteSet(Sold(s)) /\ Cardinality(Sold(s)) \in Nat
         /\ Cardinality(Sold(s)) <= InitStock[s]
<1>1. Sold(s) \subseteq Taken(s)
  BY DEF Sold, Taken, HoldingsOK, HoldingsAt, TypeOK
<1>2. /\ IsFiniteSet(Sold(s)) /\ Cardinality(Sold(s)) \in Nat
      /\ Cardinality(Sold(s)) <= Cardinality(Taken(s))
  BY <1>1, TakenFinite, FS_Subset, FS_CardinalityType
<1>3. stock[s] \in Nat /\ stock[s] + Cardinality(Taken(s)) = InitStock[s]
  BY DEF StockConserved
<1> QED
  BY <1>2, <1>3, TakenFinite

\* A sku that is sold out stays sold out.
LEMMA SoldOutStays ==
  ASSUME TypeOK, TxnOK, HoldingsOK, StockConserved, [Next]_vars,
         TypeOK', HoldingsOK', StockConserved',
         NEW s \in Skus, Cardinality(Sold(s)) = InitStock[s]
  PROVE  Cardinality(Sold(s)') = InitStock[s]
<1>1. Sold(s) \subseteq Sold(s)'
  BY CommittedStays DEF Sold, TypeOK
<1>2. /\ IsFiniteSet(Sold(s)') /\ Cardinality(Sold(s)') \in Nat
      /\ Cardinality(Sold(s)') <= InitStock[s]
  <2>1. (/\ IsFiniteSet(Sold(s)) /\ Cardinality(Sold(s)) \in Nat
         /\ Cardinality(Sold(s)) <= InitStock[s])'
    BY SoldBound, PTL
  <2> QED
    BY <2>1
<1>3. Cardinality(Sold(s)) <= Cardinality(Sold(s)')
  BY <1>1, <1>2, FS_Subset
<1> QED
  BY <1>2, <1>3, StockAssumption

\* An UPDATE that finds no stock finds every unit in a committed order: the
\* row lock was free, so no open transaction holds a unit of the sku.
LEMMA EmptyMeansSold ==
  ASSUME TypeOK, TxnOK, HoldingsOK, StockConserved, NEW r \in Reqs,
         RowFree(r), ~InStock(SkuOf[r])
  PROVE  Cardinality(Sold(SkuOf[r])) = InitStock[SkuOf[r]]
<1> DEFINE s == SkuOf[r]
<1>1. s \in Skus
  BY RequestsAssumption
<1>2. \A q \in Taken(s) : txn[q] = "committed" /\ q \in orders
  BY DEF Taken, TypeOK, TxnOK, TxnAt, HoldingsOK, HoldingsAt, RowFree
<1>3. \A q \in Sold(s) : q \in Taken(s)
  BY DEF Taken, Sold, TypeOK, HoldingsOK, HoldingsAt
<1>4. Sold(s) = Taken(s)
  BY <1>2, <1>3 DEF Taken, Sold
<1>5. stock[s] = 0 /\ stock[s] + Cardinality(Taken(s)) = InitStock[s]
  BY <1>1 DEF StockConserved, InStock
<1> QED
  BY <1>1, <1>4, <1>5, TakenFinite

\* Replying to a request that was told nothing yet.
LEMMA FirstReply ==
  ASSUME TypeOK, RepliesOK, NEW r \in Reqs, NEW code, Reply(r, code),
         pc[r] \in {"new", "opening", "updating", "inserting", "committing"}
  PROVE  /\ replies[r] = <<>>
         /\ replies' = [replies EXCEPT ![r] = <<code>>]
<1>1. replies[r] = <<>>
  BY DEF RepliesOK
<1>2. Append(<<>>, code) = <<code>>
  OBVIOUS
<1> QED
  BY <1>1, <1>2 DEF Reply, TypeOK

\* What a step can do to the answers: nothing, or give one request its first.
LEMMA ReplySteps ==
  ASSUME TypeOK, TxnOK, RepliesOK, [Next]_vars, NEW q \in Reqs
  PROVE  \/ replies'[q] = replies[q]
         \/ /\ replies[q] = <<>>
            /\ UNCHANGED <<txn, orders, commitSent>>
            /\ pc'[q] \in {"done", "rollingback", "releasing"}
            /\ \/ /\ replies'[q] = <<"DUPLICATE_ORDER">>
                  /\ q \notin commitSent
               \/ /\ replies'[q] = <<"SOLD_OUT">>
                  /\ pc[q] = "updating" /\ answer[q] = "0"
               \/ replies'[q] = <<"DB_ERROR">>
               \/ /\ replies'[q] = <<"OK">>
                  /\ q \in orders /\ txn[q] = "committed" /\ q \in invalidated'
<1> USE DEF TypeOK
<1>1. CASE Crash \/ UNCHANGED vars
  BY <1>1 DEF Crash, vars, server
<1>2. ASSUME NEW r \in Reqs, Database(r) PROVE replies' = replies
  BY <1>2 DEF Database, DbUpdate, DbInsert, DbCommit, DbError, DbRollback,
              DbAbort, server
<1>3. ASSUME NEW r \in Reqs, r # q, Callbacks(r) PROVE replies'[q] = replies[q]
  BY <1>3 DEF Callbacks, DoSeckill, OnTransaction, OnTransactionTimeout,
              OnUpdate, OnInsert, OnCommit, Release, Reply
<1>4. ASSUME Callbacks(q), replies'[q] # replies[q]
      PROVE  /\ replies[q] = <<>>
             /\ UNCHANGED <<txn, orders, commitSent>>
             /\ pc'[q] \in {"done", "rollingback", "releasing"}
             /\ \/ /\ replies'[q] = <<"DUPLICATE_ORDER">>
                   /\ q \notin commitSent
                \/ /\ replies'[q] = <<"SOLD_OUT">>
                   /\ pc[q] = "updating" /\ answer[q] = "0"
                \/ replies'[q] = <<"DB_ERROR">>
                \/ /\ replies'[q] = <<"OK">>
                   /\ q \in orders /\ txn[q] = "committed"
                   /\ q \in invalidated'
  <2>0. TxnAt(q)
    BY DEF TxnOK
  <2> USE DEF Goto
  <2>1. CASE DoSeckill(q)
    BY <1>4, <2>0, <2>1, FirstReply DEF DoSeckill, db, TxnAt
  <2>2. CASE OnTransactionTimeout(q)
    BY <1>4, <2>2, FirstReply DEF OnTransactionTimeout, db
  <2>3. CASE OnUpdate(q)
    BY <1>4, <2>3, FirstReply DEF OnUpdate, db
  <2>4. CASE OnInsert(q)
    BY <1>4, <2>0, <2>4, FirstReply DEF OnInsert, RollBack, TxnAt
  <2>5. CASE OnCommit(q)
    BY <1>4, <2>0, <2>5, FirstReply DEF OnCommit, db, TxnAt
  <2>6. CASE OnTransaction(q) \/ Release(q)
    BY <1>4, <2>6 DEF OnTransaction, Release
  <2> QED
    BY <1>4, <2>1, <2>2, <2>3, <2>4, <2>5, <2>6 DEF Callbacks
<1> QED
  BY <1>1, <1>2, <1>3, <1>4 DEF Next

\* No step takes a finished chain back to a place where it could reply.
LEMMA NoWayBack ==
  ASSUME TypeOK, [Next]_vars, NEW q \in Reqs,
         pc'[q] \in {"new", "opening", "updating", "inserting", "committing"}
  PROVE  pc[q] \in {"new", "opening", "updating", "inserting", "committing"}
<1> USE DEF TypeOK, Goto
<1>1. CASE Crash \/ UNCHANGED vars
  BY <1>1 DEF Crash, vars, server
<1>2. ASSUME NEW r \in Reqs, Callbacks(r)
      PROVE  pc[q] \in {"new", "opening", "updating", "inserting", "committing"}
  BY <1>2 DEF Callbacks, DoSeckill, OnTransaction, OnTransactionTimeout,
              OnUpdate, OnInsert, OnCommit, Release, AutoCommit, RollBack
<1>3. ASSUME NEW r \in Reqs, Database(r)
      PROVE  pc[q] \in {"new", "opening", "updating", "inserting", "committing"}
  BY <1>3 DEF Database, DbUpdate, DbInsert, DbCommit, DbError, DbRollback,
              DbAbort, server
<1> QED
  BY <1>1, <1>2, <1>3 DEF Next

\* An UPDATE that reports no row was executed by this step on an empty sku
\* under a free row lock, or had reported it before.
LEMMA EmptyAnswer ==
  ASSUME TypeOK, TxnOK, [Next]_vars, NEW q \in Reqs,
         pc'[q] = "updating", answer'[q] = "0"
  PROVE  \/ pc[q] = "updating" /\ answer[q] = "0"
         \/ /\ RowFree(q) /\ ~InStock(SkuOf[q])
            /\ UNCHANGED <<orders, txn>>
<1> USE DEF TypeOK, Goto
<1>0. TxnAt(q)
  BY DEF TxnOK
<1>1. CASE Crash \/ UNCHANGED vars
  BY <1>1 DEF Crash, vars, server
<1>2. ASSUME NEW r \in Reqs, Callbacks(r)
      PROVE  pc[q] = "updating" /\ answer[q] = "0"
  BY <1>0, <1>2 DEF Callbacks, DoSeckill, OnTransaction, OnTransactionTimeout,
       OnUpdate, OnInsert, OnCommit, Release, AutoCommit, RollBack, TxnAt
<1>3. ASSUME NEW r \in Reqs, Database(r)
      PROVE  \/ pc[q] = "updating" /\ answer[q] = "0"
             \/ /\ RowFree(q) /\ ~InStock(SkuOf[q])
                /\ UNCHANGED <<orders, txn>>
  BY <1>3 DEF Database, DbUpdate, DbInsert, DbCommit, DbError, DbRollback,
              DbAbort, server, Answer
<1> QED
  BY <1>1, <1>2, <1>3 DEF Next

LEMMA RepliesStep ==
  ASSUME IInv, [Next]_vars, TypeOK', HoldingsOK', StockConserved'
  PROVE  RepliesOK'
<1> SUFFICES ASSUME NEW q \in Reqs
    PROVE /\ pc'[q] \in {"new", "opening", "updating", "inserting", "committing"}
               => replies'[q] = <<>>
          /\ replies'[q] = <<>> \/ \E code \in Codes : replies'[q] = <<code>>
          /\ pc'[q] = "updating" /\ answer'[q] = "0" =>
               Cardinality(Sold(SkuOf[q])') = InitStock[SkuOf[q]]
  BY DEF RepliesOK, Sold
<1> USE DEF IInv
<1>1. pc'[q] \in {"new", "opening", "updating", "inserting", "committing"}
        => replies'[q] = <<>>
  BY NoWayBack, ReplySteps DEF RepliesOK
<1>2. replies'[q] = <<>> \/ \E code \in Codes : replies'[q] = <<code>>
  BY ReplySteps DEF RepliesOK, Codes
<1>3. ASSUME pc'[q] = "updating", answer'[q] = "0"
      PROVE  Cardinality(Sold(SkuOf[q])') = InitStock[SkuOf[q]]
  <2>0. SkuOf[q] \in Skus
    BY RequestsAssumption
  <2>1. CASE pc[q] = "updating" /\ answer[q] = "0"
    <3>1. Cardinality(Sold(SkuOf[q])) = InitStock[SkuOf[q]]
      BY <2>1 DEF RepliesOK
    <3> QED
      BY <2>0, <3>1, SoldOutStays
  <2>2. CASE /\ RowFree(q) /\ ~InStock(SkuOf[q])
             /\ UNCHANGED <<orders, txn>>
    <3>1. Sold(SkuOf[q])' = Sold(SkuOf[q])
      BY <2>2 DEF Sold
    <3> QED
      BY <2>2, <3>1, EmptyMeansSold
  <2> QED
    BY <1>3, <2>1, <2>2, EmptyAnswer
<1> QED
  BY <1>1, <1>2, <1>3

LEMMA SoldOutStep ==
  ASSUME IInv, [Next]_vars, TypeOK', HoldingsOK', StockConserved'
  PROVE  SoldOutIsHonest'
<1> SUFFICES ASSUME NEW q \in Reqs, replies'[q] = <<"SOLD_OUT">>
             PROVE  Cardinality(Sold(SkuOf[q])') = InitStock[SkuOf[q]]
  BY DEF SoldOutIsHonest, Sold
<1> USE DEF IInv
<1>0. SkuOf[q] \in Skus
  BY RequestsAssumption
<1>1. \/ replies[q] = <<"SOLD_OUT">>
      \/ pc[q] = "updating" /\ answer[q] = "0"
  BY ReplySteps
<1>2. Cardinality(Sold(SkuOf[q])) = InitStock[SkuOf[q]]
  BY <1>1 DEF SoldOutIsHonest, RepliesOK
<1> QED
  BY <1>0, <1>2, SoldOutStays

\* A request whose cache invalidation ran stays in that set, and enters it
\* with its order committed.
LEMMA InvalidatedSteps ==
  ASSUME TypeOK, TxnOK, [Next]_vars, NEW q \in Reqs
  PROVE  /\ q \in invalidated => q \in invalidated'
         /\ q \in invalidated' =>
              q \in invalidated \/ (q \in orders /\ txn[q] = "committed")
<1> USE DEF TypeOK
<1>1. CASE Crash \/ UNCHANGED vars
  BY <1>1 DEF Crash, vars, server
<1>2. ASSUME NEW r \in Reqs, Callbacks(r), ~OnCommit(r)
      PROVE  invalidated' = invalidated
  BY <1>2 DEF Callbacks, DoSeckill, OnTransaction, OnTransactionTimeout,
              OnUpdate, OnInsert, Release
<1>3. ASSUME NEW r \in Reqs, OnCommit(r)
      PROVE  \/ invalidated' = invalidated
             \/ /\ invalidated' = invalidated \cup {r}
                /\ r \in orders /\ txn[r] = "committed"
  BY <1>3 DEF OnCommit, TxnOK, TxnAt
<1>4. ASSUME NEW r \in Reqs, Database(r) PROVE invalidated' = invalidated
  BY <1>4 DEF Database, DbUpdate, DbInsert, DbCommit, DbError, DbRollback,
              DbAbort, server
<1> QED
  BY <1>1, <1>2, <1>3, <1>4 DEF Next

LEMMA OkStep == IInv /\ [Next]_vars => OkIsDurable'
<1> SUFFICES ASSUME IInv, [Next]_vars, NEW q \in Reqs, replies'[q] = <<"OK">>
             PROVE  q \in orders' /\ txn'[q] = "committed" /\ q \in invalidated'
  BY DEF OkIsDurable
<1> USE DEF IInv
<1>1. CASE replies[q] = <<"OK">>
  BY <1>1, CommittedStays, InvalidatedSteps DEF OkIsDurable
<1>2. CASE replies[q] # <<"OK">>
  <2>1. q \in orders /\ txn[q] = "committed" /\ q \in invalidated'
    BY <1>2, ReplySteps
  <2> QED
    BY <2>1, CommittedStays
<1> QED
  BY <1>1, <1>2

LEMMA InvalidationStep == IInv /\ [Next]_vars => InvalidationFollowsCommit'
<1> SUFFICES ASSUME IInv, [Next]_vars, NEW q \in Reqs, q \in invalidated'
             PROVE  q \in orders' /\ txn'[q] = "committed"
  BY TypeCorrectStep DEF InvalidationFollowsCommit, IInv, TypeOK
<1>1. q \in orders /\ txn[q] = "committed"
  BY InvalidatedSteps DEF IInv, InvalidationFollowsCommit
<1> QED
  BY <1>1, CommittedStays DEF IInv

\* Which requests a step can send to COMMIT, or commit.
LEMMA CommitSteps ==
  ASSUME TypeOK, TxnOK, [Next]_vars, NEW q \in Reqs
  PROVE  /\ q \in commitSent' => q \in commitSent \/ pc[q] = "inserting"
         /\ txn'[q] = "committed" => txn[q] = "committed" \/ q \in commitSent
<1> USE DEF TypeOK
<1>1. CASE Crash \/ UNCHANGED vars
  BY <1>1 DEF Crash, vars, db
<1>2. ASSUME NEW r \in Reqs, Callbacks(r)
      PROVE  /\ q \in commitSent' => q \in commitSent \/ pc[q] = "inserting"
             /\ txn'[q] = "committed" => txn[q] = "committed"
  BY <1>2 DEF Callbacks, DoSeckill, OnTransaction, OnTransactionTimeout,
              OnUpdate, OnInsert, OnCommit, Release, AutoCommit, RollBack, db
<1>3. ASSUME NEW r \in Reqs, Database(r)
      PROVE  /\ commitSent' = commitSent
             /\ txn'[q] = "committed" => txn[q] = "committed" \/ q \in commitSent
  BY <1>3 DEF Database, DbUpdate, DbInsert, DbCommit, DbError, DbRollback,
              DbAbort, Undo, db
<1> QED
  BY <1>1, <1>2, <1>3 DEF Next

LEMMA RefusedStep == IInv /\ [Next]_vars => RefusedNeverSold'
<1> DEFINE Refused(h) == \E i \in DOMAIN h : h[i] \in {"SOLD_OUT", "DUPLICATE_ORDER"}
<1> SUFFICES ASSUME IInv, [Next]_vars, NEW q \in Reqs, Refused(replies'[q])
             PROVE  /\ q \notin commitSent' /\ txn'[q] # "committed"
                    /\ Len(replies'[q]) = 1
  BY DEF RefusedNeverSold
<1> USE DEF IInv
<1>0. TxnAt(q)
  BY DEF TxnOK
<1>1. CASE replies'[q] = replies[q]
  <2>1. q \notin commitSent /\ txn[q] # "committed" /\ Len(replies[q]) = 1
    BY <1>1 DEF RefusedNeverSold
  <2>2. pc[q] # "inserting"
    BY <2>1 DEF RepliesOK
  <2> QED
    BY <1>1, <2>1, <2>2, CommitSteps
<1>2. CASE replies'[q] # replies[q]
  <2>1. replies'[q] \notin {<<"OK">>, <<"DB_ERROR">>}
    <3>1. ~Refused(<<"OK">>) /\ ~Refused(<<"DB_ERROR">>)
      OBVIOUS
    <3> QED
      BY <3>1
  <2>2. /\ q \notin commitSent /\ UNCHANGED <<txn, commitSent>>
        /\ replies'[q] \in {<<"SOLD_OUT">>, <<"DUPLICATE_ORDER">>}
    BY <1>0, <1>2, <2>1, ReplySteps DEF TxnAt
  <2>3. Len(<<"SOLD_OUT">>) = 1 /\ Len(<<"DUPLICATE_ORDER">>) = 1
    OBVIOUS
  <2> QED
    BY <1>0, <2>2, <2>3 DEF TxnAt
<1> QED
  BY <1>1, <1>2

-----------------------------------------------------------------------------
(* The gate *)

LEMMA TokensStep == TypeOK /\ TokensOK /\ [Next]_vars => TokensOK'
<1> SUFFICES ASSUME TypeOK, TokensOK, [Next]_vars
             PROVE  \A q \in Reqs :
                      q \in token' <=> Gated /\ pc'[q] \notin {"new", "done", "crashed"}
  BY TypeCorrectStep DEF TokensOK, TypeOK
<1> USE DEF TypeOK, TokensOK, Goto
<1>1. CASE Crash \/ UNCHANGED vars
  BY <1>1 DEF Crash, vars, server
<1>2. ASSUME NEW r \in Reqs, Callbacks(r), NEW q \in Reqs
      PROVE  q \in token' <=> Gated /\ pc'[q] \notin {"new", "done", "crashed"}
  BY <1>2 DEF Callbacks, DoSeckill, OnTransaction, OnTransactionTimeout,
              OnUpdate, OnInsert, OnCommit, Release, AutoCommit, RollBack
<1>3. ASSUME NEW r \in Reqs, Database(r), NEW q \in Reqs
      PROVE  q \in token' <=> Gated /\ pc'[q] \notin {"new", "done", "crashed"}
  BY <1>3 DEF Database, DbUpdate, DbInsert, DbCommit, DbError, DbRollback,
              DbAbort, server
<1> QED
  BY <1>1, <1>2, <1>3 DEF Next

\* Only tryAcquire marks a slot, only the token's death clears it.
LEMMA MarkedStep == TypeOK /\ TokensOK /\ MarkedIffHeld /\ [Next]_vars
                      => MarkedIffHeld'
<1> SUFFICES ASSUME TypeOK, TokensOK, MarkedIffHeld, [Next]_vars
             PROVE  MarkedIffHeld'
  OBVIOUS
<1> USE DEF TypeOK, MarkedIffHeld
<1>1. CASE UNCHANGED <<token, marked>> \/ Crash
  BY <1>1 DEF Crash
<1>2. ASSUME NEW r \in Reqs, DoSeckill(r) PROVE MarkedIffHeld'
  <2>1. CASE Gated /\ ~IsMarked(r) /\ token' = token \cup {r}
             /\ marked' = marked \cup {Slot(r)}
    BY <2>1 DEF IsMarked
  <2> QED
    BY <1>2, <2>1 DEF DoSeckill
<1>3. ASSUME NEW r \in Reqs, Release(r) PROVE MarkedIffHeld'
  BY <1>3 DEF Release
<1>4. ASSUME NEW r \in Reqs, Callbacks(r), ~DoSeckill(r), ~Release(r)
      PROVE  UNCHANGED <<token, marked>>
  BY <1>4 DEF Callbacks, OnTransaction, OnTransactionTimeout, OnUpdate,
              OnInsert, OnCommit
<1>5. ASSUME NEW r \in Reqs, Database(r) PROVE UNCHANGED <<token, marked>>
  BY <1>5 DEF Database, DbUpdate, DbInsert, DbCommit, DbError, DbRollback,
              DbAbort, server
<1> QED
  BY <1>1, <1>2, <1>3, <1>4, <1>5 DEF Next, vars, server

-----------------------------------------------------------------------------
(* The inductive invariant and the theorems *)

LEMMA InitInv == Init => IInv
<1> SUFFICES ASSUME Init PROVE IInv
  OBVIOUS
<1> USE DEF Init
<1>1. TypeOK
  BY RequestsAssumption, StockAssumption
  DEF TypeOK, Places, Answers, TxnStates
<1>2. TxnOK /\ HoldingsOK
  BY DEF TxnOK, TxnAt, HoldingsOK, HoldingsAt
<1>3. StockConserved
  <2>1. \A s \in Skus : Taken(s) = {}
    BY DEF Taken
  <2> QED
    BY <2>1, FS_EmptySet, StockAssumption DEF StockConserved
<1>4. /\ OneOrderPerUser /\ RepliesOK /\ SoldOutIsHonest /\ OkIsDurable
      /\ RefusedNeverSold /\ InvalidationFollowsCommit
  BY DEF OneOrderPerUser, RepliesOK, SoldOutIsHonest, OkIsDurable,
         RefusedNeverSold, InvalidationFollowsCommit
<1>5. TokensOK /\ MarkedIffHeld
  BY DEF TokensOK, MarkedIffHeld
<1> QED
  BY <1>1, <1>2, <1>3, <1>4, <1>5 DEF IInv

LEMMA InvStep == IInv /\ [Next]_vars => IInv'
<1> SUFFICES ASSUME IInv, [Next]_vars PROVE IInv'
  OBVIOUS
<1>1. TypeOK' /\ TxnOK' /\ HoldingsOK' /\ StockConserved' /\ OneOrderPerUser'
  BY TypeCorrectStep, TxnStep, HoldingsStep, StockStep, OneOrderStep DEF IInv
<1>2. RepliesOK' /\ SoldOutIsHonest'
  BY <1>1, RepliesStep, SoldOutStep
<1>3. OkIsDurable' /\ InvalidationFollowsCommit' /\ RefusedNeverSold'
  BY OkStep, InvalidationStep, RefusedStep
<1>4. TokensOK' /\ MarkedIffHeld'
  BY TokensStep, MarkedStep DEF IInv
<1> QED
  BY <1>1, <1>2, <1>3, <1>4 DEF IInv

\* Every reachable state satisfies the inductive invariant: the conjuncts are
\* the transaction protocol, the lock discipline, the conservation of units
\* and the honesty of the answers.
THEOREM Invariant == Spec => []IInv
BY InitInv, InvStep, PTL DEF Spec

\* No sku sells more committed orders than it had units and its stock never
\* goes negative, for any number of clients, units and connections.
THEOREM NeverOversold == Spec => []NoOversell
<1>1. IInv => NoOversell
  BY SoldBound DEF IInv, NoOversell, StockConserved
<1> QED
  BY <1>1, Invariant, PTL

\* When no transaction on a sku is open, stock and order rows add up to the
\* initial stock, whatever failed before.
THEOREM StockMatchesOrders == Spec => []SoldEqualsOrders
<1>1. IInv => SoldEqualsOrders
  <2> SUFFICES ASSUME IInv, NEW s \in Skus,
                      \A r \in Reqs : SkuOf[r] = s => txn[r] # "open"
               PROVE  stock[s] + Cardinality({r \in orders : SkuOf[r] = s})
                        = InitStock[s]
    BY DEF SoldEqualsOrders
  <2>1. {r \in orders : SkuOf[r] = s} = Taken(s)
    <3>1. \A r \in orders : r \in deducted
      BY DEF IInv, TypeOK, HoldingsOK, HoldingsAt
    <3>2. \A r \in deducted : SkuOf[r] = s => r \in orders
      BY DEF IInv, TypeOK, TxnOK, TxnAt, HoldingsOK, HoldingsAt
    <3> QED
      BY <3>1, <3>2 DEF Taken
  <2> QED
    BY <2>1 DEF IInv, StockConserved
<1> QED
  BY <1>1, Invariant, PTL

\* Two order rows are never for the same user and sku.
THEOREM OneOrderEach == Spec => []OneOrderPerUser
<1>1. IInv => OneOrderPerUser
  BY DEF IInv
<1> QED
  BY <1>1, Invariant, PTL

\* A caller that hears SOLD_OUT is told the truth for good.
THEOREM SoldOutHonest == Spec => []SoldOutIsHonest
<1>1. IInv => SoldOutIsHonest
  BY DEF IInv
<1> QED
  BY <1>1, Invariant, PTL

\* A caller that hears OK owns a committed order, and the cached copies of
\* the stock were invalidated first.
THEOREM OkDurable == Spec => []OkIsDurable
<1>1. IInv => OkIsDurable
  BY DEF IInv
<1> QED
  BY <1>1, Invariant, PTL

\* The cache is invalidated for an order after its COMMIT, never before it.
THEOREM InvalidationCommitted == Spec => []InvalidationFollowsCommit
<1>1. IInv => InvalidationFollowsCommit
  BY DEF IInv
<1> QED
  BY <1>1, Invariant, PTL

\* A request that was refused is never committed, then or later.
THEOREM RefusedStaysUnsold == Spec => []RefusedNeverSold
<1>1. IInv => RefusedNeverSold
  BY DEF IInv
<1> QED
  BY <1>1, Invariant, PTL

\* Of one user's requests for one sku, at most one is past the gate: whatever
\* the slots collide on, equal pairs share one.
THEOREM GateShields == Spec => []GateShieldsDatabase
<1>1. IInv => GateShieldsDatabase
  BY DEF IInv, GateShieldsDatabase, TokensOK, MarkedIffHeld, Slot
<1> QED
  BY <1>1, Invariant, PTL

-----------------------------------------------------------------------------
(* DUPLICATE_ORDER without a gate *)

\* Another request's committed order stays.
LEMMA OrderedStays ==
  ASSUME TypeOK, TxnOK, [Next]_vars, NEW r \in Reqs, Ordered(r)
  PROVE  Ordered(r)'
<1>1. PICK q \in orders : q # r /\ Pair(q) = Pair(r) /\ txn[q] = "committed"
  BY DEF Ordered
<1>2. q \in orders' /\ txn'[q] = "committed"
  BY <1>1, CommittedStays DEF TypeOK
<1> QED
  BY <1>1, <1>2 DEF Ordered, Pair

\* The row the INSERT runs into is committed: a transaction that could still
\* undo it would hold the row lock this one holds.
LEMMA DuplicateIsCommitted ==
  ASSUME IInv, DuplicateOK, NEW r \in Reqs,
         pc[r] = "inserting", answer[r] = "none", IsDuplicate(r)
  PROVE  Ordered(r)
<1>1. PICK q \in orders : Pair(q) = Pair(r)
  BY DEF IsDuplicate
<1>2. q \in Reqs /\ q # r /\ SkuOf[q] = SkuOf[r]
  BY <1>1 DEF IInv, TypeOK, DuplicateOK, Pair
<1>3. txn[r] = "open" /\ r \in deducted /\ r \in locked
  BY DEF IInv, TxnOK, TxnAt, HoldingsOK, HoldingsAt
<1>4. txn[q] # "open"
  BY <1>2, <1>3 DEF IInv, HoldingsOK, HoldingsAt
<1>5. txn[q] = "committed"
  BY <1>1, <1>2, <1>4 DEF IInv, HoldingsOK, HoldingsAt
<1> QED
  BY <1>1, <1>2, <1>5 DEF Ordered

\* How a chain comes to its INSERT and to the answer of it.
LEMMA InsertSteps ==
  ASSUME TypeOK, TxnOK, [Next]_vars, NEW q \in Reqs
  PROVE  /\ pc'[q] \in {"new", "opening", "updating"} =>
              pc[q] \in {"new", "opening", "updating"}
         /\ pc'[q] = "inserting" /\ answer'[q] = "none" =>
              \/ pc[q] = "updating"
              \/ pc[q] = "inserting" /\ answer[q] = "none" /\ ~DbInsert(q)
         /\ pc'[q] = "inserting" /\ answer'[q] = "0" =>
              \/ pc[q] = "inserting" /\ answer[q] = "0"
              \/ pc[q] = "inserting" /\ answer[q] = "none" /\ IsDuplicate(q)
<1> USE DEF TypeOK, Goto, Answer
<1>0. TxnAt(q)
  BY DEF TxnOK
<1> DEFINE Goal ==
      /\ pc'[q] \in {"new", "opening", "updating"} =>
           pc[q] \in {"new", "opening", "updating"}
      /\ pc'[q] = "inserting" /\ answer'[q] = "none" =>
           \/ pc[q] = "updating"
           \/ pc[q] = "inserting" /\ answer[q] = "none" /\ ~DbInsert(q)
      /\ pc'[q] = "inserting" /\ answer'[q] = "0" =>
           \/ pc[q] = "inserting" /\ answer[q] = "0"
           \/ pc[q] = "inserting" /\ answer[q] = "none" /\ IsDuplicate(q)
<1>1. CASE Crash
  BY <1>1 DEF Crash
<1>2. CASE UNCHANGED vars
  BY <1>2 DEF vars, server, DbInsert
<1>3. ASSUME NEW r \in Reqs, Callbacks(r) PROVE Goal
  BY <1>0, <1>3 DEF Callbacks, DoSeckill, OnTransaction, OnTransactionTimeout,
       OnUpdate, OnInsert, OnCommit, Release, AutoCommit, RollBack, DbInsert, TxnAt
<1>4. ASSUME NEW r \in Reqs, Database(r) PROVE Goal
  BY <1>0, <1>4 DEF Database, DbUpdate, DbInsert, DbCommit, DbError, DbRollback,
       DbAbort, server, TxnAt
<1> QED
  BY <1>1, <1>2, <1>3, <1>4 DEF Next

\* A row appears by its INSERT only.
LEMMA RowSteps ==
  ASSUME [Next]_vars, NEW q \in Reqs, q \in orders'
  PROVE  q \in orders \/ DbInsert(q)
<1>1. ASSUME NEW r \in Reqs, DbUpdate(r) \/ DbInsert(r) \/ DbCommit(r)
      PROVE  q \in orders \/ DbInsert(q)
  BY <1>1 DEF DbUpdate, DbInsert, DbCommit
<1>2. ASSUME NEW r \in Reqs, Undo(r) PROVE q \in orders
  BY <1>2 DEF Undo
<1> QED
  BY <1>1, <1>2, TableSteps

LEMMA DuplicateOKStep ==
  ASSUME IInv, DuplicateOK, [Next]_vars
  PROVE  DuplicateOK'
<1> SUFFICES ASSUME NEW q \in Reqs
    PROVE /\ pc'[q] \in {"new", "opening", "updating"} => q \notin orders'
          /\ pc'[q] = "inserting" /\ answer'[q] = "none" => q \notin orders'
          /\ pc'[q] = "inserting" /\ answer'[q] = "0" => Ordered(q)'
  BY DEF DuplicateOK
<1>0. TypeOK /\ TxnOK
  BY DEF IInv
<1>1. ASSUME pc'[q] \in {"new", "opening", "updating"} PROVE q \notin orders'
  BY <1>0, <1>1, InsertSteps, RowSteps DEF DuplicateOK, DbInsert
<1>2. ASSUME pc'[q] = "inserting", answer'[q] = "none" PROVE q \notin orders'
  BY <1>0, <1>2, InsertSteps, RowSteps DEF DuplicateOK, DbInsert
<1>3. ASSUME pc'[q] = "inserting", answer'[q] = "0" PROVE Ordered(q)'
  <2>1. Ordered(q)
    BY <1>0, <1>3, InsertSteps, DuplicateIsCommitted DEF DuplicateOK
  <2> QED
    BY <1>0, <2>1, OrderedStays
<1> QED
  BY <1>1, <1>2, <1>3

\* Without a gate only the callback of the INSERT says DUPLICATE_ORDER.
LEMMA DuplicateReply ==
  ASSUME ~Gated, TypeOK, RepliesOK, [Next]_vars, NEW q \in Reqs,
         replies'[q] = <<"DUPLICATE_ORDER">>
  PROVE  \/ replies[q] = <<"DUPLICATE_ORDER">>
         \/ pc[q] = "inserting" /\ answer[q] = "0"
<1> USE DEF TypeOK
<1>1. CASE Crash \/ UNCHANGED vars
  BY <1>1 DEF Crash, vars, server
<1>2. ASSUME NEW r \in Reqs, Database(r) PROVE replies' = replies
  BY <1>2 DEF Database, DbUpdate, DbInsert, DbCommit, DbError, DbRollback,
              DbAbort, server
<1>3. ASSUME NEW r \in Reqs, r # q, Callbacks(r) PROVE replies'[q] = replies[q]
  BY <1>3 DEF Callbacks, DoSeckill, OnTransaction, OnTransactionTimeout,
              OnUpdate, OnInsert, OnCommit, Release, Reply
<1>4. ASSUME Callbacks(q), ~(pc[q] = "inserting" /\ answer[q] = "0")
      PROVE  replies[q] = <<"DUPLICATE_ORDER">>
  <2>1. ASSUME NEW code, Reply(q, code),
               pc[q] \in {"new", "opening", "updating", "inserting", "committing"}
        PROVE  code = "DUPLICATE_ORDER"
    BY <2>1, FirstReply
  <2>2. CASE replies' = replies
    BY <2>2
  <2>3. CASE OnTransactionTimeout(q)
    BY <2>1, <2>3 DEF OnTransactionTimeout
  <2>4. CASE OnUpdate(q)
    BY <2>1, <2>2, <2>4 DEF OnUpdate
  <2>5. CASE OnInsert(q)
    BY <1>4, <2>1, <2>2, <2>5 DEF OnInsert
  <2>6. CASE OnCommit(q)
    BY <2>1, <2>6 DEF OnCommit
  <2> QED
    BY <1>4, <2>2, <2>3, <2>4, <2>5, <2>6
    DEF Callbacks, DoSeckill, OnTransaction, Release
<1> QED
  BY <1>1, <1>2, <1>3, <1>4 DEF Next

\* Without a gate a caller that hears DUPLICATE_ORDER is told so while another
\* request of its user has a committed order of the sku, which stays.  (With
\* a gate the refusal comes before any order and means less: see the README.)
THEOREM DuplicateHonest ==
  ASSUME ~Gated
  PROVE  Spec => []DuplicateIsHonest
<1> DEFINE DInv == IInv /\ DuplicateOK /\ DuplicateIsHonest
<1>1. Init => DInv
  <2>1. ASSUME Init PROVE DuplicateOK /\ DuplicateIsHonest
    BY <2>1 DEF Init, DuplicateOK, DuplicateIsHonest
  <2> QED
    BY <2>1, InitInv
<1>2. DInv /\ [Next]_vars => DInv'
  <2> SUFFICES ASSUME DInv, [Next]_vars PROVE DInv'
    OBVIOUS
  <2>1. IInv' /\ DuplicateOK'
    BY InvStep, DuplicateOKStep
  <2>2. ASSUME NEW q \in Reqs, replies'[q] = <<"DUPLICATE_ORDER">>
        PROVE  Ordered(q)'
    <3>1. TypeOK /\ TxnOK /\ RepliesOK
      BY DEF IInv
    <3>2. Ordered(q)
      BY <2>2, <3>1, DuplicateReply DEF DuplicateOK, DuplicateIsHonest
    <3> QED
      BY <3>1, <3>2, OrderedStays
  <2> QED
    BY <2>1, <2>2 DEF DuplicateIsHonest
<1>3. DInv => DuplicateIsHonest
  OBVIOUS
<1> QED
  BY <1>1, <1>2, <1>3, PTL DEF Spec

-----------------------------------------------------------------------------
(* The order path implements the sale *)

\* One step changes the answers of at most one request.
LEMMA OneReply ==
  ASSUME TypeOK, [Next]_vars
  PROVE  \/ replies' = replies
         \/ \E r \in Reqs : replies' = [replies EXCEPT ![r] = replies'[r]]
<1>1. CASE Crash \/ UNCHANGED vars
  BY <1>1 DEF Crash, vars, server
<1>2. ASSUME NEW r \in Reqs, Database(r) PROVE replies' = replies
  BY <1>2 DEF Database, DbUpdate, DbInsert, DbCommit, DbError, DbRollback,
              DbAbort, server
<1>3. ASSUME NEW r \in Reqs, NEW code, Reply(r, code)
      PROVE  replies' = [replies EXCEPT ![r] = replies'[r]]
  BY <1>3 DEF Reply, TypeOK
<1>4. ASSUME NEW r \in Reqs, Callbacks(r)
      PROVE  \/ replies' = replies
             \/ replies' = [replies EXCEPT ![r] = replies'[r]]
  BY <1>3, <1>4 DEF Callbacks, DoSeckill, OnTransaction, OnTransactionTimeout,
                    OnUpdate, OnInsert, OnCommit, Release
<1> QED
  BY <1>1, <1>2, <1>4 DEF Next

\* A unit is sold when its transaction commits, and only then.
LEMMA SoldSteps ==
  ASSUME TypeOK, TxnOK, [Next]_vars
  PROVE  \/ \E r \in Reqs : DbCommit(r)
         \/ {r \in Reqs : txn'[r] = "committed"} = {r \in Reqs : txn[r] = "committed"}
<1> USE DEF TypeOK
<1>1. ASSUME NEW r \in Reqs,
             \/ DbUpdate(r) \/ DbInsert(r)
             \/ txn[r] = "open" /\ Undo(r)
             \/ txn' = [txn EXCEPT ![r] = "open"] /\ pc[r] = "opening"
      PROVE  \A q \in Reqs : txn'[q] = "committed" <=> txn[q] = "committed"
  <2>1. txn[r] = "none" \/ pc[r] # "opening"
    BY DEF TxnOK, TxnAt
  <2> QED
    BY <1>1, <2>1 DEF DbUpdate, DbInsert, Undo
<1> QED
  BY <1>1, TableSteps

\* FlashSale counts with its own instance of FiniteSets.
LEMMA SameCardinality == \A S : Sale!Cardinality(S) = Cardinality(S)
BY DEF Sale!Cardinality, Cardinality, Sale!IsFiniteSet, IsFiniteSet

LEMMA InvBoundsSold ==
  IInv' => (\A s \in Skus : Cardinality(Sold(s)) <= InitStock[s])'
<1>1. IInv => \A s \in Skus : Cardinality(Sold(s)) <= InitStock[s]
  BY SoldBound DEF IInv
<1> QED
  BY <1>1, PTL

LEMMA CommitSells ==
  ASSUME IInv, IInv', [Next]_vars, NEW r \in Reqs, DbCommit(r)
  PROVE  Sale!Sell(r)
<1> DEFINE committed == {q \in Reqs : txn[q] = "committed"}
<1> USE DEF IInv
<1>0. /\ txn[r] = "open" /\ r \in commitSent /\ r \in orders
      /\ txn' = [txn EXCEPT ![r] = "committed"]
      /\ UNCHANGED <<replies, orders>>
  BY DEF DbCommit, TxnOK, TxnAt
<1>1. committed' = committed \cup {r} /\ r \notin committed
  BY <1>0 DEF TypeOK
<1>2. replies[r] \in {<<>>, <<"DB_ERROR">>}
  <2>1. replies[r] # <<"OK">>
    BY <1>0 DEF OkIsDurable
  <2>2. replies[r] # <<"SOLD_OUT">> /\ replies[r] # <<"DUPLICATE_ORDER">>
    <3> DEFINE Refused(h) == \E i \in DOMAIN h : h[i] \in {"SOLD_OUT", "DUPLICATE_ORDER"}
    <3>1. Refused(<<"SOLD_OUT">>) /\ Refused(<<"DUPLICATE_ORDER">>)
      OBVIOUS
    <3>2. ~Refused(replies[r])
      BY <1>0 DEF RefusedNeverSold
    <3> QED
      BY <3>1, <3>2
  <2> QED
    BY <2>1, <2>2 DEF RepliesOK, Codes
<1>3. \A q \in committed : UserOf[q] = UserOf[r] => SkuOf[q] # SkuOf[r]
  <2> SUFFICES ASSUME NEW q \in committed, UserOf[q] = UserOf[r], SkuOf[q] = SkuOf[r]
               PROVE  FALSE
    OBVIOUS
  <2>1. q \in orders /\ Pair(q) = Pair(r)
    BY DEF TxnOK, TxnAt, Pair
  <2> QED
    BY <1>0, <2>1 DEF OneOrderPerUser
<1>4. Sale!UnitsSold(SkuOf[r]) < InitStock[SkuOf[r]]
  <2> DEFINE s == SkuOf[r]
  <2>0. s \in Skus
    BY RequestsAssumption
  <2>1. {q \in committed : SkuOf[q] = s} = Sold(s)
    BY DEF Sold, TxnOK, TxnAt, TypeOK
  <2>2. Sold(s)' = Sold(s) \cup {r} /\ r \notin Sold(s)
    BY <1>0 DEF Sold, TypeOK
  <2>3. Cardinality(Sold(s)') = Cardinality(Sold(s)) + 1
    BY <2>0, <2>2, SoldBound, FS_AddElement
  <2>4. Cardinality(Sold(s)') <= InitStock[s]
    BY <2>0, InvBoundsSold
  <2>5. Cardinality(Sold(s)) < InitStock[s]
    BY <2>0, <2>3, <2>4, SoldBound, StockAssumption
  <2> QED
    BY <2>1, <2>5, SameCardinality DEF Sale!UnitsSold
<1> QED
  BY <1>0, <1>1, <1>2, <1>3, <1>4 DEF Sale!Sell

LEMMA AnswerTells ==
  ASSUME IInv, [Next]_vars, NEW r \in Reqs, replies'[r] # replies[r],
         replies' = [replies EXCEPT ![r] = replies'[r]],
         {q \in Reqs : txn'[q] = "committed"} = {q \in Reqs : txn[q] = "committed"}
  PROVE  \E code \in Sale!Codes : Sale!Tell(r, code)
<1> USE DEF IInv
<1>0. TxnAt(r)
  BY DEF TxnOK
<1>1. replies[r] = <<>>
  BY ReplySteps
<1>2. PICK code \in Codes : replies'[r] = <<code>>
  BY ReplySteps DEF Codes
<1>3. code = "OK" => r \in {q \in Reqs : txn[q] = "committed"}
  BY <1>2, ReplySteps
<1>4. code \in {"SOLD_OUT", "DUPLICATE_ORDER"} =>
        r \notin {q \in Reqs : txn[q] = "committed"}
  BY <1>0, <1>2, ReplySteps DEF TxnAt
<1>5. code = "SOLD_OUT" => Sale!UnitsSold(SkuOf[r]) = InitStock[SkuOf[r]]
  <2> SUFFICES ASSUME code = "SOLD_OUT"
               PROVE  Sale!UnitsSold(SkuOf[r]) = InitStock[SkuOf[r]]
    OBVIOUS
  <2>1. pc[r] = "updating" /\ answer[r] = "0"
    BY <1>2, ReplySteps
  <2>2. Cardinality(Sold(SkuOf[r])) = InitStock[SkuOf[r]]
    BY <2>1 DEF RepliesOK
  <2>3. {q \in {p \in Reqs : txn[p] = "committed"} : SkuOf[q] = SkuOf[r]}
          = Sold(SkuOf[r])
    BY DEF Sold, TxnOK, TxnAt, TypeOK
  <2> QED
    BY <2>2, <2>3, SameCardinality DEF Sale!UnitsSold
<1>6. Sale!Tell(r, code)
  BY <1>1, <1>2, <1>3, <1>4, <1>5 DEF Sale!Tell
<1> QED
  BY <1>6 DEF Codes, Sale!Codes

\* The order path implements the sale: a unit is sold by the step that
\* commits its transaction, an answer is told by the step that calls the
\* HTTP callback, and every other step changes neither.
THEOREM OrderImplementsSale == Spec => ImplementsFlashSale
<1> DEFINE committed == {r \in Reqs : txn[r] = "committed"}
<1>1. Init => Sale!Init
  BY DEF Init, Sale!Init
<1>2. IInv /\ IInv' /\ [Next]_vars => [Sale!Next]_<<committed, replies>>
  <2> SUFFICES ASSUME IInv, IInv', [Next]_vars
               PROVE  Sale!Next \/ UNCHANGED <<committed, replies>>
    OBVIOUS
  <2>1. CASE \E r \in Reqs : DbCommit(r)
    BY <2>1, CommitSells DEF Sale!Next
  <2>2. CASE committed' = committed
    <3>1. CASE replies' = replies
      BY <2>2, <3>1
    <3>2. ASSUME NEW r \in Reqs, replies' = [replies EXCEPT ![r] = replies'[r]],
                 replies' # replies
          PROVE  Sale!Next
      <4>1. replies'[r] # replies[r]
        BY <3>2 DEF IInv, TypeOK
      <4> QED
        BY <2>2, <3>2, <4>1, AnswerTells DEF Sale!Next
    <3> QED
      BY <3>1, <3>2, OneReply DEF IInv
  <2> QED
    BY <2>1, <2>2, SoldSteps DEF IInv
<1> QED
  BY <1>1, <1>2, Invariant, PTL DEF Spec, ImplementsFlashSale, Sale!Spec

-----------------------------------------------------------------------------
(* The order path uses the gate as the gate promises *)

LEMMA TransactionStep ==
  ASSUME TypeOK, RepliesOK, TransactionOK, [Next]_vars
  PROVE  TransactionOK'
<1> SUFFICES ASSUME NEW r \in Reqs, txn'[r] = "none"
    PROVE  /\ pc'[r] \in {"new", "opening", "releasing", "done", "crashed"}
           /\ pc'[r] = "releasing" => replies'[r] = <<"DB_ERROR">>
  BY DEF TransactionOK
<1> USE DEF TypeOK, TransactionOK, Goto
<1>1. CASE Crash \/ UNCHANGED vars
  BY <1>1 DEF Crash, vars, server, db
<1>2. ASSUME NEW q \in Reqs, Database(q)
      PROVE  txn[r] = "none" /\ pc'[r] = pc[r] /\ replies' = replies
  BY <1>2 DEF Database, DbUpdate, DbInsert, DbCommit, DbError, DbRollback,
              DbAbort, Undo, server, db
<1>3. ASSUME NEW q \in Reqs, q # r, Callbacks(q)
      PROVE  txn[r] = "none" /\ pc'[r] = pc[r] /\ replies'[r] = replies[r]
  BY <1>3 DEF Callbacks, DoSeckill, OnTransaction, OnTransactionTimeout,
              OnUpdate, OnInsert, OnCommit, Release, AutoCommit, RollBack, Reply, db
<1>4. CASE OnTransactionTimeout(r)
  BY <1>4, FirstReply DEF OnTransactionTimeout
<1>5. CASE Callbacks(r) /\ ~OnTransactionTimeout(r)
  BY <1>5 DEF Callbacks, DoSeckill, OnTransaction,
              OnUpdate, OnInsert, OnCommit, Release, db
<1> QED
  BY <1>1, <1>2, <1>3, <1>4, <1>5 DEF Next

\* The transaction is there from the UPDATE on.
LEMMA TransactionInvariant == Spec => []TransactionOK
<1>1. Init => TransactionOK
  BY DEF Init, TransactionOK
<1>2. IInv /\ TransactionOK /\ [Next]_vars => TransactionOK'
  BY TransactionStep DEF IInv
<1> QED
  BY <1>1, <1>2, Invariant, PTL DEF Spec

\* What the gate sees of a request whose callbacks do not move.
LEMMA VerdictStays ==
  ASSUME NEW q \in Reqs, pc'[q] = pc[q],
         pc[q] = "done" => replies'[q] = replies[q] /\ (txn'[q] = "none" <=> txn[q] = "none")
  PROVE  Verdict(q)' = Verdict(q)
BY DEF Verdict, RefusedAtGate

\* A step of the callbacks of r moves nobody else.
LEMMA OthersStay ==
  ASSUME TypeOK, NEW r \in Reqs, Callbacks(r), NEW q \in Reqs, q # r
  PROVE  pc'[q] = pc[q] /\ Verdict(q)' = Verdict(q)
<1>1. pc'[q] = pc[q] /\ replies'[q] = replies[q] /\ txn'[q] = txn[q]
  BY DEF Callbacks, DoSeckill, OnTransaction, OnTransactionTimeout,
         OnUpdate, OnInsert, OnCommit, Release, AutoCommit, RollBack, Reply, db,
         Goto, TypeOK
<1> QED
  BY <1>1, VerdictStays

\* With the guard on, the slots taken are those of the requests inside.
LEMMA MarkedMeansTaken ==
  ASSUME Gated, TokensOK, MarkedIffHeld, NEW r \in Reqs
  PROVE  IsMarked(r) <=> G!Taken(r)
<1>1. token = Inside
  BY DEF TokensOK, Inside
<1> QED
  BY <1>1 DEF IsMarked, MarkedIffHeld, G!Taken, SlotsSeen, Inside

LEMMA DoSeckillRefines ==
  ASSUME IInv, TransactionOK, NEW r \in Reqs, DoSeckill(r)
  PROVE  G!Acquire(r) \/ G!Refuse(r)
<1> USE DEF IInv, TypeOK, Goto
<1>0. /\ pc[r] = "new" /\ r \notin Inside /\ Verdicts[r] = "none" /\ txn[r] = "none"
      /\ txn' = txn
  BY DEF DoSeckill, Inside, Verdicts, Verdict, RefusedAtGate, TxnOK, TxnAt, db
<1>1. \A q \in Reqs \ {r} : pc'[q] = pc[q] /\ Verdict(q)' = Verdict(q)
  BY OthersStay DEF Callbacks
<1>2. CASE pc' = [pc EXCEPT ![r] = "opening"] /\ (Gated => ~IsMarked(r))
  <2>1. Verdict(r)' = "valid" /\ Inside' = Inside \cup {r}
    BY <1>2 DEF Verdict, RefusedAtGate, Inside
  <2>2. Verdicts' = [Verdicts EXCEPT ![r] = "valid"]
    BY <1>1, <2>1 DEF Verdicts
  <2>3. ~G!Taken(r)
    <3>1. CASE Gated
      BY <1>2, <3>1, MarkedMeansTaken
    <3>2. CASE ~Gated
      BY <1>0, <3>2 DEF G!Taken, SlotsSeen, Inside
    <3> QED
      BY <3>1, <3>2
  <2> QED
    BY <1>0, <2>1, <2>2, <2>3 DEF G!Acquire, SlotsSeen
<1>3. CASE Gated /\ IsMarked(r) /\ pc' = [pc EXCEPT ![r] = "done"]
           /\ Reply(r, "DUPLICATE_ORDER")
  <2>1. replies'[r] = <<"DUPLICATE_ORDER">>
    BY <1>0, <1>3, FirstReply
  <2>2. Verdict(r)' = "empty" /\ Inside' = Inside
    BY <1>0, <1>3, <2>1 DEF Verdict, RefusedAtGate, Inside
  <2>3. Verdicts' = [Verdicts EXCEPT ![r] = "empty"]
    BY <1>1, <2>2 DEF Verdicts
  <2>4. G!Taken(r)
    BY <1>3, MarkedMeansTaken
  <2> QED
    BY <1>0, <2>2, <2>3, <2>4 DEF G!Refuse, SlotsSeen
<1> QED
  BY <1>2, <1>3 DEF DoSeckill

LEMMA ReleaseRefines ==
  ASSUME IInv, TransactionOK, NEW r \in Reqs, Release(r)
  PROVE  G!Release(r)
<1> USE DEF IInv, TypeOK, Goto
<1>1. r \in Inside /\ Inside' = Inside \ {r}
  BY DEF Release, Inside
<1>2. \A q \in Reqs \ {r} : Verdict(q)' = Verdict(q)
  BY OthersStay DEF Callbacks
<1>3. ~RefusedAtGate(r) /\ ~RefusedAtGate(r)'
  <2>1. txn[r] = "none" => replies[r] = <<"DB_ERROR">>
    BY DEF Release, TransactionOK
  <2>2. <<"DB_ERROR">> # <<"DUPLICATE_ORDER">>
    BY <<"DB_ERROR">>[1] # <<"DUPLICATE_ORDER">>[1]
  <2> QED
    BY <2>1, <2>2 DEF Release, RefusedAtGate, db
<1>4. Verdict(r)' = Verdict(r)
  BY <1>3 DEF Release, Verdict
<1> QED
  BY <1>1, <1>2, <1>4 DEF G!Release, SlotsSeen, Verdicts

\* The callbacks in between keep the mark and the verdict.
LEMMA PassingRefines ==
  ASSUME IInv, TransactionOK, NEW r \in Reqs,
         Callbacks(r), ~DoSeckill(r), ~Release(r)
  PROVE  UNCHANGED <<SlotsSeen, Verdicts, Inside>>
<1> USE DEF IInv, TypeOK, Goto
<1>1. \A q \in Reqs \ {r} : pc'[q] = pc[q] /\ Verdict(q)' = Verdict(q)
  BY OthersStay
<1>2. pc[r] \notin {"new", "done", "crashed"} /\ pc'[r] \notin {"new", "done", "crashed"}
  BY DEF Callbacks, OnTransaction, OnTransactionTimeout,
         OnUpdate, OnInsert, OnCommit, AutoCommit, RollBack
<1>3. Verdict(r)' = Verdict(r)
  BY <1>2 DEF Verdict, RefusedAtGate
<1> QED
  BY <1>1, <1>2, <1>3 DEF SlotsSeen, Verdicts, Inside

\* What the database does is nothing to the gate.
LEMMA DatabaseRefines ==
  ASSUME IInv, TransactionOK, NEW r \in Reqs, Database(r)
  PROVE  UNCHANGED <<SlotsSeen, Verdicts, Inside>>
<1> USE DEF IInv, TypeOK, Goto
<1>1. replies' = replies /\ \A q \in Reqs : txn'[q] = "none" <=> txn[q] = "none"
  BY DEF Database, DbUpdate, DbInsert, DbCommit, DbError, DbRollback,
         DbAbort, Undo, server, db
<1>2. CASE pc' = pc
  BY <1>1, <1>2, VerdictStays DEF SlotsSeen, Verdicts, Inside
<1>3. CASE DbRollback(r)
  <2>1. pc[r] = "rollingback" /\ pc' = [pc EXCEPT ![r] = "releasing"]
    BY <1>3 DEF DbRollback
  <2>2. \A q \in Reqs : Verdict(q)' = Verdict(q)
    BY <1>1, <2>1 DEF Verdict, RefusedAtGate
  <2> QED
    BY <2>1, <2>2 DEF SlotsSeen, Verdicts, Inside
<1> QED
  BY <1>2, <1>3 DEF Database, DbUpdate, DbInsert, DbCommit, DbError, DbAbort, server

LEMMA CrashRefines ==
  ASSUME IInv, Crash
  PROVE  G!Restart
<1> USE DEF IInv, TypeOK
<1>1. Inside' = {}
  BY DEF Crash, Inside
<1>2. \A q \in Reqs : Verdict(q)' = Verdict(q)
  BY DEF Crash, Verdict, RefusedAtGate, db
<1> QED
  BY <1>1, <1>2 DEF G!Restart, SlotsSeen, Verdicts

\* doSeckill is one use of the gate per request, from tryAcquire to the end of
\* its callback chain: whatever the database answers, however late, and
\* whenever the process dies, no other request of the slot is let in meanwhile
\* and none is refused without one (SeckillService.cc 58-83).
THEOREM OrderUsesGate == Spec => UsesGate
<1>1. Init => G!Init
  BY DEF Init, G!Init, Verdicts, Verdict, RefusedAtGate, Inside
<1>2. IInv /\ TransactionOK /\ [Next]_vars =>
        [G!Next \/ G!Restart]_<<SlotsSeen, Verdicts, Inside>>
  <2> SUFFICES ASSUME IInv, TransactionOK, [Next]_vars
      PROVE  \/ G!Next \/ G!Restart
             \/ UNCHANGED <<SlotsSeen, Verdicts, Inside>>
    OBVIOUS
  <2>1. CASE UNCHANGED vars
    BY <2>1 DEF SlotsSeen, Verdicts, Verdict, RefusedAtGate, Inside, vars, server, db
  <2>2. CASE Crash
    BY <2>2, CrashRefines
  <2>3. ASSUME NEW r \in Reqs, Callbacks(r)
        PROVE  G!Next \/ UNCHANGED <<SlotsSeen, Verdicts, Inside>>
    BY <2>3, DoSeckillRefines, ReleaseRefines, PassingRefines DEF G!Next
  <2>4. ASSUME NEW r \in Reqs, Database(r)
        PROVE  UNCHANGED <<SlotsSeen, Verdicts, Inside>>
    BY <2>4, DatabaseRefines
  <2> QED
    BY <2>1, <2>2, <2>3, <2>4 DEF Next
<1> QED
  BY <1>1, <1>2, Invariant, TransactionInvariant, PTL
  DEF Spec, UsesGate, G!RestartingSpec
=============================================================================
