------------------------------ MODULE FlashSale ------------------------------
(***************************************************************************)
(* What the order path promises, with no server, database or cache in      *)
(* sight (docs/PLAN.md 15-19): a request is sold one unit or told no, a    *)
(* sku never sells more units than it has, a user owns at most one unit of *)
(* a sku, and every caller hears one answer, an honest one.                *)
(***************************************************************************)
EXTENDS Integers, Sequences, FiniteSets

CONSTANTS
  Reqs,      \* order requests, each one call of POST /api/seckill
  Users, Skus,
  UserOf,    \* [Reqs -> Users]: who sent the request
  SkuOf,     \* [Reqs -> Skus]: what it asks for
  InitStock  \* [Skus -> Nat]: units of each sku when the sale opens

VARIABLES
  sold,      \* the requests that own a unit
  told       \* [Reqs -> Seq(Codes)]: the answers a request was given

Codes == {"OK", "SOLD_OUT", "DUPLICATE_ORDER", "DB_ERROR"}

UnitsSold(s) == Cardinality({r \in sold : SkuOf[r] = s})

Init ==
  /\ sold = {}
  /\ told = [r \in Reqs |-> <<>>]

\* A unit goes to r.  A request that was refused is never sold a unit
\* later; one that was told DB_ERROR may have been (a lost commit answer).
Sell(r) ==
  /\ r \notin sold
  /\ told[r] \in {<<>>, <<"DB_ERROR">>}
  /\ \A q \in sold : UserOf[q] = UserOf[r] => SkuOf[q] # SkuOf[r]
  /\ UnitsSold(SkuOf[r]) < InitStock[SkuOf[r]]
  /\ sold' = sold \cup {r}
  /\ UNCHANGED told

\* The one answer of r: OK only for a unit it owns, a refusal only when it
\* owns none, SOLD_OUT only when every unit is gone for good.
Tell(r, code) ==
  /\ told[r] = <<>>
  /\ code = "OK" => r \in sold
  /\ code \in {"SOLD_OUT", "DUPLICATE_ORDER"} => r \notin sold
  /\ code = "SOLD_OUT" => UnitsSold(SkuOf[r]) = InitStock[SkuOf[r]]
  /\ told' = [told EXCEPT ![r] = <<code>>]
  /\ UNCHANGED sold

Next == \E r \in Reqs : Sell(r) \/ \E code \in Codes : Tell(r, code)

Spec == Init /\ [][Next]_<<sold, told>>
=============================================================================
