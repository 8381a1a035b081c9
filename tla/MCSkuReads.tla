----------------------------- MODULE MCSkuReads -----------------------------
(***************************************************************************)
(* SkuReads with one sku on sale, with another one added later, with       *)
(* detail and list reads, a warm-up, Bloom rebuilds and one or two orders. *)
(***************************************************************************)
EXTENDS SkuReads, TLC

CONSTANTS detail, late, late2, list, warm, rebuild, rebuild2, o1, o2

MCKind ==
  [r \in Reqs |-> CASE r \in {detail, late, late2}  -> "detail"
                   [] r = list                     -> "list"
                   [] r = warm                     -> "warm"
                   [] r \in {rebuild, rebuild2}    -> "rebuild"]
MCWants == [r \in Reqs |-> IF r \in {late, late2} THEN Cardinality(Skus) ELSE 1]
MCBuys == [o \in Orders |-> 1]
\* Positions 50, 2 and 12 for sku 1, with an overflow on the way, and 68, 69
\* and 0, with a stride of 0 mended and a wrap at Bits = 70, for sku 2.
MCHash1 == [s \in Skus |-> IF s = 1 THEN 120 ELSE 68]
MCHash2 == [s \in Skus |-> IF s = 1 THEN 10 ELSE 0]

\* The two requests for the late sku are alike, and so are the two rebuilds.
Alike == Permutations({late, late2}) \cup Permutations({rebuild, rebuild2})
=============================================================================
