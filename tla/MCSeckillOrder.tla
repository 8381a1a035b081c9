--------------------------- MODULE MCSeckillOrder ---------------------------
(***************************************************************************)
(* SeckillOrder on a sale of one sku: r1 and r2 come from the user u, r3   *)
(* and r4 each from a user of its own (named like the request).  A user    *)
(* has a slot of the gate of its own.                                      *)
(***************************************************************************)
EXTENDS SeckillOrder, TLC

CONSTANTS r1, r2, r3, r4, u, s, Units

MCUserOf == [r \in Reqs |-> IF r \in {r1, r2} THEN u ELSE r]
MCSkuOf == [r \in Reqs |-> s]
MCStock == [t \in Skus |-> Units]
MCSlotOf == [p \in Users \X Skus |-> p[1]]

\* r1 and r2 are interchangeable, and r3 and r4 with their users.
MCSymmetry == Permutations({r1, r2}) \cup Permutations({r3, r4})
=============================================================================
