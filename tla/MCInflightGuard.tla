-------------------------- MODULE MCInflightGuard --------------------------
(***************************************************************************)
(* Four calls: two for one key, one whose key collides with it in the      *)
(* bitmap and shares its shard, and one of another shard.                  *)
(***************************************************************************)
EXTENDS InflightGuard, TLC

CONSTANTS r1, r2, r3, r4

MCReqs == {r1, r2, r3, r4}
MCKey == r1 :> 1 @@ r2 :> 1 @@ r3 :> 9 @@ r4 :> 2
=============================================================================
