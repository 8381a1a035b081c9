--------------------------- MODULE MCDelayDeleter ----------------------------
(***************************************************************************)
(* Model values for DelayDeleter: three invalidations.                     *)
(***************************************************************************)
EXTENDS DelayDeleter, TLC

CONSTANTS t1, t2, t3

MCTasks == {t1, t2, t3}
=============================================================================
