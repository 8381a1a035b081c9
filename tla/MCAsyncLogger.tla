--------------------------- MODULE MCAsyncLogger ----------------------------
(***************************************************************************)
(* Model values for AsyncLogger.                                           *)
(***************************************************************************)
EXTENDS AsyncLogger

CONSTANTS t1, t2

MCThreads == {t1, t2}
=============================================================================
