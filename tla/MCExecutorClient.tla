--------------------------- MODULE MCExecutorClient ---------------------------
(* Up to MaxCalls calls with every failure of the page, the channels and the   *)
(* worker.  CHECK_DEADLOCK is off: a session ends when its calls are used up.  *)
EXTENDS ExecutorClient
===============================================================================
