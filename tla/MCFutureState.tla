--------------------------- MODULE MCFutureState ---------------------------
(* Three threads: enough for a writer and two waiters, for two writers and *)
(* a waiter, and for three copies of a shared_future.                      *)
EXTENDS FutureState
=============================================================================
