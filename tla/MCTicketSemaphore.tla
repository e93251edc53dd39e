------------------------- MODULE MCTicketSemaphore -------------------------
(* Three threads on a word of sixteen values: both counters wrap every     *)
(* sixteen tickets, so that every behaviour that is long enough crosses    *)
(* the wrap.  V = 0, the constructor's default: the one unit the semaphore *)
(* then has leaves two threads to queue for it and to try to overtake.     *)
(* MCMutex checks the same semaphore with V = 1.                           *)
EXTENDS TicketSemaphore
=============================================================================
