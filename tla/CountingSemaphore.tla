------------------------- MODULE CountingSemaphore -------------------------
(***************************************************************************)
(* What a counting semaphore promises its callers: at most Capacity of     *)
(* them hold a unit, a caller that waits gets one in the end.  The ticket  *)
(* semaphore of abi/semaphore.h is shown to implement this module.         *)
(***************************************************************************)
EXTENDS Integers, FiniteSets

CONSTANTS Threads, Capacity

VARIABLES waiting, holding

absVars == <<waiting, holding>>

Init == waiting = {} /\ holding = {}

Wait(p) ==
  /\ p \notin waiting \cup holding
  /\ waiting' = waiting \cup {p}
  /\ UNCHANGED holding

Room == Cardinality(holding) < Capacity

Grant(p) ==
  /\ p \in waiting
  /\ Room
  /\ waiting' = waiting \ {p}
  /\ holding' = holding \cup {p}

GrantNow(p) ==
  /\ p \notin waiting \cup holding
  /\ Room
  /\ holding' = holding \cup {p}
  /\ UNCHANGED waiting

Release(p) ==
  /\ p \in holding
  /\ holding' = holding \ {p}
  /\ UNCHANGED waiting

Next == \E p \in Threads : Wait(p) \/ Grant(p) \/ GrantNow(p) \/ Release(p)

\* Strong fairness: room comes and goes while others take and return units.
Spec == Init /\ [][Next]_absVars /\ \A p \in Threads : SF_absVars(Grant(p))
=============================================================================
