------------------------------ MODULE MCAtExit ------------------------------
(* Two threads that register and exit.                                     *)
EXTENDS AtExit

CONSTANT MaxRegistered  \* bound: handlers and destructors of a behaviour

Registered ==
  Len(accepted) + Cardinality({p \in Threads : push[p] # NoPush})
    + Len(dsoOf) + Cardinality({p \in Threads : call[p].does = "add"})

\* Behaviours are followed to where two threads meet in a lock: the properties
\* say nothing of what comes after.
Bounded == Registered <= MaxRegistered /\ ~ met /\ ~ clash
=============================================================================
