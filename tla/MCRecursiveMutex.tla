-------------------------- MODULE MCRecursiveMutex --------------------------
(* Three interchangeable threads and a counter of four values, which holds *)
(* three nested locks.                                                     *)
EXTENDS RecursiveMutex, TLC

ASSUME MutexSemaphore == V = 1  \* impl_{ 1 }

Symmetry == Permutations(Threads)
=============================================================================
