------------------------------ MODULE MCMutex ------------------------------
(* Three interchangeable threads: an owner, the second thread that the     *)
(* semaphore lets in, and one that waits or tries.                         *)
EXTENDS Mutex, TLC

Symmetry == Permutations(Threads)
=============================================================================
