---------------------------- MODULE MCGlobalHeap ----------------------------
(* Scaled down from amd64, where memory_alloc_space is 56 and alignof      *)
(* (max_align_t) 16: a header takes 6 bytes, headers are aligned to 2, and *)
(* the space behind the header of a fresh arena is not aligned to 4.       *)
EXTENDS GlobalHeap, TLC

MCArenas == {<<16, 32>>, <<48, 16>>}
Symmetry == Permutations(Threads)
=============================================================================
