------------------------ MODULE MCSharedPtrOwnership ------------------------
(* Pointer objects are interchangeable.                                    *)
EXTENDS SharedPtrOwnership, TLC

Symmetry == Permutations(Pointers)
=============================================================================
