-------------------------- MODULE MCEmergencySlots --------------------------
(* Interchangeable threads over a handful of slots.                        *)
EXTENDS EmergencySlots, TLC

Symmetry == Permutations(Threads)
=============================================================================
