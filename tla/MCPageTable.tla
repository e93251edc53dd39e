----------------------------- MODULE MCPageTable -----------------------------
(* Two entries per table instead of 4, 512 and 512: eight virtual pages.  The  *)
(* rights are those that vmmap maps with, and those that page reduces to; the *)
(* empty set is the one that reduce_permission answers UNMAPPED to.           *)
EXTENDS PageTable

\* Two ranges, neither on a page boundary at both ends, the loader in the last
\* page of the second: frames 1 to 4.
MCPhysmem == {<<1, 7>>, <<8, 18>>}

MCMapPerms    == {{"R"}, {"R", "W"}}
MCReducePerms == {{"R", "X"}, {}}
=============================================================================
