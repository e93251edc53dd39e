---------------------------- MODULE AddressSpace ----------------------------
(***************************************************************************)
(* What a page map promises its users: each virtual page translates to the *)
(* page last mapped there, with the rights last given there.  A call that  *)
(* unmaps a range takes its pages one after the other, those and no        *)
(* others, and returns when none of them is left.                          *)
(***************************************************************************)
EXTENDS Integers

CONSTANTS
  VPages,   \* virtual pages
  Pages,    \* physical pages to map
  MapRights, ReduceRights,  \* sets of rights that callers map with, and reduce to
  Implied,  \* rights that come with every mapping
  Nothing   \* no mapping

VARIABLES
  space,  \* by virtual page: [page |-> _, rights |-> _], or Nothing
  going   \* the range of the unmap call under way, {} when there is none

Grant(rights) == rights \cup Implied

Init == space = [v \in VPages |-> Nothing] /\ going = {}

\* The mapping of v, and no other, becomes new.
Put(v, new) == space' = [space EXCEPT ![v] = new]

Map(v, p, r) ==
  /\ going = {} /\ UNCHANGED going
  /\ Put(v, [page |-> p, rights |-> Grant(r)])

\* v keeps of its rights those in r, or its mapping goes when it keeps none.
Reduce(v, r) ==
  LET left == r \cap space[v].rights
  IN  /\ going = {} /\ UNCHANGED going
      /\ space[v] # Nothing
      /\ Put(v, IF left = {} THEN Nothing ELSE [page |-> space[v].page, rights |-> Grant(left)])

\* A call that unmaps n pages from v on.
UnmapBegin(v, n) ==
  /\ going = {} /\ v + n - 1 \in VPages
  /\ going' = v .. v + n - 1
  /\ UNCHANGED space

UnmapPage(v) ==
  /\ v \in going /\ UNCHANGED going
  /\ Put(v, Nothing)

UnmapEnd ==
  /\ \A v \in going : space[v] = Nothing
  /\ going' = {} /\ UNCHANGED space

Destroy == going = {} /\ UNCHANGED going /\ space' = [v \in VPages |-> Nothing]

Next ==
  \/ \E v \in VPages, p \in Pages, r \in MapRights : Map(v, p, r)
  \/ \E v \in VPages, r \in ReduceRights : Reduce(v, r)
  \/ \E v, n \in VPages : UnmapBegin(v, n + 1)
  \/ \E v \in VPages : UnmapPage(v)
  \/ UnmapEnd
  \/ Destroy

Spec == Init /\ [][Next]_<<space, going>>
=============================================================================
