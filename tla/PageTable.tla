------------------------------ MODULE PageTable ------------------------------
(***************************************************************************)
(* pmap/src/pmap_i386.cc: the three-level page tables (PAE) of an address  *)
(* space, over loader/include/loader/page.h, the allocator that the tables *)
(* themselves are taken from; it is the pmap that the loader runs on.      *)
(*                                                                         *)
(* pdpe_ is the array in the pmap; its entries refer to pdp tables, whose  *)
(* entries refer to pte tables, whose entries refer to the pages mapped.   *)
(* Large pages are left out: no operation of this code creates one (only   *)
(* break_large_page_ writes an entry with ps set, from one that has it).   *)
(* So are the cache and global bits, which are passed through, and the     *)
(* AVL bits: PT_ALL_FLAGS leaves them out, so avl() is always false and no *)
(* table is ever critical.  Nothing in the code locks, and the caller is   *)
(* taken to let one call in at a time; the processor is not held off, so   *)
(* unmap and reduce_permission, which read the flags of an entry and store *)
(* it later, take a step for each.                                         *)
(*                                                                         *)
(* The allocator is filled by the loader's main() before the first map.    *)
(***************************************************************************)
EXTENDS Integers, FiniteSets, FiniteSetsExt

CONSTANTS
  NPdpe, NPdp, NPte,  \* entries of a table at each level: 4, 512, 512
  PageSize,  \* bytes of a page
  Physmem,   \* memory that the firmware reports: <<address, length>>
  Base, Limit,             \* addresses between which the allocator works
  KernelStart, KernelEnd,  \* where the loader is
  PageNos,   \* page numbers that have a pmap_page
  MapPages,  \* page numbers that callers map
  MapAt,     \* virtual pages that callers map
  TouchAt,   \* those that the processor reads and writes
  MapPerms, ReducePerms,  \* rights that callers name
  MaxUnmap,  \* most pages in one call of unmap; its callers in the tree ask for 1
  HasNX,     \* whether the processor has the NX bit
  Nothing

ASSUME MemoryAssumption ==
  /\ PageSize \in Nat \ {0} /\ Physmem \subseteq Nat \X Nat /\ IsFiniteSet(Physmem)
  /\ {Base, Limit, KernelStart, KernelEnd} \subseteq Nat
  /\ \A r, s \in Physmem : r = s \/ r[1] + r[2] <= s[1] \/ s[1] + s[2] <= r[1]

\* round_page_up, round_page_down, as page numbers
PageUp(addr)   == (addr + PageSize - 1) \div PageSize
PageDown(addr) == addr \div PageSize

\* setup_page_allocator(), add_range(): the whole pages of a range that lie
\* between base and limit.
RangePages(r) ==
  (PageUp(r[1]) .. PageDown(r[1] + r[2]) - 1) \cap (PageUp(Base) .. PageDown(Limit) - 1)

\* punch_loader(), mark_in_use(): every page with a byte of the loader; none
\* of them is ever given back.
LoaderPages == PageDown(KernelStart) .. PageUp(KernelEnd) - 1

\* Page numbers that the allocator can give.
Frames == UNION {RangePages(r) : r \in Physmem} \ LoaderPages

ASSUME TableAssumption ==
  /\ NPdpe \in Nat \ {0} /\ NPdp \in Nat \ {0} /\ NPte \in Nat \ {0}
  /\ MapPages \subseteq PageNos /\ PageNos \subseteq Nat
  /\ MapPerms \subseteq (SUBSET {"R", "W", "X"}) \ {{}}
  /\ ReducePerms \subseteq SUBSET {"R", "W", "X"}
  /\ HasNX \in BOOLEAN

VPages == 0 .. NPdpe * NPdp * NPte - 1

ASSUME MapAtAssumption == MapAt \subseteq VPages /\ TouchAt \subseteq MapAt
ASSUME NothingAssumption == Nothing \notin [page : MapPages, rights : SUBSET {"R", "W", "X"}]

VARIABLES
  pdpe_,   \* the top table
  tables,  \* by frame: the table in it, << >> when it holds none
  free_,   \* frames that the allocator has
  marks,   \* by page: accessed ("A") and dirty ("D") as its pmap_page has it
  call     \* the call of unmap or reduce_permission under way

vars == <<pdpe_, tables, free_, marks, call>>

\* No call is under way.  Otherwise op is where it stands: "unmap" between two
\* pages, "clear" and "reduce" between reading the entry of page at and storing
\* it.  An unmap of the pages of range still has those of todo to come to; a
\* reduce leaves the rights left, and ad is its update_ad.  seen is the flags of
\* the entry when it was read.
Idle == [op |-> "idle", range |-> {}, todo |-> {}, at |-> 0, seen |-> {}, left |-> {}, ad |-> TRUE]

----------------------------------------------------------------------------
(* x86_shared-inl.h: records and flags. *)

Absent == [p |-> FALSE, addr |-> 0, fl |-> {}]
Create(addr, fl) == [p |-> TRUE, addr |-> addr, fl |-> fl]

\* flags::apply: the flags that perm sets.  The code goes on from flags(), the
\* empty flags, and not from the flags of the record, which are lost.
Apply(perm, leaf) ==
  (IF HasNX /\ leaf /\ "X" \notin perm THEN {"NX"} ELSE {})
    \cup (IF "W" \in perm THEN {"RW"} ELSE {})

CombineLeaf(e, perm) == IF perm = {} THEN Absent ELSE Create(e.addr, Apply(perm, TRUE))

\* The entry of a pdp that refers to a pte table; a pdpe has no such flags.
CombineTable(e, perm) == Create(e.addr, Apply(perm, FALSE))

GetPermission(fl) ==
  {"R"} \cup (IF "RW" \in fl THEN {"W"} ELSE {}) \cup (IF "NX" \in fl THEN {} ELSE {"X"})

----------------------------------------------------------------------------
(* Walking the tables. *)

PdpeOff(v) == v \div (NPdp * NPte)
PdpOff(v)  == (v \div NPte) % NPdp
PteOff(v)  == v % NPte

EmptyTable(n) == [i \in 0 .. n - 1 |-> Absent]
IsEmpty(t)    == \A i \in DOMAIN t : ~t[i].p

Pdpe(v)   == pdpe_[PdpeOff(v)]
HasPte(v) == Pdpe(v).p /\ tables[Pdpe(v).addr][PdpOff(v)].p
Pdp(v)    == tables[Pdpe(v).addr][PdpOff(v)]
Pte(v)    == tables[Pdp(v).addr][PteOff(v)]

\* virt_to_page: where v is mapped; efault otherwise.
Mapped(v) == HasPte(v) /\ Pte(v).p

----------------------------------------------------------------------------
(* Marks of the pages. *)

\* Pages from .. from + n - 1 are accessed and dirty as fl says.
\* Mutant of Credited: starts at the page behind.
CreditedPast(mk, from, fl, n) ==
  [q \in PageNos |-> IF q \in from + 1 .. from + n THEN mk[q] \cup (fl \cap {"A", "D"}) ELSE mk[q]]
Credited(mk, from, fl, n) ==
  [q \in PageNos |-> IF q \in from .. from + n - 1 THEN mk[q] \cup (fl \cap {"A", "D"}) ELSE mk[q]]

\* deregister_from_pg_, for every page mapped in vs.
Deregistered(vs) ==
  [q \in PageNos |-> marks[q] \cup
     UNION {Pte(v).fl \cap {"A", "D"} : v \in {w \in vs : Pte(w).addr = q}}]

Init ==
  /\ pdpe_ = EmptyTable(NPdpe)
  /\ tables = [f \in Frames |-> << >>]
  /\ free_ = Frames
  /\ marks = [q \in PageNos |-> {}]
  /\ call = Idle

----------------------------------------------------------------------------
(* Operations. *)

\* map(va, pg, perm).  Tables that are missing come from the allocator, which
\* gives its highest free frame first.
MissingTables(v) == IF ~Pdpe(v).p THEN 2 ELSE IF ~HasPte(v) THEN 1 ELSE 0

Map(v, pg, perm) ==
  LET pdp  == IF Pdpe(v).p THEN Pdpe(v).addr ELSE Max(free_)
      left == free_ \ {pdp}
      pte  == IF HasPte(v) THEN Pdp(v).addr ELSE Max(left)
      pdpTable == IF Pdpe(v).p THEN tables[pdp] ELSE EmptyTable(NPdp)
      pteTable == IF HasPte(v) THEN tables[pte] ELSE EmptyTable(NPte)
  IN  /\ call = Idle
      /\ Cardinality(free_) >= MissingTables(v)
      /\ pdpe_' = [pdpe_ EXCEPT ![PdpeOff(v)] = Create(pdp, {})]
      /\ tables' = [tables EXCEPT
           ![pdp] = [pdpTable EXCEPT ![PdpOff(v)] = CombineTable(Create(pte, {}), perm)],
           ![pte] = [pteTable EXCEPT ![PteOff(v)] = CombineLeaf(Create(pg, {}), perm)]]
      /\ free_' = left \ {pte}
      /\ UNCHANGED <<marks, call>>

\* allocate_page throws bad_alloc: the frame that map may have taken before
\* is given back by its page_ptr, and nothing has been linked.
\* Mutant of MapFails: the frame taken before the failure is not given back.
MapFailsLeaks(v) ==
  /\ call = Idle
  /\ Cardinality(free_) < MissingTables(v)
  /\ free_' = IF free_ = {} THEN {} ELSE free_ \ {Max(free_)}
  /\ UNCHANGED <<pdpe_, tables, marks, call>>
MapFails(v) ==
  /\ call = Idle
  /\ Cardinality(free_) < MissingTables(v)
  /\ UNCHANGED vars

\* The entries of the mapped pages in gone are cleared, and maybe_gc gives back
\* each table that this leaves without an entry.
ClearEntries(gone) ==
  LET At(f, k)  == \E v \in gone : Pdp(v).addr = f /\ PteOff(v) = k
      wiped     == [f \in Frames |-> [k \in DOMAIN tables[f] |->
                      IF At(f, k) THEN Absent ELSE tables[f][k]]]
      deadPte   == {f \in {Pdp(v).addr : v \in gone} : IsEmpty(wiped[f])}
      pdps      == {Pdpe(v).addr : v \in gone}
      unlinked  == [f \in Frames |-> IF f \notin pdps THEN wiped[f] ELSE
                      [j \in DOMAIN tables[f] |->
                        IF tables[f][j].p /\ tables[f][j].addr \in deadPte
                          THEN Absent ELSE tables[f][j]]]
      deadPdp   == {f \in {Pdpe(v).addr : v \in {w \in gone : Pdp(w).addr \in deadPte}} :
                      IsEmpty(unlinked[f])}
      dead      == deadPte \cup deadPdp
  IN  /\ pdpe_' = [i \in DOMAIN pdpe_ |->
                     IF pdpe_[i].p /\ pdpe_[i].addr \in deadPdp THEN Absent ELSE pdpe_[i]]
      /\ tables' = [f \in Frames |-> IF f \in dead THEN << >> ELSE unlinked[f]]
      /\ free_' = free_ \cup dead

\* unmap_(va, c) goes through the pte tables from that of va on, all the tables
\* of the space numbered in a row.  Skip is what it takes off c at table t: its
\* pages from the offset of va on (pte_off is not reset for later tables), or,
\* coming to a directory that is absent, the pages of all directories left.
Skip(v, t) ==
  IF pdpe_[t \div NPdp].p THEN NPte - PteOff(v)
  ELSE IF t = v \div NPte \/ t % NPdp = 0 THEN NPte * NPdp * (NPdpe - PdpeOff(v))
  ELSE 0

\* The mapped pages that unmap_(va, c) comes to before c is used up.
\* Mutant of Visited: the count is tested after the page.
VisitedOneMore(v, c) ==
  {w \in VPages : Mapped(w) /\ w >= v /\ w <= v + c}
Visited(v, c) ==
  LET first == v \div NPte
      left[t \in first .. NPdpe * NPdp - 1] ==
        IF t = first THEN c
        ELSE IF left[t - 1] > Skip(v, t - 1) THEN left[t - 1] - Skip(v, t - 1) ELSE 0
  IN  {w \in VPages : /\ Mapped(w)
                      /\ w \div NPte >= first
                      /\ PteOff(w) \in PteOff(v) .. PteOff(v) + left[w \div NPte] - 1}

\* unmap(va, npg), for pages that one pte table maps.  (The code takes other
\* ranges too, but then the count goes wrong, see Skip: some of the pages stay
\* and others go.  No caller in the tree asks for more than one page.)
InOneTable(v, n) == PteOff(v) + n <= NPte

UnmapBegin(v, n) ==
  /\ call = Idle
  /\ v + n - 1 \in VPages /\ InOneTable(v, n)
  /\ call' = [Idle EXCEPT !.op = "unmap", !.range = v .. v + n - 1, !.todo = Visited(v, n)]
  /\ UNCHANGED <<pdpe_, tables, free_, marks>>

\* The flags of the next page mapped go to its page ...
UnmapRead ==
  /\ call.op = "unmap"
  /\ \E w \in call.todo :
       /\ \A x \in call.todo : w <= x
       /\ marks' = Deregistered({w})
       /\ call' = [call EXCEPT !.op = "clear", !.at = w, !.seen = Pte(w).fl \cap {"A", "D"}]
  /\ UNCHANGED <<pdpe_, tables, free_>>

\* ... and then its entry is cleared, as it may be by now.
UnmapClear ==
  /\ call.op = "clear"
  /\ ClearEntries({call.at})
  /\ call' = [call EXCEPT !.op = "unmap", !.todo = @ \ {call.at}, !.at = 0, !.seen = {}]
  /\ UNCHANGED marks

UnmapReturns ==
  /\ call.op = "unmap"
  /\ call.todo = {}
  /\ call' = Idle
  /\ UNCHANGED <<pdpe_, tables, free_, marks>>

\* reduce_permission(va, perm, update_ad).  The marks go to NPte pages from the
\* one mapped on.
\* Mutant of ReduceRead: takes perm as it is, whatever the entry allowed.
ReduceReadGrants(v, perm, ad) ==
  /\ call = Idle
  /\ Mapped(v)
  /\ marks' = IF ad \/ perm = {} THEN Credited(marks, Pte(v).addr, Pte(v).fl, NPte) ELSE marks
  /\ call' = [Idle EXCEPT !.op = "reduce", !.at = v, !.seen = Pte(v).fl \cap {"A", "D"},
                          !.left = perm, !.ad = ad]
  /\ UNCHANGED <<pdpe_, tables, free_>>
ReduceRead(v, perm, ad) ==
  LET left == perm \cap GetPermission(Pte(v).fl)
  IN  /\ call = Idle
      /\ Mapped(v)
      /\ marks' = IF ad \/ left = {} THEN Credited(marks, Pte(v).addr, Pte(v).fl, NPte) ELSE marks
      /\ call' = [Idle EXCEPT !.op = "reduce", !.at = v, !.seen = Pte(v).fl \cap {"A", "D"},
                              !.left = left, !.ad = ad]
      /\ UNCHANGED <<pdpe_, tables, free_>>

\* The entry is stored, without the accessed and dirty flags that it may have
\* by now: combine() starts from empty flags, with update_ad or without.
\* Mutant of ReduceStore: without maybe_gc.
ReduceStoreKeeps ==
  /\ call.op = "reduce"
  /\ tables' = [tables EXCEPT ![Pdp(call.at).addr][PteOff(call.at)] = CombineLeaf(@, call.left)]
  /\ call' = Idle
  /\ UNCHANGED <<pdpe_, free_, marks>>
ReduceStore ==
  /\ call.op = "reduce"
  /\ IF call.left = {}
       THEN ClearEntries({call.at})
       ELSE /\ tables' = [tables EXCEPT
                 ![Pdp(call.at).addr][PteOff(call.at)] = CombineLeaf(@, call.left)]
            /\ UNCHANGED <<pdpe_, free_>>
  /\ call' = Idle
  /\ UNCHANGED marks

\* flush_accessed_dirty(va).  The flags are taken from the entry in one piece,
\* by clear_ad_flags.
FlushAccessedDirty(v) ==
  /\ call = Idle
  /\ Mapped(v)
  /\ marks' = Credited(marks, Pte(v).addr, Pte(v).fl, NPte)
  /\ tables' = [tables EXCEPT ![Pdp(v).addr][PteOff(v)].fl = @ \ {"A", "D"}]
  /\ UNCHANGED <<pdpe_, free_, call>>

\* The tables that the top table leads to.
PdpTables == {pdpe_[i].addr : i \in {n \in DOMAIN pdpe_ : pdpe_[n].p}}
PteTables == UNION {{tables[f][j].addr : j \in {n \in DOMAIN tables[f] : tables[f][n].p}} : f \in PdpTables}

\* ~pmap: clear() gives every table back.  A new pmap may follow.  No processor
\* uses the tables any more, so this is one step.
Destroy ==
  /\ call = Idle
  /\ marks' = Deregistered({v \in VPages : Mapped(v)})
  /\ free_' = free_ \cup PdpTables \cup PteTables
  /\ tables' = [f \in Frames |-> IF f \in PdpTables \cup PteTables THEN << >> ELSE tables[f]]
  /\ pdpe_' = EmptyTable(NPdpe)
  /\ UNCHANGED call

\* The processor reads and writes through the tables, and leaves marks.
CpuTouches(v, fl) ==
  /\ Mapped(v)
  /\ "D" \in fl => "RW" \in Pte(v).fl \cap Pdp(v).fl
  /\ tables' = [tables EXCEPT ![Pdp(v).addr][PteOff(v)].fl = @ \cup fl]
  /\ UNCHANGED <<pdpe_, free_, marks, call>>

CpuReads  == \E v \in TouchAt : CpuTouches(v, {"A"})
CpuWrites == \E v \in TouchAt : CpuTouches(v, {"A", "D"})

Next ==
  \/ \E v \in MapAt, pg \in MapPages, perm \in MapPerms : Map(v, pg, perm)
  \/ \E v \in MapAt : MapFails(v)
  \/ \E v \in MapAt, n \in 1 .. MaxUnmap : UnmapBegin(v, n)
  \/ UnmapRead
  \/ UnmapClear
  \/ UnmapReturns
  \/ \E v \in MapAt, perm \in ReducePerms, ad \in BOOLEAN : ReduceRead(v, perm, ad)
  \/ ReduceStore
  \/ \E v \in MapAt : FlushAccessedDirty(v)
  \/ Destroy
  \/ CpuReads
  \/ CpuWrites

Spec == Init /\ [][Next]_vars

----------------------------------------------------------------------------
(* Properties. *)

Records == [p : BOOLEAN, addr : Frames \cup PageNos \cup {0}, fl : SUBSET {"RW", "NX", "A", "D"}]

\* The type invariant: a frame holds a table of either level, or nothing.
TypeOK ==
  /\ pdpe_ \in [0 .. NPdpe - 1 -> Records]
  /\ DOMAIN tables = Frames
  /\ \A f \in Frames : tables[f] \in {<< >>} \cup [0 .. NPdp - 1 -> Records] \cup [0 .. NPte - 1 -> Records]
  /\ free_ \subseteq Frames
  /\ marks \in [PageNos -> SUBSET {"A", "D"}]
  /\ call \in [op : {"idle", "unmap", "clear", "reduce"}, range : SUBSET VPages,
               todo : SUBSET VPages, at : VPages, seen : SUBSET {"A", "D"},
               left : SUBSET {"R", "W", "X"}, ad : BOOLEAN]

\* Every frame is in exactly one place: with the allocator, or referred to by
\* one entry of the tables that the pmap reaches.  So no table is leaked,
\* given back while it is in use, or shared by two entries.
FramesExact ==
  LET pdpRefs == {i \in DOMAIN pdpe_ : pdpe_[i].p}
      pteRefs == UNION {{<<f, j>> : j \in {n \in DOMAIN tables[f] : tables[f][n].p}} : f \in PdpTables}
  IN  /\ TypeOK
      /\ Cardinality(free_) + Cardinality(pdpRefs) + Cardinality(pteRefs) = Cardinality(Frames)
      /\ free_ \cup PdpTables \cup PteTables = Frames

\* No table stays behind when its last entry is gone: unmapping gives back
\* all that mapping took.
NoEmptyTables == \A f \in PdpTables \cup PteTables : ~IsEmpty(tables[f])

\* A page that was written or read is not forgotten: an entry that loses its
\* dirty or accessed flag has passed it on to the page, when it had the flag as
\* the call read it.  Lost are the flags of an entry that map replaces, those
\* of a reduce_permission that was told not to update them, and those that the
\* processor sets after the call has read the entry and before it is stored.
Lost(v) == (Pte(v).fl \cap {"A", "D"}) \ (marks'[Pte(v).addr] \cup (IF Mapped(v)' THEN Pte(v).fl' ELSE {}))

MarksPassedOn ==
  [][\A v \in {w \in TouchAt : Mapped(w) /\ Lost(w) # {}} :
       \/ \E pg \in MapPages, perm \in MapPerms : Map(v, pg, perm)
       \/ /\ call.op \in {"clear", "reduce"} /\ call.at = v
          /\ Lost(v) \cap call.seen = {} \/ (~call.ad /\ call.left # {})]_vars

\* The translation of each page is the one last asked for, and unmapping takes
\* every page of the range asked for and no other: the tables implement
\* AddressSpace.
Space == INSTANCE AddressSpace WITH
  Pages <- MapPages,
  MapRights <- MapPerms,
  ReduceRights <- ReducePerms,
  Implied <- IF HasNX THEN {"R"} ELSE {"R", "X"},
  space <- [v \in VPages |-> IF Mapped(v)
              THEN [page |-> Pte(v).addr, rights |-> GetPermission(Pte(v).fl)] ELSE Nothing],
  going <- IF call.op \in {"unmap", "clear"} THEN call.range ELSE {}

ImplementsAddressSpace == Space!Spec

\* What reduce_permission_ takes for granted: an entry of a pdp allows
\* whatever the entries below it allow.
ParentsPermit ==
  \A v \in MapAt : Mapped(v) => ("RW" \in Pte(v).fl => "RW" \in Pdp(v).fl)
=============================================================================
