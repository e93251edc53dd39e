------------------------------ MODULE HeapOps ------------------------------
(***************************************************************************)
(* The algorithms of abi/src/abi_ext_heap.cc as operators on the state of  *)
(* global_heap: a record with                                              *)
(*   seg    the memory headers, by address                                 *)
(*   chain  all headers, in the order of chain_                            *)
(*   used   the headers linked in used_                                    *)
(*   free   the headers linked in free_, in order                          *)
(* A header has root_, used_, bytes_used_ and bytes_free_; the bytes it    *)
(* governs are Mas bytes for itself, the used ones, then the free ones.    *)
(* Linking an element that is linked already, and unlinking one that is    *)
(* not, do nothing (abi/ext/list-inl.h).                                   *)
(***************************************************************************)
EXTENDS Integers, SequencesExt

CONSTANTS
  Mas,       \* memory_alloc_space: sizeof(memory) rounded up
  MemAlign,  \* memory_align: alignof(memory)
  MaxAlloc,  \* max_alloc_size: what the bit-field bytes_used_ can hold
  FreeW,     \* number of values of the bit-field bytes_free_ (2^32)
  SizeW      \* number of values of size_t (2^64)

ASSUME MasAssumption == Mas \in Nat \ {0} /\ MemAlign \in Nat \ {0} /\ Mas % MemAlign = 0
ASSUME WidthAssumption ==
  MaxAlloc \in Nat /\ FreeW \in Nat /\ SizeW \in Nat /\ MaxAlloc < FreeW /\ FreeW <= SizeW

\* global_heap::align: round up to a multiple of a power of two.
AlignUp(x, n) == ((x + n - 1) \div n) * n

LinkFront(s, m) == IF m \in Range(s) THEN s ELSE <<m>> \o s
LinkBack(s, m)  == IF m \in Range(s) THEN s ELSE Append(s, m)
IndexIn(s, m)   == CHOOSE i \in DOMAIN s : s[i] = m
Unlink(s, m)    == IF m \in Range(s) THEN RemoveAt(s, IndexIn(s, m)) ELSE s
LinkAfter(s, m, at) == InsertAt(s, IndexIn(s, at) + 1, m)

UsedAddr(m)     == m + Mas
FreeAddr(h, m)  == m + Mas + h.seg[m].bytes_used
SpanOf(s)       == Mas + s.bytes_used + s.bytes_free
SpanEnd(h, m)   == m + SpanOf(h.seg[m])

\* memory::memory(span_bytes, root)
NewSegment(span, root) ==
  [root |-> root, used |-> FALSE, bytes_used |-> 0, bytes_free |-> (span - Mas) % FreeW]

\* memory::try_claim of a whole free space that starts where the allocation
\* must: the conditions, and the header after it.
CanClaim(s, sz) == ~ s.used /\ sz <= MaxAlloc /\ sz <= s.bytes_free
Claimed(s, sz)  == [s EXCEPT !.used = TRUE, !.bytes_used = sz, !.bytes_free = @ - sz]

\* try_claim_ keeps a header on the free list after a split of its space
\* only while another header fits behind it.
WantsFree(s) ==
  /\ s.bytes_free >= Mas
  /\ ~ (s.used /\ s.bytes_free = Mas)

-----------------------------------------------------------------------------
\* try_claim_, first attempt: header m takes the allocation itself.
FitsDirectly(h, m, sz, al) ==
  /\ AlignUp(FreeAddr(h, m), al) = FreeAddr(h, m)
  /\ CanClaim(h.seg[m], sz)

\* Mutant of ClaimDirectly: a claimed header always leaves the free list.
ClaimDirectlyUnlinks(h, m, sz) ==
  [h EXCEPT !.seg[m] = Claimed(@, sz), !.used = @ \cup {m}, !.free = Unlink(@, m)]

ClaimDirectly(h, m, sz) ==
  LET s == Claimed(h.seg[m], sz)
  IN  [h EXCEPT !.seg[m] = s,
                !.used = @ \cup {m},
                !.free = IF s.bytes_free <= Mas THEN Unlink(@, m) ELSE @]

\* Mutant of SplitAddr: the header is aligned, the allocation behind it is not.
SplitAddrUnaligned(h, m, al) == AlignUp(FreeAddr(h, m), MemAlign)

\* try_claim_, second attempt: where the new header goes.  Its allocation is
\* aligned, the header sits right before it.
SplitAddr(h, m, al) ==
  AlignUp(AlignUp(FreeAddr(h, m), MemAlign) + Mas, al) - Mas

\* try_split: fp_size - off, an unsigned difference that nothing keeps from
\* wrapping when the aligned address lies past the end of m.
SplitSpan(h, m, al) ==
  (h.seg[m].bytes_free - (SplitAddr(h, m, al) - FreeAddr(h, m))) % SizeW

FitsBySplit(h, m, sz, al) ==
  /\ SplitSpan(h, m, al) >= Mas + sz
  /\ CanClaim(NewSegment(SplitSpan(h, m, al), FALSE), sz)

\* Mutant of ClaimBySplit: the parent keeps the bytes it gave away.
ClaimBySplitKeeps(h, m, sz, al) ==
  LET mm == SplitAddr(h, m, al)
      new == Claimed(NewSegment(SplitSpan(h, m, al), FALSE), sz)
  IN  [seg   |-> [x \in DOMAIN h.seg \cup {mm} |-> IF x = mm THEN new ELSE h.seg[x]],
       chain |-> LinkAfter(h.chain, mm, m),
       used  |-> h.used \cup {mm},
       free  |-> IF new.bytes_free >= Mas THEN LinkFront(h.free, mm) ELSE h.free]

ClaimBySplit(h, m, sz, al) ==
  LET mm == SplitAddr(h, m, al)
      new == Claimed(NewSegment(SplitSpan(h, m, al), FALSE), sz)
      parent == [h.seg[m] EXCEPT !.bytes_free = (@ - SpanOf(new)) % FreeW]
      free == IF new.bytes_free >= Mas THEN LinkFront(h.free, mm) ELSE h.free
  IN  [seg   |-> [x \in DOMAIN h.seg \cup {mm} |->
                    IF x = mm THEN new ELSE IF x = m THEN parent ELSE h.seg[x]],
       chain |-> LinkAfter(h.chain, mm, m),
       used  |-> h.used \cup {mm},
       free  |-> IF WantsFree(parent) THEN free ELSE Unlink(free, m)]

-----------------------------------------------------------------------------
Fits(h, m, sz, al) == FitsDirectly(h, m, sz, al) \/ FitsBySplit(h, m, sz, al)
HasRoom(h, sz, al) == \E i \in DOMAIN h.free : Fits(h, h.free[i], sz, al)

\* allocate_from_free_: the first header on the free list that will do.
FirstFit(h, sz, al) ==
  h.free[CHOOSE i \in DOMAIN h.free :
           /\ Fits(h, h.free[i], sz, al)
           /\ \A j \in 1 .. i - 1 : ~ Fits(h, h.free[j], sz, al)]

\* The heap after allocate_from_free_, and the address it hands out.
AllocatedFrom(h, sz, al) ==
  LET m == FirstFit(h, sz, al)
  IN  IF FitsDirectly(h, m, sz, al) THEN ClaimDirectly(h, m, sz)
                                    ELSE ClaimBySplit(h, m, sz, al)
AllocatedAt(h, sz, al) ==
  LET m == FirstFit(h, sz, al)
  IN  UsedAddr(IF FitsDirectly(h, m, sz, al) THEN m ELSE SplitAddr(h, m, al))

\* allocate: what is asked of heap_malloc.
RequestSize(sz, al) == AlignUp(Mas + sz, al)

\* allocate: a new root, last in the chain and first on the free list.
WithArena(h, base, size) ==
  [seg   |-> [x \in DOMAIN h.seg \cup {base} |->
                IF x = base THEN NewSegment(size, TRUE) ELSE h.seg[x]],
   chain |-> LinkBack(h.chain, base),
   used  |-> h.used,
   free  |-> LinkFront(h.free, base)]

\* lookup_used_addr_
IsKnown(h, ptr) == ptr - Mas \in h.used

\* memory::release
Released(s) ==
  [s EXCEPT !.used = FALSE, !.bytes_used = 0, !.bytes_free = @ + s.bytes_used]

\* Mutant of Freed: the free list is not told about the merged predecessor.
FreedQuietly(h, ptr) ==
  LET m == ptr - Mas
      s == Released(h.seg[m])
      p == h.chain[IndexIn(h.chain, m) - 1]
  IN  IF s.root
        THEN [h EXCEPT !.seg[m] = s, !.free = LinkFront(@, m)]
        ELSE [seg   |-> [x \in DOMAIN h.seg \ {m} |->
                           IF x = p THEN [h.seg[p] EXCEPT !.bytes_free = (@ + SpanOf(s)) % FreeW]
                                    ELSE h.seg[x]],
              chain |-> Unlink(h.chain, m),
              used  |-> h.used \ {m},
              free  |-> Unlink(h.free, m)]

\* free: a root is only marked free, and stays linked in used_; any other
\* header is absorbed, with its bytes, by its predecessor in the chain.
Freed(h, ptr) ==
  LET m == ptr - Mas
      s == Released(h.seg[m])
      p == h.chain[IndexIn(h.chain, m) - 1]
  IN  IF s.root
        THEN [h EXCEPT !.seg[m] = s, !.free = LinkFront(@, m)]
        ELSE [seg   |-> [x \in DOMAIN h.seg \ {m} |->
                           IF x = p THEN [h.seg[p] EXCEPT !.bytes_free = (@ + SpanOf(s)) % FreeW]
                                    ELSE h.seg[x]],
              chain |-> Unlink(h.chain, m),
              used  |-> h.used \ {m},
              free  |-> LinkFront(Unlink(h.free, m), p)]

\* memory::resize
CanResize(h, ptr, nsz) ==
  LET s == h.seg[ptr - Mas] IN nsz <= MaxAlloc /\ nsz <= s.bytes_used + s.bytes_free

\* Mutant of Resized: shrinking forgets the bytes it frees.
ResizedLeaky(h, ptr, nsz) ==
  LET m == ptr - Mas
      s == [h.seg[m] EXCEPT !.bytes_used = nsz]
  IN  [h EXCEPT !.seg[m] = s,
                !.free = IF s.bytes_free >= Mas THEN LinkBack(@, m) ELSE Unlink(@, m)]

\* resize, when it succeeds.
Resized(h, ptr, nsz) ==
  LET m == ptr - Mas
      s == [h.seg[m] EXCEPT !.bytes_free = h.seg[m].bytes_free + h.seg[m].bytes_used - nsz,
                            !.bytes_used = nsz]
  IN  [h EXCEPT !.seg[m] = s,
                !.free = IF s.bytes_free >= Mas THEN LinkBack(@, m) ELSE Unlink(@, m)]
=============================================================================
