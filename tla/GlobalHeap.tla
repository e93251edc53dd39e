----------------------------- MODULE GlobalHeap -----------------------------
(***************************************************************************)
(* abi/src/abi_ext_heap.cc: global_heap, the first-fit allocator behind    *)
(* every heap of the program.  allocate, free and resize each hold lock_,  *)
(* but allocate drops it while it asks heap_malloc for more memory, so     *)
(* that other threads allocate, free, and ask as well in the meantime.     *)
(*                                                                         *)
(* lock_ is taken to exclude, as the code relies on: each stretch of code  *)
(* under the lock is one step.  (It is a semaphore constructed with 1U;    *)
(* TicketSemaphore shows that such a semaphore lets a second thread in.    *)
(* What is checked here holds for one thread, and for many once that is    *)
(* repaired.)                                                              *)
(***************************************************************************)
EXTENDS HeapOps, FiniteSets

CONSTANTS
  Threads,
  Arenas,    \* what heap_malloc has to give: a set of <<base, size>>
  Sizes,     \* sizes asked for
  Aligns,    \* alignments asked for: powers of two
  NoRequest  \* a thread that is not in allocate

ASSUME RequestAssumption == Sizes \subseteq Nat /\ Aligns \subseteq Nat \ {0}
ASSUME ArenaAssumption ==
  Arenas \subseteq Nat \X Nat /\
  \A a, b \in Arenas : a = b \/ a[1] + a[2] <= b[1] \/ b[1] + b[2] <= a[1]

VARIABLES
  heap,   \* the four linked structures, see HeapOps
  given,  \* arenas that heap_malloc has handed out
  live,   \* blocks handed out and not freed, as their callers know them
  want    \* by thread: the size and alignment asked for, and the memory got

vars == <<heap, given, live, want>>

\* A thread in the unlocked stretch: before (got = <<>>) or after heap_malloc.
Requests ==
  [sz : Sizes, al : Aligns, got : Arenas \cup {<<>>}]

Init ==
  /\ heap = [seg |-> <<>>, chain |-> <<>>, used |-> {}, free |-> <<>>]
  /\ given = {}
  /\ live = {}
  /\ want = [p \in Threads |-> NoRequest]

\* One turn of the loop in allocate on heap h: allocate from the free list
\* and return, or drop the lock to ask for more.
TryAllocate(p, h, sz, al) ==
  IF HasRoom(h, sz, al)
    THEN LET b == [ptr |-> AllocatedAt(h, sz, al), size |-> sz, al |-> al]
         IN  /\ heap' = AllocatedFrom(h, sz, al)
             /\ live' = live \cup {b}
             /\ want' = [want EXCEPT ![p] = NoRequest]
    ELSE /\ heap' = h
         /\ live' = live
         /\ want' = [want EXCEPT ![p] = [sz |-> sz, al |-> al, got |-> <<>>]]

\* allocate(sz, alignment)
Allocate(p) ==
  \E sz \in Sizes, al \in Aligns :
    /\ want[p] = NoRequest
    /\ sz <= MaxAlloc
    /\ TryAllocate(p, heap, sz, al)
    /\ UNCHANGED given

Asking(p) == want[p] # NoRequest /\ want[p].got = <<>>

\* heap_malloc, outside the lock: an arena that is large enough.
HeapMalloc(p) ==
  \E a \in Arenas \ given :
    /\ Asking(p)
    /\ a[2] >= RequestSize(want[p].sz, want[p].al)
    /\ given' = given \cup {a}
    /\ want' = [want EXCEPT ![p].got = a]
    /\ UNCHANGED <<heap, live>>

\* heap_malloc has nothing: allocate returns nullptr.
HeapMallocFails(p) ==
  /\ Asking(p)
  /\ \A a \in Arenas \ given : a[2] < RequestSize(want[p].sz, want[p].al)
  /\ want' = [want EXCEPT ![p] = NoRequest]
  /\ UNCHANGED <<heap, given, live>>

\* The lock is taken back, the memory linked, and the loop turns once more.
AllocateAgain(p) ==
  /\ want[p] # NoRequest /\ want[p].got # <<>>
  /\ TryAllocate(p, WithArena(heap, want[p].got[1], want[p].got[2]), want[p].sz, want[p].al)
  /\ UNCHANGED given

\* free(ptr), by any thread that has the pointer.
Free ==
  \E b \in live :
    /\ IsKnown(heap, b.ptr)
    /\ heap' = Freed(heap, b.ptr)
    /\ live' = live \ {b}
    /\ UNCHANGED <<given, want>>

\* resize(ptr, nsz), in place or refused.
Resize ==
  \E b \in live, nsz \in Sizes :
    /\ IsKnown(heap, b.ptr)
    /\ CanResize(heap, b.ptr, nsz)
    /\ heap' = Resized(heap, b.ptr, nsz)
    /\ live' = (live \ {b}) \cup {[b EXCEPT !.size = nsz]}
    /\ UNCHANGED <<given, want>>

Next ==
  \/ \E p \in Threads :
       \/ Allocate(p)
       \/ HeapMalloc(p)
       \/ HeapMallocFails(p)
       \/ AllocateAgain(p)
  \/ Free
  \/ Resize

Spec == Init /\ [][Next]_vars
-----------------------------------------------------------------------------
Segment ==
  [root : BOOLEAN, used : BOOLEAN, bytes_used : 0 .. MaxAlloc, bytes_free : 0 .. FreeW - 1]

TypeOK ==
  /\ \A m \in DOMAIN heap.seg : heap.seg[m] \in Segment
  /\ IsInjective(heap.chain) /\ Range(heap.chain) = DOMAIN heap.seg
  /\ IsInjective(heap.free) /\ Range(heap.free) \subseteq DOMAIN heap.seg
  /\ heap.used \subseteq DOMAIN heap.seg
  /\ given \subseteq Arenas
  /\ live \subseteq [ptr : Nat, size : Sizes, al : Aligns]
  /\ \A p \in Threads : want[p] = NoRequest \/ want[p] \in Requests

\* "Non-root spans must always connect with their predecessor" (pred_merge):
\* in the order of the chain every header that is not a root starts where the
\* span of the one before it ends.
Connected ==
  \A i \in DOMAIN heap.chain :
    \/ heap.seg[heap.chain[i]].root
    \/ i > 1 /\ SpanEnd(heap, heap.chain[i - 1]) = heap.chain[i]

\* And more: the headers of an arena cover it to its last byte, through every
\* split, merge and resize, and no two arenas run into each other's chain.
Linked == {a \in given : a[1] \in DOMAIN heap.seg}
Tiled ==
  /\ TypeOK /\ Connected
  /\ \A i \in DOMAIN heap.chain :
       LET m == heap.chain[i]
           last == i = Len(heap.chain) \/ heap.seg[heap.chain[i + 1]].root
       IN  /\ heap.seg[m].root => \E a \in Linked : a[1] = m
           /\ last => \E a \in Linked : SpanEnd(heap, m) = a[1] + a[2]

\* A header that is not a root exists only for its allocation: free() always
\* finds a predecessor to merge with, so that freeing everything, in any
\* order and across arenas, leaves each arena in one piece again.
OnePieceAgain ==
  live = {} =>
    /\ DOMAIN heap.seg = {a[1] : a \in Linked}
    /\ \A a \in Linked : SpanEnd(heap, a[1]) = a[1] + a[2] /\ a[1] \in Range(heap.free)

\* Free space that could hold an allocation is never forgotten: a header
\* with more free bytes than another header takes is on the free list.  The
\* code decides membership in five places, with three different comparisons.
NothingForgotten ==
  \A m \in DOMAIN heap.seg : heap.seg[m].bytes_free > Mas => m \in Range(heap.free)

\* What the heap promises, see Allocator: a block is what one call asked for
\* (its size, as last resized, and its alignment) and the pointer it got, so
\* the promise is kept to the callers, whatever the headers say.
Promise == INSTANCE Allocator WITH blocks <- live, memory <- given
ImplementsAllocator == Promise!Spec
=============================================================================
