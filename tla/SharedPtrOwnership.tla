------------------------- MODULE SharedPtrOwnership -------------------------
(***************************************************************************)
(* The two counts behind shared_ptr and weak_ptr (abi/include/stdimpl/     *)
(* shared_ptr_ownership-inl.h, abi/src/stdimpl_shared_ptr_ownership.cc)    *)
(* and the calls that the pointers' members make on them (abi/include/     *)
(* memory-inl.h).  One ownership block is followed.  Every shared_ptr and  *)
(* weak_ptr object is a process: one thread at a time constructs, assigns  *)
(* or destroys it, and different objects belong to different threads.      *)
(*                                                                         *)
(* An assignment or a reset is a temporary that is constructed, swapped    *)
(* and destroyed.  A step is one atomic operation on a count.              *)
(***************************************************************************)
EXTENDS Integers, FiniteSets

CONSTANTS
  Pointers,  \* shared_ptr and weak_ptr objects
  None       \* no object

ASSUME PointersAssumption == IsFiniteSet(Pointers) /\ None \notin Pointers

VARIABLES
  refcount,         \* refcount_
  shared_refcount,  \* shared_refcount_
  allocated,        \* the ownership block exists
  pointee,          \* "alive", "dying" while its destructor runs, "gone"
  self,             \* its enable_shared_from_this part has a reference
  at,               \* where each pointer is, see Places
  source,           \* the object a pointer under construction is copied from
  expect            \* shared_ptr_acquire_from_weak_ptr(): expect

counts == <<refcount, shared_refcount>>
object == <<allocated, pointee, self>>
vars == <<counts, object, at, source, expect>>

\* null, strong, weak: at rest.  copying: refcount_ raised, shared_refcount_
\* not yet.  locking, converting: in shared_ptr_acquire_from_weak_ptr(), for
\* lock() or for weak_ptr_convert().  converted: weak_ptr_convert() has a
\* strong reference.  dying, dying_weak: in release_pointee().  released: has
\* a reference of the block to give back.  freeing: in destroy_me().
Places == {"null", "strong", "weak", "copying", "locking", "converting",
           "converted", "dying", "dying_weak", "released", "freeing"}

TypeOK ==
  /\ refcount \in Nat /\ shared_refcount \in Nat
  /\ allocated \in BOOLEAN /\ self \in BOOLEAN
  /\ pointee \in {"alive", "dying", "gone"}
  /\ at \in [Pointers -> Places]
  /\ source \in [Pointers -> Pointers \cup {None}]
  /\ expect \in [Pointers -> Nat \ {0}]

\* shared_ptr(unique_ptr&&), allocate_shared(): the block is made with both
\* counts at one, and fixup_shared_from_this() adds the object's own reference.
Init ==
  /\ self \in BOOLEAN
  /\ refcount = (IF self THEN 2 ELSE 1) /\ shared_refcount = 1
  /\ allocated = TRUE /\ pointee = "alive"
  /\ \E first \in Pointers :
       at = [h \in Pointers |-> IF h = first THEN "strong" ELSE "null"]
  /\ source = [h \in Pointers |-> None]
  /\ expect = [h \in Pointers |-> 1]

\* The program does not destroy or move an object that is being copied.
Free(h) == \A g \in Pointers : source[g] # h

Goto(h, from, to) == at[h] = from /\ at' = [at EXCEPT ![h] = to]
-----------------------------------------------------------------------------
\* shared_ptr_ownership::acquire(), the start of every copy: h is made from g.
Acquire(h, g, to) ==
  /\ Goto(h, "null", to)
  /\ refcount' = refcount + 1
  /\ UNCHANGED <<shared_refcount, object>>

\* shared_ptr(const shared_ptr&): the two counts one after the other.
CopyBegin(h, g) ==
  /\ at[g] = "strong"
  /\ Acquire(h, g, "copying")
  /\ source' = [source EXCEPT ![h] = g]
  /\ UNCHANGED expect

\* shared_ptr_acquire_from_shared_ptr()
CopyEnd(h) ==
  /\ Goto(h, "copying", "strong")
  /\ shared_refcount' = shared_refcount + 1
  /\ source' = [source EXCEPT ![h] = None]
  /\ UNCHANGED <<refcount, object, expect>>

\* weak_ptr(const shared_ptr&), weak_ptr(const weak_ptr&) of the same type
CopyWeak(h, g) ==
  /\ at[g] \in {"strong", "weak"}
  /\ Acquire(h, g, "weak")
  /\ UNCHANGED <<source, expect>>

\* weak_ptr::lock(), shared_ptr(const weak_ptr&); shared_from_this(), which a
\* thread calls that keeps the object alive by another pointer.
LockBegin(h, g) ==
  /\ at[g] = "weak" \/ (self /\ at[g] = "strong")
  /\ Acquire(h, g, "locking")
  /\ source' = [source EXCEPT ![h] = g]
  /\ expect' = [expect EXCEPT ![h] = 1]

\* weak_ptr(const weak_ptr<Y>&): weak_ptr_convert() needs the object to
\* convert its address.
ConvertBegin(h, g) ==
  /\ at[g] = "weak"
  /\ Acquire(h, g, "converting")
  /\ source' = [source EXCEPT ![h] = g]
  /\ expect' = [expect EXCEPT ![h] = 1]

\* The loop's variables go.
LoopEnds(h) ==
  /\ source' = [source EXCEPT ![h] = None]
  /\ expect' = [expect EXCEPT ![h] = 1]

\* Mutant of TryAcquire: fetch_add, whatever the count was.
TryAcquireAdds(h) ==
  /\ at[h] \in {"locking", "converting"}
  /\ shared_refcount' = shared_refcount + 1
  /\ at' = [at EXCEPT ![h] = IF @ = "locking" THEN "strong" ELSE "converted"]
  /\ LoopEnds(h)
  /\ UNCHANGED <<refcount, object>>

\* shared_ptr_acquire_from_weak_ptr(): the compare-and-swap succeeds.
TryAcquire(h) ==
  /\ at[h] \in {"locking", "converting"}
  /\ shared_refcount = expect[h]
  /\ shared_refcount' = expect[h] + 1
  /\ at' = [at EXCEPT ![h] = IF @ = "locking" THEN "strong" ELSE "converted"]
  /\ LoopEnds(h)
  /\ UNCHANGED <<refcount, object>>

\* It fails and has another count to try with.
TryAgain(h) ==
  /\ at[h] \in {"locking", "converting"}
  /\ shared_refcount \notin {0, expect[h]}
  /\ expect' = [expect EXCEPT ![h] = shared_refcount]
  /\ UNCHANGED <<counts, object, at, source>>

\* Mutant of TryRefused: lock() forgets the reference it took.
TryRefusedForgets(h) ==
  /\ at[h] \in {"locking", "converting"}
  /\ shared_refcount = 0
  /\ at' = [at EXCEPT ![h] = IF @ = "locking" THEN "null" ELSE "weak"]
  /\ LoopEnds(h)
  /\ UNCHANGED <<counts, object>>

\* The object has expired: lock() is to give its reference back, a weak_ptr
\* of another type keeps it and points to nothing.
TryRefused(h) ==
  /\ at[h] \in {"locking", "converting"}
  /\ shared_refcount = 0
  /\ at' = [at EXCEPT ![h] = IF @ = "locking" THEN "released" ELSE "weak"]
  /\ LoopEnds(h)
  /\ UNCHANGED <<counts, object>>
-----------------------------------------------------------------------------
\* ~shared_ptr(), the end of weak_ptr_convert(): shared_ptr_release(); the
\* last one destroys the pointee.
ReleaseShared(h) ==
  /\ Free(h)
  /\ shared_refcount' = shared_refcount - 1
  /\ IF shared_refcount = 1
       THEN /\ \/ Goto(h, "strong", "dying")
               \/ Goto(h, "converted", "dying_weak")
            /\ pointee' = "dying"
       ELSE /\ \/ Goto(h, "strong", "released")
               \/ Goto(h, "converted", "weak")
            /\ UNCHANGED pointee
  /\ UNCHANGED <<refcount, allocated, self, source, expect>>

\* release_pointee() ends.  ~enable_shared_from_this() has released the
\* object's own reference, never the last one: h has its own.
RunDestructor(h) ==
  /\ \/ Goto(h, "dying", "released")
     \/ Goto(h, "dying_weak", "weak")
  /\ pointee' = "gone" /\ self' = FALSE
  /\ refcount' = IF self THEN refcount - 1 ELSE refcount
  /\ UNCHANGED <<shared_refcount, allocated, source, expect>>

\* Mutant of Release: the last but one destroys.
ReleaseEarly(h) ==
  /\ Free(h)
  /\ \/ Goto(h, "released", IF refcount <= 2 THEN "freeing" ELSE "null")
     \/ Goto(h, "weak", IF refcount <= 2 THEN "freeing" ELSE "null")
  /\ refcount' = refcount - 1
  /\ UNCHANGED <<shared_refcount, object, source, expect>>

\* shared_ptr_ownership::release(), the end of ~shared_ptr(), ~weak_ptr() and
\* of a lock() that was refused; the last one destroys the block.
Release(h) ==
  /\ Free(h)
  /\ \/ Goto(h, "released", IF refcount = 1 THEN "freeing" ELSE "null")
     \/ Goto(h, "weak", IF refcount = 1 THEN "freeing" ELSE "null")
  /\ refcount' = refcount - 1
  /\ UNCHANGED <<shared_refcount, object, source, expect>>

\* destroy_me()
DestroyMe(h) ==
  /\ Goto(h, "freeing", "null")
  /\ allocated' = FALSE
  /\ UNCHANGED <<counts, pointee, self, source, expect>>

\* shared_ptr(shared_ptr&&), weak_ptr(weak_ptr&&), swap()
Swap(g, h) ==
  /\ g # h
  /\ at[g] \in {"strong", "weak"} /\ at[h] \in {"null", "strong", "weak"}
  /\ Free(g) /\ Free(h)
  /\ at' = [at EXCEPT ![g] = at[h], ![h] = at[g]]
  /\ UNCHANGED <<counts, object, source, expect>>

\* weak_ptr(weak_ptr<Y>&&): the reference moves over, nothing is counted, and
\* the address is converted under it.
MoveConvert(h, g) ==
  /\ at[g] = "weak" /\ at[h] = "null" /\ Free(g)
  /\ at' = [at EXCEPT ![g] = "null", ![h] = "converting"]
  /\ expect' = [expect EXCEPT ![h] = 1]
  /\ UNCHANGED <<counts, object, source>>

Next ==
  \E h \in Pointers :
    \/ \E g \in Pointers :
         \/ CopyBegin(h, g) \/ CopyWeak(h, g) \/ LockBegin(h, g) \/ ConvertBegin(h, g)
         \/ Swap(g, h) \/ MoveConvert(h, g)
    \/ CopyEnd(h)
    \/ TryAcquire(h) \/ TryAgain(h) \/ TryRefused(h)
    \/ ReleaseShared(h) \/ RunDestructor(h)
    \/ Release(h) \/ DestroyMe(h)

Spec == Init /\ [][Next]_vars
-----------------------------------------------------------------------------
\* Pointers with a unit of shared_refcount_, and with one of refcount_.
Owners    == {h \in Pointers : at[h] \in {"strong", "converted"}}
Referrers == {h \in Pointers : at[h] \notin {"null", "freeing"}}
Dying     == {h \in Pointers : at[h] \in {"dying", "dying_weak"}}
Freeing   == {h \in Pointers : at[h] = "freeing"}

\* Both counts are exact at every step of every constructor and destructor,
\* although copies raise one after the other, destructors lower them in the
\* opposite order, and lock() may have to take its step back.
CountsExact ==
  /\ shared_refcount = Cardinality(Owners)
  /\ refcount = Cardinality(Referrers) + (IF self THEN 1 ELSE 0)

\* The object is alive exactly as long as it has owners: it is destroyed by
\* the last of them, at once and once, and no lock() that came in meanwhile
\* brings it back.
PointeeOutlivesOwners ==
  /\ pointee = "alive" <=> Owners # {}
  /\ pointee = "dying" <=> Dying # {}
  /\ \A g, h \in Dying : g = h

\* The block is there exactly as long as any pointer refers to it or is about
\* to delete it: it is neither touched after it was deleted nor forgotten, the
\* object's reference to its own block included; and when it is deleted,
\* nothing refers to it and both counts are zero, as its destructor asserts.
BlockOutlivesUsers ==
  /\ allocated <=> Referrers \cup Freeing # {}
  /\ Freeing # {} => Referrers = {} /\ refcount = 0 /\ shared_refcount = 0
  /\ \A g, h \in Freeing : g = h
=============================================================================
