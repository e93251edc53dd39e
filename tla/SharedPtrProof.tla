--------------------------- MODULE SharedPtrProof ---------------------------
(***************************************************************************)
(* Proofs about shared_ptr's ownership block, for any finite set of        *)
(* pointer objects.  The counts are cardinalities of sets of pointers, so  *)
(* that every step adds a pointer to a set, takes it out, or leaves it.    *)
(***************************************************************************)
EXTENDS SharedPtrOwnership, FiniteSetTheorems, TLAPS

\* The source of a copy stays a shared_ptr until the copy has its own unit.
SourceStays ==
  \A h \in Pointers :
    at[h] = "copying" => source[h] \in Pointers /\ at[source[h]] = "strong"

\* The object's own reference goes when it does.
SelfLives == self => pointee # "gone"

IInv ==
  /\ TypeOK
  /\ CountsExact /\ PointeeOutlivesOwners /\ BlockOutlivesUsers
  /\ SourceStays /\ SelfLives

\* A subset of the pointers has a cardinality, which is zero for the empty
\* set alone and one for a singleton alone.
LEMMA Counted ==
  ASSUME NEW S \in SUBSET Pointers
  PROVE  /\ IsFiniteSet(S) /\ Cardinality(S) \in Nat
         /\ Cardinality(S) = 0 <=> S = {}
         /\ \A x \in S : Cardinality(S) = 1 <=> S = {x}
<1>1. IsFiniteSet(S)
  BY FS_Subset, PointersAssumption
<1>2. Cardinality(S) \in Nat /\ (Cardinality(S) = 0 <=> S = {})
  BY <1>1, FS_CardinalityType, FS_EmptySet
<1>3. ASSUME NEW x \in S PROVE Cardinality(S) = 1 <=> S = {x}
  BY <1>1, <1>3, FS_Singleton
<1>4. QED
  BY <1>1, <1>2, <1>3

\* One pointer more.
LEMMA Grows ==
  ASSUME NEW S \in SUBSET Pointers, NEW x \in Pointers, x \notin S
  PROVE  Cardinality(S \cup {x}) = Cardinality(S) + 1
  BY Counted, FS_AddElement

\* One pointer less.
LEMMA Shrinks ==
  ASSUME NEW S \in SUBSET Pointers, NEW x \in S
  PROVE  Cardinality(S \ {x}) = Cardinality(S) - 1
  BY Counted, FS_RemoveElement

\* The owners are referrers, and refcount_ is at least shared_refcount_.
LEMMA OwnersRefer ==
  ASSUME TypeOK
  PROVE  /\ Owners \subseteq Referrers
         /\ Cardinality(Owners) <= Cardinality(Referrers)
<1>1. Owners \subseteq Referrers /\ Referrers \subseteq Pointers
  BY DEF Owners, Referrers, TypeOK, Places
<1>2. QED
  BY <1>1, Counted, FS_Subset

\* What a step does to the four sets, when it moves one pointer.
LEMMA Moves ==
  ASSUME TypeOK, NEW h \in Pointers, NEW to \in Places, at' = [at EXCEPT ![h] = to]
  PROVE  /\ Owners' = IF to \in {"strong", "converted"} THEN Owners \cup {h} ELSE Owners \ {h}
         /\ Referrers' = IF to \in {"null", "freeing"} THEN Referrers \ {h} ELSE Referrers \cup {h}
         /\ Dying' = IF to \in {"dying", "dying_weak"} THEN Dying \cup {h} ELSE Dying \ {h}
         /\ Freeing' = IF to = "freeing" THEN Freeing \cup {h} ELSE Freeing \ {h}
<1>1. at'[h] = to /\ \A k \in Pointers \ {h} : at'[k] = at[k]
  BY DEF TypeOK
<1>2. QED
  BY <1>1 DEF Owners, Referrers, Dying, Freeing

\* The start of a copy: one more referrer, while another one is there.
LEMMA AcquireKeeps ==
  ASSUME IInv, NEW h \in Pointers, NEW g \in Pointers, at[g] \in {"strong", "weak"},
         NEW to \in {"copying", "weak", "locking", "converting"}, Acquire(h, g, to),
         source' \in [Pointers -> Pointers \cup {None}],
         expect' \in [Pointers -> Nat \ {0}],
         to = "copying" => at[g] = "strong" /\ source'[h] = g,
         \A k \in Pointers \ {h} : source'[k] = source[k]
  PROVE  IInv'
<1>1. at[h] = "null" /\ at' = [at EXCEPT ![h] = to] /\ to \in Places
  BY DEF Acquire, Goto, Places
<1>2. /\ h \notin Owners /\ h \notin Referrers /\ h \notin Dying /\ h \notin Freeing
      /\ g \in Referrers /\ Freeing = {} /\ allocated
  BY <1>1 DEF Owners, Referrers, Dying, Freeing, IInv, BlockOutlivesUsers
<1>3. Owners' = Owners /\ Referrers' = Referrers \cup {h} /\ Dying' = Dying /\ Freeing' = Freeing
  <2>1. /\ Owners' = Owners \ {h} /\ Referrers' = Referrers \cup {h}
        /\ Dying' = Dying \ {h} /\ Freeing' = Freeing \ {h}
    BY <1>1, Moves DEF IInv
  <2>2. QED
    BY <1>2, <2>1
<1>4. TypeOK'
  BY <1>1 DEF IInv, TypeOK, Acquire, object
<1>5. CountsExact'
  <2>1. Cardinality(Referrers') = Cardinality(Referrers) + 1
    BY <1>2, <1>3, Grows DEF Referrers
  <2>2. Cardinality(Referrers) \in Nat
    BY Counted DEF Referrers
  <2>3. QED
    BY <1>3, <2>1, <2>2 DEF IInv, CountsExact, Acquire, object
<1>6. PointeeOutlivesOwners' /\ SelfLives'
  BY <1>3 DEF IInv, PointeeOutlivesOwners, SelfLives, Acquire, object
<1>7. BlockOutlivesUsers'
  BY <1>2, <1>3 DEF IInv, BlockOutlivesUsers, Acquire, object
<1>8. SourceStays'
  <2>1. g # h /\ at'[g] = at[g] /\ at'[h] = to
    BY <1>1 DEF IInv, TypeOK
  <2>2. ASSUME NEW k \in Pointers \ {h}, at'[k] = "copying"
        PROVE  source'[k] \in Pointers /\ at'[source'[k]] = "strong"
    <3>1. at[k] = "copying" /\ source'[k] = source[k]
      BY <1>1, <2>2 DEF IInv, TypeOK
    <3>2. source[k] \in Pointers /\ at[source[k]] = "strong" /\ source[k] # h
      BY <1>1, <3>1 DEF IInv, SourceStays
    <3>3. QED
      BY <1>1, <3>1, <3>2 DEF IInv, TypeOK
  <2>3. QED
    BY <2>1, <2>2 DEF SourceStays
<1>9. QED
  BY <1>4, <1>5, <1>6, <1>7, <1>8 DEF IInv

\* A step of a pointer that keeps both counts' units where they are.
LEMMA QuietKeeps ==
  ASSUME IInv, NEW h \in Pointers, at[h] \in {"locking", "converting"},
         NEW to \in {"locking", "converting", "released", "weak"},
         at' = [at EXCEPT ![h] = to], UNCHANGED <<counts, object>>,
         source' \in [Pointers -> Pointers \cup {None}],
         expect' \in [Pointers -> Nat \ {0}],
         \A k \in Pointers \ {h} : source'[k] = source[k]
  PROVE  IInv'
<1>1. to \in Places
  BY DEF Places
<1>2. h \notin Owners /\ h \in Referrers /\ h \notin Dying /\ h \notin Freeing
  BY DEF Owners, Referrers, Dying, Freeing
<1>3. Owners' = Owners /\ Referrers' = Referrers /\ Dying' = Dying /\ Freeing' = Freeing
  <2>1. /\ Owners' = Owners \ {h} /\ Referrers' = Referrers \cup {h}
        /\ Dying' = Dying \ {h} /\ Freeing' = Freeing \ {h}
    BY <1>1, Moves DEF IInv
  <2>2. QED
    BY <1>2, <2>1
<1>4. TypeOK'
  BY <1>1 DEF IInv, TypeOK, object, counts
<1>5. CountsExact' /\ PointeeOutlivesOwners' /\ SelfLives' /\ BlockOutlivesUsers'
  BY <1>3 DEF IInv, CountsExact, PointeeOutlivesOwners, SelfLives, BlockOutlivesUsers, object, counts
<1>6. SourceStays'
  BY DEF IInv, SourceStays, TypeOK
<1>7. QED
  BY <1>4, <1>5, <1>6 DEF IInv

\* One more owner: a copy of an owner, or a lock() that saw the count above
\* zero.
LEMMA OwnKeeps ==
  ASSUME IInv, NEW h \in Pointers, at[h] \in {"copying", "locking", "converting"},
         NEW to \in {"strong", "converted"},
         at' = [at EXCEPT ![h] = to], shared_refcount' = shared_refcount + 1,
         source' = [source EXCEPT ![h] = None], shared_refcount # 0,
         expect' \in [Pointers -> Nat \ {0}], UNCHANGED <<refcount, object>>
  PROVE  IInv'
<1>1. to \in Places
  BY DEF Places
<1>2. h \notin Owners /\ h \in Referrers /\ h \notin Dying /\ h \notin Freeing
  BY DEF Owners, Referrers, Dying, Freeing
<1>3. /\ Owners' = Owners \cup {h} /\ Referrers' = Referrers
      /\ Dying' = Dying /\ Freeing' = Freeing
  <2>1. /\ Owners' = Owners \cup {h} /\ Referrers' = Referrers \cup {h}
        /\ Dying' = Dying \ {h} /\ Freeing' = Freeing \ {h}
    BY <1>1, Moves DEF IInv
  <2>2. QED
    BY <1>2, <2>1
<1>4. TypeOK'
  <2>1. at' \in [Pointers -> Places] /\ source' \in [Pointers -> Pointers \cup {None}]
    BY <1>1 DEF IInv, TypeOK
  <2>2. refcount' \in Nat /\ shared_refcount' \in Nat
    BY DEF IInv, TypeOK
  <2>3. QED
    BY <2>1, <2>2 DEF IInv, TypeOK, object
<1>5. CountsExact'
  <2>1. Cardinality(Owners') = Cardinality(Owners) + 1
    BY <1>2, <1>3, Grows DEF Owners
  <2>2. QED
    BY <1>3, <2>1 DEF IInv, CountsExact, object
<1>6. Owners # {}
  BY Counted DEF IInv, CountsExact, Owners
<1>7. PointeeOutlivesOwners' /\ SelfLives'
  BY <1>3, <1>6 DEF IInv, PointeeOutlivesOwners, SelfLives, object
<1>8. BlockOutlivesUsers'
  BY <1>2, <1>3 DEF IInv, BlockOutlivesUsers, object
<1>9. SourceStays'
  BY DEF IInv, SourceStays, TypeOK
<1>10. QED
  BY <1>4, <1>5, <1>7, <1>8, <1>9 DEF IInv

\* A copy does not find the shared count at zero: its source is an owner.
LEMMA CopyEndKeeps ==
  ASSUME IInv, NEW h \in Pointers, CopyEnd(h)
  PROVE  IInv'
<1>1. source[h] \in Owners
  BY DEF IInv, SourceStays, CopyEnd, Goto, Owners
<1>2. shared_refcount # 0
  BY <1>1, Counted DEF IInv, CountsExact, Owners
<1>3. QED
  BY <1>2, OwnKeeps DEF CopyEnd, Goto, IInv, TypeOK

LEMMA TryAcquireKeeps ==
  ASSUME IInv, NEW h \in Pointers, TryAcquire(h)
  PROVE  IInv'
<1>1. shared_refcount # 0
  BY DEF IInv, TypeOK, TryAcquire
<1>2. expect' \in [Pointers -> Nat \ {0}]
  BY DEF IInv, TypeOK, TryAcquire, LoopEnds
<1>3. CASE at[h] = "locking"
  BY <1>1, <1>2, <1>3, OwnKeeps DEF TryAcquire, LoopEnds
<1>4. CASE at[h] = "converting"
  BY <1>1, <1>2, <1>4, OwnKeeps DEF TryAcquire, LoopEnds
<1>5. QED
  BY <1>3, <1>4 DEF TryAcquire

\* No copy under way loses its source: only pointers that are not one move.
LEMMA SourcesStay ==
  ASSUME IInv, NEW h \in Pointers, NEW to \in Places \ {"copying"}, Free(h),
         at' = [at EXCEPT ![h] = to], UNCHANGED source
  PROVE  SourceStays'
  BY DEF IInv, SourceStays, TypeOK, Free

\* One owner less; the last one is about to destroy the object.
LEMMA ReleaseSharedKeeps ==
  ASSUME IInv, NEW h \in Pointers, ReleaseShared(h)
  PROVE  IInv'
<1>1. at[h] \in {"strong", "converted"}
  BY DEF ReleaseShared, Goto
<1>2. h \in Owners /\ h \in Referrers /\ h \notin Dying /\ h \notin Freeing
  BY <1>1 DEF Owners, Referrers, Dying, Freeing
<1>3. pointee = "alive" /\ Dying = {} /\ Freeing = {}
  BY <1>2 DEF IInv, PointeeOutlivesOwners, BlockOutlivesUsers
<1>4. /\ shared_refcount = Cardinality(Owners) /\ Owners \in SUBSET Pointers
      /\ Cardinality(Owners \ {h}) = shared_refcount - 1
      /\ shared_refcount - 1 \in Nat
  <2>1. Owners \in SUBSET Pointers /\ Owners \ {h} \in SUBSET Pointers
    BY DEF Owners
  <2>2. QED
    BY <1>2, <2>1, Counted, Shrinks DEF IInv, CountsExact
<1>5. ASSUME NEW to \in {"dying", "dying_weak", "released", "weak"}, Goto(h, at[h], to),
             shared_refcount = 1 <=> to \in {"dying", "dying_weak"},
             pointee' = IF shared_refcount = 1 THEN "dying" ELSE pointee
      PROVE  IInv'
  <2>1. to \in Places \ {"copying"}
    BY DEF Places
  <2>2. /\ Owners' = Owners \ {h} /\ Referrers' = Referrers \cup {h}
        /\ Dying' = (IF to \in {"dying", "dying_weak"} THEN Dying \cup {h} ELSE Dying \ {h})
        /\ Freeing' = Freeing \ {h}
    BY <1>5, <2>1, Moves DEF Goto, IInv
  <2>3. Referrers' = Referrers /\ Freeing' = Freeing
    BY <1>2, <2>2
  <2>4. TypeOK'
    BY <1>4, <1>5, <2>1 DEF IInv, TypeOK, Goto, ReleaseShared
  <2>5. CountsExact'
    BY <1>4, <2>2, <2>3 DEF IInv, CountsExact, ReleaseShared
  <2>6. PointeeOutlivesOwners' /\ SelfLives'
    <3>1. CASE shared_refcount = 1
      <4>1. Owners' = {} /\ Dying' = {h} /\ pointee' = "dying"
        BY <1>2, <1>3, <1>4, <1>5, <2>2, <3>1, Counted
      <4>2. QED
        BY <4>1 DEF PointeeOutlivesOwners, SelfLives
    <3>2. CASE shared_refcount # 1
      <4>1. Owners' # {} /\ Dying' = {} /\ pointee' = "alive"
        <5>1. Owners # {h}
          BY <1>2, <1>4, <3>2, Counted
        <5>2. QED
          BY <1>2, <1>3, <1>5, <2>2, <3>2, <5>1
      <4>2. QED
        BY <4>1 DEF PointeeOutlivesOwners, SelfLives
    <3>3. QED
      BY <3>1, <3>2
  <2>7. BlockOutlivesUsers'
    BY <1>2, <1>3, <2>3 DEF IInv, BlockOutlivesUsers, ReleaseShared
  <2>8. SourceStays'
    BY <1>5, <2>1, SourcesStay DEF ReleaseShared, Goto
  <2>9. QED
    BY <2>4, <2>5, <2>6, <2>7, <2>8 DEF IInv
<1>6. CASE shared_refcount = 1
  BY <1>5, <1>6 DEF ReleaseShared, Goto
<1>7. CASE shared_refcount # 1
  BY <1>5, <1>7 DEF ReleaseShared, Goto
<1>8. QED
  BY <1>6, <1>7

\* The object goes and takes its own reference along.
LEMMA DestructorKeeps ==
  ASSUME IInv, NEW h \in Pointers, RunDestructor(h)
  PROVE  IInv'
<1>1. at[h] \in {"dying", "dying_weak"}
  BY DEF RunDestructor, Goto
<1>2. h \notin Owners /\ h \in Referrers /\ h \in Dying /\ h \notin Freeing
  BY <1>1 DEF Owners, Referrers, Dying, Freeing
<1>3. pointee = "dying" /\ Dying = {h} /\ Owners = {} /\ Freeing = {}
  BY <1>2 DEF IInv, PointeeOutlivesOwners, BlockOutlivesUsers
<1>4. PICK to \in {"released", "weak"} : at' = [at EXCEPT ![h] = to]
  BY DEF RunDestructor, Goto
<1>5. to \in Places \ {"copying"}
  BY DEF Places
<1>6. Owners' = {} /\ Referrers' = Referrers /\ Dying' = {} /\ Freeing' = {}
  <2>1. /\ Owners' = Owners \ {h} /\ Referrers' = Referrers \cup {h}
        /\ Dying' = Dying \ {h} /\ Freeing' = Freeing \ {h}
    BY <1>4, <1>5, Moves DEF IInv
  <2>2. QED
    BY <1>2, <1>3, <2>1
<1>7. refcount' = Cardinality(Referrers) /\ refcount' \in Nat
  BY Counted DEF IInv, TypeOK, CountsExact, RunDestructor, Referrers
<1>8. TypeOK'
  BY <1>4, <1>5, <1>7 DEF IInv, TypeOK, RunDestructor
<1>9. CountsExact' /\ PointeeOutlivesOwners' /\ SelfLives'
  BY <1>3, <1>6, <1>7 DEF IInv, CountsExact, PointeeOutlivesOwners, SelfLives, RunDestructor
<1>10. BlockOutlivesUsers'
  BY <1>3, <1>6 DEF IInv, BlockOutlivesUsers, RunDestructor
<1>11. SourceStays'
  BY <1>1, <1>4 DEF IInv, SourceStays, TypeOK, RunDestructor
<1>12. QED
  BY <1>8, <1>9, <1>10, <1>11 DEF IInv

\* One referrer less.  The last one finds the object's own reference gone,
\* since the object had its last owner before.
LEMMA ReleaseKeeps ==
  ASSUME IInv, NEW h \in Pointers, Release(h)
  PROVE  IInv'
<1>1. at[h] \in {"released", "weak"}
  BY DEF Release, Goto
<1>2. h \notin Owners /\ h \in Referrers /\ h \notin Dying /\ h \notin Freeing
  BY <1>1 DEF Owners, Referrers, Dying, Freeing
<1>3. Freeing = {} /\ allocated
  BY <1>2 DEF IInv, BlockOutlivesUsers
<1>4. /\ Cardinality(Referrers) \in Nat \ {0}
      /\ Cardinality(Referrers) = 1 <=> Referrers = {h}
      /\ Cardinality(Referrers \ {h}) = Cardinality(Referrers) - 1
  <2>1. Referrers \in SUBSET Pointers
    BY DEF Referrers
  <2>2. QED
    BY <1>2, <2>1, Counted, Shrinks
<1>5. DEFINE to == IF refcount = 1 THEN "freeing" ELSE "null"
<1>6. at' = [at EXCEPT ![h] = to] /\ to \in Places \ {"copying"}
  BY DEF Release, Goto, Places
<1>7. /\ Owners' = Owners /\ Referrers' = Referrers \ {h} /\ Dying' = Dying
      /\ Freeing' = IF refcount = 1 THEN {h} ELSE {}
  <2>1. /\ Owners' = Owners \ {h} /\ Referrers' = Referrers \ {h} /\ Dying' = Dying \ {h}
        /\ Freeing' = IF refcount = 1 THEN Freeing \cup {h} ELSE Freeing \ {h}
    BY <1>6, Moves DEF IInv
  <2>2. QED
    BY <1>2, <1>3, <2>1
<1>8. TypeOK'
  <2>1. refcount - 1 \in Nat
    BY <1>4 DEF IInv, CountsExact
  <2>2. QED
    BY <1>6, <2>1 DEF IInv, TypeOK, Release, object
<1>9. CountsExact'
  BY <1>4, <1>7 DEF IInv, CountsExact, Release, object
<1>10. PointeeOutlivesOwners' /\ SelfLives'
  BY <1>7 DEF IInv, PointeeOutlivesOwners, SelfLives, Release, object
<1>11. BlockOutlivesUsers'
  <2>1. Owners \subseteq Referrers /\ Dying \subseteq Referrers
    BY DEF Owners, Referrers, Dying
  <2>2. CASE refcount = 1
    <3>1. Referrers' = {} /\ Freeing' = {h} /\ refcount' = 0
      BY <1>4, <1>7, <2>2 DEF IInv, CountsExact, Release
    <3>2. Cardinality(Owners) = 0
      <4>1. Owners = {}
        BY <1>2, <1>7, <2>1, <3>1
      <4>2. QED
        BY <4>1, FS_EmptySet
    <3>3. shared_refcount' = 0 /\ allocated'
      BY <1>3, <3>2 DEF IInv, CountsExact, Release, object
    <3>4. QED
      BY <3>1, <3>3 DEF BlockOutlivesUsers
  <2>3. CASE refcount # 1
    <3>1. Referrers # {h}
      <4>1. SUFFICES ASSUME Referrers = {h} PROVE FALSE
        OBVIOUS
      <4>2. self
        BY <1>4, <2>3, <4>1 DEF IInv, CountsExact
      <4>3. Owners # {} \/ Dying # {}
        BY <4>2 DEF IInv, TypeOK, SelfLives, PointeeOutlivesOwners
      <4>4. QED
        BY <1>2, <2>1, <4>1, <4>3
    <3>2. Referrers' # {} /\ Freeing' = {}
      BY <1>2, <1>7, <2>3, <3>1
    <3>3. QED
      BY <1>3, <3>2 DEF BlockOutlivesUsers, Release, object
  <2>4. QED
    BY <2>2, <2>3
<1>12. SourceStays'
  BY <1>6, SourcesStay DEF Release
<1>13. QED
  BY <1>8, <1>9, <1>10, <1>11, <1>12 DEF IInv

\* The block goes when nobody refers to it.
LEMMA DestroyMeKeeps ==
  ASSUME IInv, NEW h \in Pointers, DestroyMe(h)
  PROVE  IInv'
<1>1. at[h] = "freeing" /\ at' = [at EXCEPT ![h] = "null"] /\ "null" \in Places
  BY DEF DestroyMe, Goto, Places
<1>2. h \notin Owners /\ h \notin Referrers /\ h \notin Dying /\ h \in Freeing
  BY <1>1 DEF Owners, Referrers, Dying, Freeing
<1>3. Referrers = {} /\ Freeing = {h}
  BY <1>2 DEF IInv, BlockOutlivesUsers
<1>4. Owners' = Owners /\ Referrers' = {} /\ Dying' = Dying /\ Freeing' = {}
  <2>1. /\ Owners' = Owners \ {h} /\ Referrers' = Referrers \ {h}
        /\ Dying' = Dying \ {h} /\ Freeing' = Freeing \ {h}
    BY <1>1, Moves DEF IInv
  <2>2. QED
    BY <1>2, <1>3, <2>1
<1>5. TypeOK'
  BY <1>1 DEF IInv, TypeOK, DestroyMe, counts
<1>6. CountsExact' /\ PointeeOutlivesOwners' /\ SelfLives'
  BY <1>3, <1>4 DEF IInv, CountsExact, PointeeOutlivesOwners, SelfLives, DestroyMe, counts
<1>7. BlockOutlivesUsers'
  BY <1>4 DEF BlockOutlivesUsers, DestroyMe
<1>8. SourceStays'
  BY <1>1 DEF IInv, SourceStays, TypeOK, DestroyMe
<1>9. QED
  BY <1>5, <1>6, <1>7, <1>8 DEF IInv

\* Two pointers trade places in a set.
LEMMA Trades ==
  ASSUME NEW S \in SUBSET Pointers, NEW T \in SUBSET Pointers,
         NEW g \in Pointers, NEW h \in Pointers, g # h,
         \A k \in Pointers \ {g, h} : k \in T <=> k \in S,
         g \in T <=> h \in S, h \in T <=> g \in S
  PROVE  Cardinality(T) = Cardinality(S) /\ (T = {} <=> S = {})
<1>1. ASSUME NEW x \in S, NEW y \in Pointers \ S
      PROVE  Cardinality((S \ {x}) \cup {y}) = Cardinality(S)
  <2>1. Cardinality(S \ {x}) = Cardinality(S) - 1
    BY Shrinks
  <2>2. Cardinality((S \ {x}) \cup {y}) = Cardinality(S \ {x}) + 1
    BY Grows
  <2>3. QED
    BY <2>1, <2>2, Counted
<1>2. CASE g \in S /\ h \notin S
  <2>1. T = (S \ {g}) \cup {h}
    BY <1>2
  <2>2. QED
    BY <1>1, <1>2, <2>1
<1>3. CASE h \in S /\ g \notin S
  <2>1. T = (S \ {h}) \cup {g}
    BY <1>3
  <2>2. QED
    BY <1>1, <1>3, <2>1
<1>4. CASE g \in S <=> h \in S
  <2>1. T = S
    BY <1>4
  <2>2. QED
    BY <2>1
<1>5. QED
  BY <1>2, <1>3, <1>4

\* A move or a swap changes no set but by renaming.
LEMMA RenamingKeeps ==
  ASSUME IInv, TypeOK', NEW g \in Pointers, NEW h \in Pointers, g # h,
         at[g] \in {"strong", "weak"}, at[h] \in {"null", "strong", "weak"},
         \A k \in Pointers \ {g, h} : at'[k] = at[k],
         at'[g] = at[h],
         at'[h] = at[g] \/ (at[g] = "weak" /\ at'[h] = "converting"),
         Free(g), at[h] = "null" \/ Free(h), UNCHANGED <<counts, object, source>>
  PROVE  IInv'
<1>1. Dying' = Dying /\ Freeing' = Freeing
  BY DEF Dying, Freeing
<1>2. Cardinality(Owners') = Cardinality(Owners) /\ (Owners' = {} <=> Owners = {})
  <2>1. /\ Owners \in SUBSET Pointers /\ Owners' \in SUBSET Pointers
        /\ \A k \in Pointers \ {g, h} : k \in Owners' <=> k \in Owners
        /\ g \in Owners' <=> h \in Owners
        /\ h \in Owners' <=> g \in Owners
    BY DEF Owners
  <2>2. QED
    BY <2>1, Trades
<1>3. Cardinality(Referrers') = Cardinality(Referrers) /\ (Referrers' = {} <=> Referrers = {})
  <2>1. /\ Referrers \in SUBSET Pointers /\ Referrers' \in SUBSET Pointers
        /\ \A k \in Pointers \ {g, h} : k \in Referrers' <=> k \in Referrers
        /\ g \in Referrers' <=> h \in Referrers
        /\ h \in Referrers' <=> g \in Referrers
    BY DEF Referrers
  <2>2. QED
    BY <2>1, Trades
<1>4. CountsExact' /\ PointeeOutlivesOwners' /\ SelfLives'
  BY <1>1, <1>2, <1>3
     DEF IInv, CountsExact, PointeeOutlivesOwners, SelfLives, counts, object
<1>5. BlockOutlivesUsers'
  BY <1>1, <1>3 DEF IInv, BlockOutlivesUsers, counts, object
<1>6. SourceStays'
  BY DEF IInv, SourceStays, Free
<1>7. QED
  BY <1>4, <1>5, <1>6 DEF IInv

LEMMA SwapKeeps ==
  ASSUME IInv, NEW g \in Pointers, NEW h \in Pointers, Swap(g, h)
  PROVE  IInv'
<1>1. /\ g # h /\ at'[g] = at[h] /\ at'[h] = at[g]
      /\ \A k \in Pointers \ {g, h} : at'[k] = at[k]
      /\ at[g] \in {"strong", "weak"} /\ at[h] \in {"null", "strong", "weak"}
  BY DEF IInv, TypeOK, Swap
<1>2. TypeOK'
  BY DEF IInv, TypeOK, Swap, counts, object
<1>3. QED
  BY <1>1, <1>2, RenamingKeeps DEF Swap

LEMMA MoveConvertKeeps ==
  ASSUME IInv, NEW h \in Pointers, NEW g \in Pointers, MoveConvert(h, g)
  PROVE  IInv'
<1>1. /\ g # h /\ at'[g] = at[h] /\ at'[h] = "converting"
      /\ \A k \in Pointers \ {g, h} : at'[k] = at[k]
  BY DEF IInv, TypeOK, MoveConvert
<1>2. TypeOK'
  BY DEF IInv, TypeOK, Places, MoveConvert, counts, object
<1>3. QED
  BY <1>1, <1>2, RenamingKeeps DEF MoveConvert

\* The invariant holds at first: one owner, and perhaps the object's own
\* reference.
LEMMA InitHolds == Init => IInv
<1> SUFFICES ASSUME Init PROVE IInv
  OBVIOUS
<1>1. PICK first \in Pointers :
        at = [h \in Pointers |-> IF h = first THEN "strong" ELSE "null"]
  BY DEF Init
<1>2. Owners = {first} /\ Referrers = {first} /\ Dying = {} /\ Freeing = {}
  BY <1>1 DEF Owners, Referrers, Dying, Freeing
<1>3. Cardinality({first}) = 1
  BY FS_Singleton
<1>4. TypeOK
  BY <1>1 DEF Init, TypeOK, Places
<1>5. CountsExact /\ PointeeOutlivesOwners /\ BlockOutlivesUsers
  BY <1>2, <1>3 DEF Init, CountsExact, PointeeOutlivesOwners, BlockOutlivesUsers
<1>6. SourceStays /\ SelfLives
  BY <1>1 DEF Init, SourceStays, SelfLives
<1>7. QED
  BY <1>4, <1>5, <1>6 DEF IInv

LEMMA StepKeeps == IInv /\ [Next]_vars => IInv'
<1> SUFFICES ASSUME IInv, [Next]_vars PROVE IInv'
  OBVIOUS
<1>1. TypeOK
  BY DEF IInv
<1>2. ASSUME NEW h \in Pointers, NEW g \in Pointers, CopyBegin(h, g) PROVE IInv'
  BY <1>1, <1>2, AcquireKeeps DEF CopyBegin, TypeOK
<1>3. ASSUME NEW h \in Pointers, NEW g \in Pointers, CopyWeak(h, g) PROVE IInv'
  BY <1>1, <1>3, AcquireKeeps DEF CopyWeak, TypeOK
<1>4. ASSUME NEW h \in Pointers, NEW g \in Pointers, LockBegin(h, g) PROVE IInv'
  BY <1>1, <1>4, AcquireKeeps DEF LockBegin, TypeOK
<1>5. ASSUME NEW h \in Pointers, NEW g \in Pointers, ConvertBegin(h, g) PROVE IInv'
  BY <1>1, <1>5, AcquireKeeps DEF ConvertBegin, TypeOK
<1>6. ASSUME NEW h \in Pointers, TryAgain(h) PROVE IInv'
  <2>1. at' = [at EXCEPT ![h] = at[h]]
    BY <1>1, <1>6 DEF TryAgain, TypeOK
  <2>2. shared_refcount \in Nat \ {0}
    BY <1>1, <1>6 DEF TryAgain, TypeOK
  <2>3. QED
    BY <1>1, <1>6, <2>1, <2>2, QuietKeeps DEF TryAgain, TypeOK
<1>7. ASSUME NEW h \in Pointers, TryRefused(h) PROVE IInv'
  <2>1. PICK to \in {"released", "weak"} : at' = [at EXCEPT ![h] = to]
    BY <1>7 DEF TryRefused
  <2>2. /\ at[h] \in {"locking", "converting"} /\ UNCHANGED <<counts, object>>
        /\ source' \in [Pointers -> Pointers \cup {None}]
        /\ expect' \in [Pointers -> Nat \ {0}]
        /\ \A k \in Pointers \ {h} : source'[k] = source[k]
    BY <1>1, <1>7 DEF TryRefused, LoopEnds, TypeOK, counts, object
  <2>3. QED
    BY <1>1, <2>1, <2>2, QuietKeeps
<1>8. CASE UNCHANGED vars
  BY <1>8 DEF vars, counts, object, IInv, TypeOK, CountsExact, PointeeOutlivesOwners,
       BlockOutlivesUsers, SourceStays, SelfLives, Owners, Referrers, Dying, Freeing
<1>9. QED
  BY <1>2, <1>3, <1>4, <1>5, <1>6, <1>7, <1>8, CopyEndKeeps, TryAcquireKeeps,
     ReleaseSharedKeeps, DestructorKeeps, ReleaseKeeps, DestroyMeKeeps, SwapKeeps,
     MoveConvertKeeps DEF Next

LEMMA Invariance == Spec => []IInv
  BY InitHolds, StepKeeps, PTL DEF Spec

\* Every reachable state is well typed: neither count is ever negative.
THEOREM WellTyped == Spec => []TypeOK
<1>1. IInv => TypeOK
  BY DEF IInv
<1>2. QED
  BY <1>1, Invariance, PTL

\* Both counts are exact, for any number of pointers.
THEOREM ExactCounts == Spec => []CountsExact
<1>1. IInv => CountsExact
  BY DEF IInv
<1>2. QED
  BY <1>1, Invariance, PTL

\* "Invariant: 0 <= shared_refcount_ <= refcount_" (shared_ptr_ownership.h:21):
\* shared_ptr's destructor lowers the first, its copy raises the second first.
THEOREM DocumentedInvariant == Spec => [](0 <= shared_refcount /\ shared_refcount <= refcount)
<1>1. IInv => 0 <= shared_refcount /\ shared_refcount <= refcount
  <2> SUFFICES ASSUME IInv PROVE 0 <= shared_refcount /\ shared_refcount <= refcount
    OBVIOUS
  <2>1. Cardinality(Owners) <= Cardinality(Referrers)
    BY OwnersRefer DEF IInv
  <2>2. Cardinality(Owners) \in Nat /\ Cardinality(Referrers) \in Nat
    BY Counted DEF Owners, Referrers
  <2>3. QED
    BY <2>1, <2>2 DEF IInv, CountsExact
<1>2. QED
  BY <1>1, Invariance, PTL

\* The object lives exactly as long as its owners and is destroyed by one of
\* them.
THEOREM PointeeLives == Spec => []PointeeOutlivesOwners
<1>1. IInv => PointeeOutlivesOwners
  BY DEF IInv
<1>2. QED
  BY <1>1, Invariance, PTL

\* The block is not used after it was deleted, and not forgotten.
THEOREM BlockLives == Spec => []BlockOutlivesUsers
<1>1. IInv => BlockOutlivesUsers
  BY DEF IInv
<1>2. QED
  BY <1>1, Invariance, PTL
=============================================================================
