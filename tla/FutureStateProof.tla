-------------------------- MODULE FutureStateProof --------------------------
(***************************************************************************)
(* Proofs about the object that promises and futures share, for any finite *)
(* set of threads: its life (the reference count, and nobody in a call     *)
(* once it is gone) and its contents (one writer, one outcome).            *)
(***************************************************************************)
EXTENDS FutureState, FiniteSetTheorems, TLAPS

\* Every thread in a call of the object has the handle it makes the call on.
Calls ==
  /\ kind = "deferred" => ~ promise
  /\ \A p \in Threads :
       /\ pc[p] \in {"wait", "use", "invoke"} => handle[p] # "none"
       /\ pc[p] = "invoke" => kind = "deferred"
       /\ pc[p] \in {"lock", "check", "publish", "unlock"} =>
            IF kind = "promise" THEN promise ELSE handle[p] # "none"
       /\ pc[p] = "acquire" => promise /\ handle[p] = "none"

\* The object goes once, after the count has reached zero.
Lives ==
  /\ refcnt > 0 => alive
  /\ \A p, q \in Destroying : p = q
  /\ Destroying # {} <=> (alive /\ refcnt = 0)

\* One writer at a time, and it alone finds storage_ ahead of state_.
Contents ==
  /\ \A p, q \in Writing : p = q
  /\ Writing # {} => lck
  /\ \A p \in Threads :
       pc[p] = "publish" => state = "uninitialized" /\ stored = job[p].out
  /\ (\A p \in Threads : pc[p] # "publish") =>
       (state \in {"uninitialized", "uninitialized_deferred"} => stored = "none")
  /\ alive => \A o \in Outcomes : state \in {Ready(o), Initialized(o)} => stored = o
  /\ ~ alive => stored = "none"

\* A deferred function that nobody has claimed has not run.
Claims ==
  /\ runs <= 1
  /\ state = "uninitialized_deferred" => kind = "deferred" /\ runs = 0

IInv ==
  /\ TypeOK
  /\ RefcntExact
  /\ Calls
  /\ Lives
  /\ Contents
  /\ Claims

\* A subset of the threads has a cardinality, zero for the empty set alone.
LEMMA Counted ==
  ASSUME NEW S \in SUBSET Threads
  PROVE  /\ IsFiniteSet(S) /\ Cardinality(S) \in Nat
         /\ Cardinality(S) = 0 <=> S = {}
  BY FS_Subset, FS_CardinalityType, FS_EmptySet, ThreadsAssumption

LEMMA Grows ==
  ASSUME NEW S \in SUBSET Threads, NEW x \in Threads, x \notin S
  PROVE  Cardinality(S \cup {x}) = Cardinality(S) + 1
  BY Counted, FS_AddElement

LEMMA Shrinks ==
  ASSUME NEW S \in SUBSET Threads, NEW x \in S
  PROVE  Cardinality(S \ {x}) = Cardinality(S) - 1
  BY Counted, FS_RemoveElement

\* Once the count is zero nothing refers to the object and nobody calls it.
LEMMA Unreferenced ==
  ASSUME TypeOK, RefcntExact, Calls, refcnt = 0
  PROVE  /\ ~ promise
         /\ \A p \in Threads : handle[p] = "none" /\ pc[p] \in {"idle", "destroy"}
<1>1. HasHandle \in SUBSET Threads /\ Releasing \in SUBSET Threads
  BY DEF HasHandle, Releasing
<1>2. Cardinality(HasHandle) \in Nat /\ Cardinality(Releasing) \in Nat
  BY <1>1, Counted
<1>3. ~ promise /\ Cardinality(HasHandle) = 0 /\ Cardinality(Releasing) = 0
  BY <1>2 DEF RefcntExact
<1>4. HasHandle = {} /\ Releasing = {}
  BY <1>1, <1>3, Counted
<1>5. \A p \in Threads : handle[p] = "none" /\ pc[p] # "release"
  BY <1>4 DEF HasHandle, Releasing
<1>6. \A p \in Threads : pc[p] \in PCs
  BY DEF TypeOK
<1>7. kind \in {"promise", "deferred"}
  BY DEF TypeOK
<1>8. QED
  BY <1>3, <1>5, <1>6, <1>7 DEF Calls, PCs

LEMMA InitHolds == Init => IInv
<1> SUFFICES ASSUME Init PROVE IInv
  OBVIOUS
<1>1. TypeOK
  <2>1. NoJob \in Jobs
    BY DEF NoJob, Jobs, Outcomes
  <2>2. pc \in [Threads -> PCs] /\ job \in [Threads -> Jobs]
    BY <2>1 DEF Init, PCs
  <2>3. QED
    BY <2>2 DEF Init, TypeOK, States, Outcomes
<1>2. Releasing = {} /\ Destroying = {} /\ Writing = {}
  BY DEF Init, Releasing, Destroying, Writing
<1>3. Cardinality(Releasing) = 0
  BY <1>2, FS_EmptySet
<1>4. RefcntExact
  <2>1. CASE promise
    <3>1. HasHandle = {}
      BY <2>1 DEF Init, HasHandle
    <3>2. QED
      BY <1>3, <2>1, <3>1, FS_EmptySet DEF Init, RefcntExact
  <2>2. CASE ~ promise
    <3>1. PICK o \in Threads :
            handle = [p \in Threads |-> IF p = o THEN "future" ELSE "none"]
      BY <2>2 DEF Init
    <3>2. HasHandle = {o}
      BY <3>1 DEF HasHandle
    <3>3. Cardinality(HasHandle) = 1
      BY <3>2, FS_Singleton
    <3>4. QED
      BY <1>3, <2>2, <3>3 DEF Init, RefcntExact
  <2>3. QED
    BY <2>1, <2>2
<1>5. Calls
  BY DEF Init, Calls
<1>6. Lives
  BY <1>2 DEF Init, Lives
<1>7. Contents
  BY <1>2 DEF Init, Contents, Ready, Initialized, Outcomes
<1>8. Claims
  BY DEF Init, Claims
<1>9. QED
  BY <1>1, <1>4, <1>5, <1>6, <1>7, <1>8 DEF IInv

\* Whoever has a handle or is about to release one keeps the count above zero.
LEMMA Referenced ==
  ASSUME IInv, promise \/ \E p \in Threads : handle[p] # "none" \/ pc[p] = "release"
  PROVE  refcnt > 0
  BY Unreferenced DEF IInv, TypeOK

\* Every step keeps the types.
LEMMA TypeStep == ASSUME IInv, [Next]_vars PROVE TypeOK'
<1> USE DEF Goto, Object, Rest, object, IInv, TypeOK, PCs, States, Jobs,
    Outcomes, Ready, Initialized, NoJob
<1>1. CASE UNCHANGED vars
  BY <1>1 DEF vars, object
<1>2. ASSUME NEW p \in Threads, GetFuture(p) PROVE TypeOK'
  BY <1>2 DEF GetFuture
<1>3. ASSUME NEW p \in Threads, Acquire(p) PROVE TypeOK'
  BY <1>3 DEF Acquire
<1>4. ASSUME NEW p \in Threads, Share(p) PROVE TypeOK'
  BY <1>4 DEF Share
<1>5. ASSUME NEW p \in Threads, Copy(p) PROVE TypeOK'
  BY <1>5 DEF Copy
<1>6. ASSUME NEW p \in Threads, Drop(p) PROVE TypeOK'
  BY <1>6 DEF Drop
<1>7. ASSUME NEW p \in Threads, DropPromise(p) PROVE TypeOK'
  BY <1>7 DEF DropPromise
<1>8. ASSUME NEW p \in Threads, Release(p) PROVE TypeOK'
  BY <1>8, Referenced DEF Release
<1>9. ASSUME NEW p \in Threads, Destroy(p) PROVE TypeOK'
  BY <1>9 DEF Destroy
<1>10. ASSUME NEW p \in Threads, SetBegin(p) PROVE TypeOK'
  BY <1>10 DEF SetBegin
<1>11. ASSUME NEW p \in Threads, Lock(p) PROVE TypeOK'
  BY <1>11 DEF Lock
<1>12. ASSUME NEW p \in Threads, Check(p) PROVE TypeOK'
  BY <1>12 DEF Check
<1>13. ASSUME NEW p \in Threads, ConstructThrows(p) PROVE TypeOK'
  BY <1>13 DEF ConstructThrows
<1>14. ASSUME NEW p \in Threads, Publish(p) PROVE TypeOK'
  BY <1>14 DEF Publish
<1>15. ASSUME NEW p \in Threads, Unlock(p) PROVE TypeOK'
  BY <1>15 DEF Unlock
<1>16. ASSUME NEW p \in Threads, Wait(p) PROVE TypeOK'
  BY <1>16 DEF Wait
<1>17. ASSUME NEW p \in Threads, Invoke(p) PROVE TypeOK'
  BY <1>17 DEF Invoke
<1>18. ASSUME NEW p \in Threads, WaitEnds(p) PROVE TypeOK'
  BY <1>18 DEF WaitEnds
<1>19. ASSUME NEW p \in Threads, Used(p) PROVE TypeOK'
  BY <1>19 DEF Used
<1>20. ASSUME NEW p \in Threads, GetValue(p) PROVE TypeOK'
  BY <1>20 DEF GetValue
<1>21. QED
  BY <1>1, <1>2, <1>3, <1>4, <1>5, <1>6, <1>7, <1>8, <1>9, <1>10, <1>11,
     <1>12, <1>13, <1>14, <1>15, <1>16, <1>17, <1>18, <1>19, <1>20
     DEF Next, Continue

\* A handle is given up between calls, and the promise when no call is left.
LEMMA CallsStep == ASSUME IInv, [Next]_vars PROVE Calls'
<1> USE DEF Goto, Object, Rest, object, IInv, TypeOK, Calls, Claims, InPromise
<1>1. CASE UNCHANGED vars
  BY <1>1 DEF vars, object
<1>2. ASSUME NEW p \in Threads, GetFuture(p) PROVE Calls'
  BY <1>2 DEF GetFuture
<1>3. ASSUME NEW p \in Threads, Acquire(p) PROVE Calls'
  BY <1>3 DEF Acquire
<1>4. ASSUME NEW p \in Threads, Share(p) PROVE Calls'
  BY <1>4 DEF Share
<1>5. ASSUME NEW p \in Threads, Copy(p) PROVE Calls'
  BY <1>5 DEF Copy
<1>6. ASSUME NEW p \in Threads, Drop(p) PROVE Calls'
  BY <1>6 DEF Drop
<1>7. ASSUME NEW p \in Threads, DropPromise(p) PROVE Calls'
  BY <1>7 DEF DropPromise
<1>8. ASSUME NEW p \in Threads, Release(p) PROVE Calls'
  BY <1>8 DEF Release
<1>9. ASSUME NEW p \in Threads, Destroy(p) PROVE Calls'
  BY <1>9 DEF Destroy
<1>10. ASSUME NEW p \in Threads, SetBegin(p) PROVE Calls'
  BY <1>10 DEF SetBegin
<1>11. ASSUME NEW p \in Threads, Lock(p) PROVE Calls'
  BY <1>11 DEF Lock
<1>12. ASSUME NEW p \in Threads, Check(p) PROVE Calls'
  BY <1>12 DEF Check
<1>13. ASSUME NEW p \in Threads, ConstructThrows(p) PROVE Calls'
  BY <1>13 DEF ConstructThrows
<1>14. ASSUME NEW p \in Threads, Publish(p) PROVE Calls'
  BY <1>14 DEF Publish
<1>15. ASSUME NEW p \in Threads, Unlock(p) PROVE Calls'
  BY <1>15 DEF Unlock
<1>16. ASSUME NEW p \in Threads, Wait(p) PROVE Calls'
  BY <1>16 DEF Wait
<1>17. ASSUME NEW p \in Threads, Invoke(p) PROVE Calls'
  BY <1>17 DEF Invoke
<1>18. ASSUME NEW p \in Threads, WaitEnds(p) PROVE Calls'
  BY <1>18 DEF WaitEnds
<1>19. ASSUME NEW p \in Threads, Used(p) PROVE Calls'
  BY <1>19 DEF Used
<1>20. ASSUME NEW p \in Threads, GetValue(p) PROVE Calls'
  BY <1>20 DEF GetValue
<1>21. QED
  BY <1>1, <1>2, <1>3, <1>4, <1>5, <1>6, <1>7, <1>8, <1>9, <1>10, <1>11,
     <1>12, <1>13, <1>14, <1>15, <1>16, <1>17, <1>18, <1>19, <1>20
     DEF Next, Continue

\* The compare-and-swap of start_deferred() claims the function once.
LEMMA ClaimsStep == ASSUME IInv, [Next]_vars PROVE Claims'
<1> USE DEF Goto, Object, Rest, object, IInv, TypeOK, Claims, Ready,
    Initialized
<1>1. CASE UNCHANGED vars
  BY <1>1 DEF vars, object
<1>2. ASSUME NEW p \in Threads, GetFuture(p) PROVE Claims'
  BY <1>2 DEF GetFuture
<1>3. ASSUME NEW p \in Threads, Acquire(p) PROVE Claims'
  BY <1>3 DEF Acquire
<1>4. ASSUME NEW p \in Threads, Share(p) PROVE Claims'
  BY <1>4 DEF Share
<1>5. ASSUME NEW p \in Threads, Copy(p) PROVE Claims'
  BY <1>5 DEF Copy
<1>6. ASSUME NEW p \in Threads, Drop(p) PROVE Claims'
  BY <1>6 DEF Drop
<1>7. ASSUME NEW p \in Threads, DropPromise(p) PROVE Claims'
  BY <1>7 DEF DropPromise
<1>8. ASSUME NEW p \in Threads, Release(p) PROVE Claims'
  BY <1>8 DEF Release
<1>9. ASSUME NEW p \in Threads, Destroy(p) PROVE Claims'
  BY <1>9 DEF Destroy
<1>10. ASSUME NEW p \in Threads, SetBegin(p) PROVE Claims'
  BY <1>10 DEF SetBegin
<1>11. ASSUME NEW p \in Threads, Lock(p) PROVE Claims'
  BY <1>11 DEF Lock
<1>12. ASSUME NEW p \in Threads, Check(p) PROVE Claims'
  BY <1>12 DEF Check
<1>13. ASSUME NEW p \in Threads, ConstructThrows(p) PROVE Claims'
  BY <1>13 DEF ConstructThrows
<1>14. ASSUME NEW p \in Threads, Publish(p) PROVE Claims'
  BY <1>14 DEF Publish
<1>15. ASSUME NEW p \in Threads, Unlock(p) PROVE Claims'
  BY <1>15 DEF Unlock
<1>16. ASSUME NEW p \in Threads, Wait(p) PROVE Claims'
  BY <1>16 DEF Wait
<1>17. ASSUME NEW p \in Threads, Invoke(p) PROVE Claims'
  BY <1>17 DEF Invoke
<1>18. ASSUME NEW p \in Threads, WaitEnds(p) PROVE Claims'
  BY <1>18 DEF WaitEnds
<1>19. ASSUME NEW p \in Threads, Used(p) PROVE Claims'
  BY <1>19 DEF Used
<1>20. ASSUME NEW p \in Threads, GetValue(p) PROVE Claims'
  BY <1>20 DEF GetValue
<1>21. QED
  BY <1>1, <1>2, <1>3, <1>4, <1>5, <1>6, <1>7, <1>8, <1>9, <1>10, <1>11,
     <1>12, <1>13, <1>14, <1>15, <1>16, <1>17, <1>18, <1>19, <1>20
     DEF Next, Continue

\* What a step does to the two sets that are counted, when it moves a thread
\* or changes its handle.
LEMMA Moved ==
  ASSUME TypeOK, NEW p \in Threads, NEW to, pc' = [pc EXCEPT ![p] = to]
  PROVE  /\ Releasing' = IF to = "release" THEN Releasing \cup {p} ELSE Releasing \ {p}
         /\ Destroying' = IF to = "destroy" THEN Destroying \cup {p} ELSE Destroying \ {p}
<1>1. pc'[p] = to /\ \A q \in Threads \ {p} : pc'[q] = pc[q]
  BY DEF TypeOK
<1>2. QED
  BY <1>1 DEF Releasing, Destroying

LEMMA Handed ==
  ASSUME TypeOK, NEW p \in Threads, NEW h, handle' = [handle EXCEPT ![p] = h]
  PROVE  HasHandle' = IF h = "none" THEN HasHandle \ {p} ELSE HasHandle \cup {p}
<1>1. handle'[p] = h /\ \A q \in Threads \ {p} : handle'[q] = handle[q]
  BY DEF TypeOK
<1>2. QED
  BY <1>1 DEF HasHandle

\* A step that takes no handle and gives none up.
LEMMA QuietKeeps ==
  ASSUME RefcntExact, HasHandle' = HasHandle, Releasing' = Releasing,
         UNCHANGED <<refcnt, promise>>
  PROVE  RefcntExact'
  BY DEF RefcntExact

\* A step of one thread between calls that are not release().
LEMMA InsideKeeps ==
  ASSUME IInv, NEW p \in Threads, NEW to \in PCs \ {"release"}, pc[p] # "release",
         pc' = [pc EXCEPT ![p] = to], UNCHANGED <<refcnt, promise, handle>>
  PROVE  RefcntExact'
<1>1. HasHandle' = HasHandle
  BY DEF HasHandle
<1>2. Releasing' = Releasing \ {p} /\ p \notin Releasing
  BY Moved DEF Releasing, IInv
<1>3. QED
  BY <1>1, <1>2, QuietKeeps DEF IInv

\* Handle and reference are taken together; a handle is given up for a release.
LEMMA TakeKeeps ==
  ASSUME IInv, NEW p \in Threads, handle[p] = "none",
         NEW h, h # "none", handle' = [handle EXCEPT ![p] = h],
         refcnt' = refcnt + 1, Releasing' = Releasing, UNCHANGED promise
  PROVE  RefcntExact'
<1>1. HasHandle' = HasHandle \cup {p} /\ p \notin HasHandle
  BY Handed DEF HasHandle, IInv
<1>2. Cardinality(HasHandle') = Cardinality(HasHandle) + 1
  BY <1>1, Grows DEF HasHandle
<1>3. Cardinality(HasHandle) \in Nat /\ Cardinality(Releasing) \in Nat
  BY Counted DEF HasHandle, Releasing
<1>4. QED
  BY <1>2, <1>3 DEF RefcntExact, IInv

LEMMA GiveUpKeeps ==
  ASSUME IInv, NEW p \in Threads, handle[p] # "none", pc[p] # "release",
         pc' = [pc EXCEPT ![p] = "release"],
         handle' = [handle EXCEPT ![p] = "none"], UNCHANGED <<refcnt, promise>>
  PROVE  RefcntExact'
<1>1. HasHandle' = HasHandle \ {p} /\ p \in HasHandle
  BY Handed DEF HasHandle, IInv
<1>2. Releasing' = Releasing \cup {p} /\ p \notin Releasing
  BY Moved DEF Releasing, IInv
<1>3. /\ Cardinality(HasHandle') = Cardinality(HasHandle) - 1
      /\ Cardinality(Releasing') = Cardinality(Releasing) + 1
  BY <1>1, <1>2, Grows, Shrinks DEF HasHandle, Releasing
<1>4. Cardinality(HasHandle) \in Nat /\ Cardinality(Releasing) \in Nat
  BY Counted DEF HasHandle, Releasing
<1>5. QED
  BY <1>3, <1>4 DEF RefcntExact, IInv

\* The count follows the handles.
LEMMA CountStep == ASSUME IInv, [Next]_vars PROVE RefcntExact'
<1> USE DEF Goto, Object, Rest, object, IInv, PCs
<1>1. CASE UNCHANGED vars
  BY <1>1, QuietKeeps DEF vars, object, HasHandle, Releasing
<1>2. ASSUME NEW p \in Threads, GetFuture(p) PROVE RefcntExact'
  BY <1>2, InsideKeeps DEF GetFuture
<1>3. ASSUME NEW p \in Threads, Acquire(p) PROVE RefcntExact'
  <2>1. Releasing' = Releasing \ {p} /\ p \notin Releasing
    BY <1>3, Moved DEF Acquire, Releasing
  <2>2. handle[p] = "none"
    BY <1>3 DEF Acquire, Calls
  <2>3. QED
    BY <1>3, <2>1, <2>2, TakeKeeps DEF Acquire
<1>4. ASSUME NEW p \in Threads, Share(p) PROVE RefcntExact'
  <2>1. handle' = [handle EXCEPT ![p] = "shared"] /\ p \in HasHandle
    BY <1>4 DEF Share, HasHandle
  <2>2. HasHandle' = HasHandle \cup {p}
    BY <2>1, Handed, "shared" # "none"
  <2>3. HasHandle' = HasHandle
    BY <2>1, <2>2
  <2>4. QED
    BY <1>4, <2>3, QuietKeeps DEF Share, Releasing
<1>5. ASSUME NEW p \in Threads, Copy(p) PROVE RefcntExact'
  BY <1>5, TakeKeeps DEF Copy, Releasing
<1>6. ASSUME NEW p \in Threads, Drop(p) PROVE RefcntExact'
  BY <1>6, GiveUpKeeps DEF Drop
<1>7. ASSUME NEW p \in Threads, DropPromise(p) PROVE RefcntExact'
  <2>1. Releasing' = Releasing \cup {p} /\ p \notin Releasing
    BY <1>7, Moved DEF DropPromise, Releasing
  <2>2. Cardinality(Releasing') = Cardinality(Releasing) + 1
    BY <2>1, Grows DEF Releasing
  <2>3. Cardinality(HasHandle) \in Nat /\ Cardinality(Releasing) \in Nat
    BY Counted DEF HasHandle, Releasing
  <2>4. HasHandle' = HasHandle
    BY <1>7 DEF DropPromise, HasHandle
  <2>5. QED
    BY <1>7, <2>2, <2>3, <2>4 DEF DropPromise, RefcntExact
<1>8. ASSUME NEW p \in Threads, Release(p) PROVE RefcntExact'
  <2>1. Releasing' = Releasing \ {p} /\ p \in Releasing
    <3>1. PICK to \in {"destroy", "idle"} : pc[p] = "release" /\ pc' = [pc EXCEPT ![p] = to]
      BY <1>8 DEF Release
    <3>2. QED
      BY <3>1, Moved DEF Releasing
  <2>2. Cardinality(Releasing') = Cardinality(Releasing) - 1
    BY <2>1, Shrinks DEF Releasing
  <2>3. Cardinality(HasHandle) \in Nat /\ Cardinality(Releasing) \in Nat
    BY Counted DEF HasHandle, Releasing
  <2>4. HasHandle' = HasHandle
    BY <1>8 DEF Release, HasHandle
  <2>5. QED
    BY <1>8, <2>2, <2>3, <2>4 DEF Release, RefcntExact
<1>9. ASSUME NEW p \in Threads, Destroy(p) PROVE RefcntExact'
  BY <1>9, InsideKeeps DEF Destroy
<1>10. ASSUME NEW p \in Threads, SetBegin(p) PROVE RefcntExact'
  BY <1>10, InsideKeeps DEF SetBegin
<1>11. ASSUME NEW p \in Threads, Lock(p) PROVE RefcntExact'
  BY <1>11, InsideKeeps DEF Lock
<1>12. ASSUME NEW p \in Threads, Check(p) PROVE RefcntExact'
  BY <1>12, InsideKeeps DEF Check
<1>13. ASSUME NEW p \in Threads, ConstructThrows(p) PROVE RefcntExact'
  BY <1>13, InsideKeeps DEF ConstructThrows
<1>14. ASSUME NEW p \in Threads, Publish(p) PROVE RefcntExact'
  BY <1>14, InsideKeeps DEF Publish
<1>15. ASSUME NEW p \in Threads, Unlock(p) PROVE RefcntExact'
  BY <1>15, InsideKeeps DEF Unlock
<1>16. ASSUME NEW p \in Threads, Wait(p) PROVE RefcntExact'
  BY <1>16, InsideKeeps DEF Wait
<1>17. ASSUME NEW p \in Threads, Invoke(p) PROVE RefcntExact'
  BY <1>17, InsideKeeps DEF Invoke
<1>18. ASSUME NEW p \in Threads, WaitEnds(p) PROVE RefcntExact'
  BY <1>18, InsideKeeps DEF WaitEnds
<1>19. ASSUME NEW p \in Threads, Used(p) PROVE RefcntExact'
  BY <1>19, InsideKeeps DEF Used
<1>20. ASSUME NEW p \in Threads, GetValue(p) PROVE RefcntExact'
  BY <1>20, GiveUpKeeps DEF GetValue
<1>21. QED
  BY <1>1, <1>2, <1>3, <1>4, <1>5, <1>6, <1>7, <1>8, <1>9, <1>10, <1>11,
     <1>12, <1>13, <1>14, <1>15, <1>16, <1>17, <1>18, <1>19, <1>20
     DEF Next, Continue

\* A step that neither counts nor destroys.
LEMMA LifeGoesOn ==
  ASSUME IInv, NEW p \in Threads, pc[p] # "destroy",
         \/ UNCHANGED pc
         \/ \E to \in PCs \ {"destroy"} : pc' = [pc EXCEPT ![p] = to],
         refcnt' = refcnt \/ (refcnt' = refcnt + 1 /\ refcnt > 0), UNCHANGED alive
  PROVE  Lives'
<1>1. Destroying' = Destroying
  BY DEF IInv, TypeOK, Destroying
<1>2. refcnt \in Nat
  BY DEF IInv, TypeOK
<1>3. QED
  BY <1>1, <1>2 DEF IInv, Lives

\* The last release() alone destroys the object, and once.
LEMMA LifeStep == ASSUME IInv, [Next]_vars PROVE Lives'
<1> USE DEF Goto, Object, Rest, object, IInv, PCs
<1>1. CASE UNCHANGED vars
  BY <1>1 DEF vars, object, Lives, Destroying
<1>2. ASSUME NEW p \in Threads, GetFuture(p) PROVE Lives'
  BY <1>2, LifeGoesOn DEF GetFuture
<1>3. ASSUME NEW p \in Threads, Acquire(p) PROVE Lives'
  BY <1>3, LifeGoesOn, Referenced DEF Acquire, Calls
<1>4. ASSUME NEW p \in Threads, Share(p) PROVE Lives'
  BY <1>4, LifeGoesOn DEF Share
<1>5. ASSUME NEW p \in Threads, Copy(p) PROVE Lives'
  BY <1>5, LifeGoesOn, Referenced DEF Copy, Calls
<1>6. ASSUME NEW p \in Threads, Drop(p) PROVE Lives'
  BY <1>6, LifeGoesOn DEF Drop
<1>7. ASSUME NEW p \in Threads, DropPromise(p) PROVE Lives'
  BY <1>7, LifeGoesOn DEF DropPromise
<1>8. ASSUME NEW p \in Threads, Release(p) PROVE Lives'
  <2>1. refcnt > 0 /\ Destroying = {}
    BY <1>8, Referenced DEF Release, Lives
  <2>2. refcnt \in Nat
    BY DEF TypeOK
  <2>3. CASE refcnt = 1
    <3>1. Destroying' = {p}
      BY <1>8, <2>1, <2>3, Moved DEF Release
    <3>2. QED
      BY <1>8, <2>1, <2>3, <3>1 DEF Release, Lives
  <2>4. CASE refcnt # 1
    <3>1. pc' = [pc EXCEPT ![p] = "idle"] /\ "idle" # "destroy"
      BY <1>8, <2>4 DEF Release
    <3>2. Destroying' = Destroying \ {p}
      BY <3>1, Moved
    <3>3. QED
      BY <1>8, <2>1, <2>2, <2>4, <3>2 DEF Release, Lives
  <2>5. QED
    BY <2>3, <2>4
<1>9. ASSUME NEW p \in Threads, Destroy(p) PROVE Lives'
  <2>1. Destroying' = Destroying \ {p} /\ p \in Destroying
    BY <1>9, Moved DEF Destroy, Destroying
  <2>2. Destroying' = {} /\ refcnt = 0
    BY <2>1 DEF Lives
  <2>3. QED
    BY <1>9, <2>2 DEF Destroy, Lives
<1>10. ASSUME NEW p \in Threads, SetBegin(p) PROVE Lives'
  BY <1>10, LifeGoesOn DEF SetBegin
<1>11. ASSUME NEW p \in Threads, Lock(p) PROVE Lives'
  BY <1>11, LifeGoesOn DEF Lock
<1>12. ASSUME NEW p \in Threads, Check(p) PROVE Lives'
  BY <1>12, LifeGoesOn DEF Check
<1>13. ASSUME NEW p \in Threads, ConstructThrows(p) PROVE Lives'
  BY <1>13, LifeGoesOn DEF ConstructThrows
<1>14. ASSUME NEW p \in Threads, Publish(p) PROVE Lives'
  BY <1>14, LifeGoesOn DEF Publish
<1>15. ASSUME NEW p \in Threads, Unlock(p) PROVE Lives'
  BY <1>15, LifeGoesOn DEF Unlock
<1>16. ASSUME NEW p \in Threads, Wait(p) PROVE Lives'
  BY <1>16, LifeGoesOn DEF Wait
<1>17. ASSUME NEW p \in Threads, Invoke(p) PROVE Lives'
  BY <1>17, LifeGoesOn DEF Invoke
<1>18. ASSUME NEW p \in Threads, WaitEnds(p) PROVE Lives'
  BY <1>18, LifeGoesOn DEF WaitEnds
<1>19. ASSUME NEW p \in Threads, Used(p) PROVE Lives'
  BY <1>19, LifeGoesOn DEF Used
<1>20. ASSUME NEW p \in Threads, GetValue(p) PROVE Lives'
  BY <1>20, LifeGoesOn DEF GetValue
<1>21. QED
  BY <1>1, <1>2, <1>3, <1>4, <1>5, <1>6, <1>7, <1>8, <1>9, <1>10, <1>11,
     <1>12, <1>13, <1>14, <1>15, <1>16, <1>17, <1>18, <1>19, <1>20
     DEF Next, Continue

\* While a thread is in a call the object is there.
LEMMA InCall ==
  ASSUME IInv, NEW p \in Threads, pc[p] \notin {"idle", "destroy"} PROVE alive
<1>1. refcnt > 0
  BY Unreferenced DEF IInv, TypeOK
<1>2. QED
  BY <1>1 DEF IInv, Lives

\* The outcome is written under lck_ and before state_ says so.
LEMMA ContentsStep == ASSUME IInv, [Next]_vars PROVE Contents'
<1> USE DEF Goto, Object, Rest, object, IInv, TypeOK, Contents, Writing,
    Outcomes, Jobs, Ready, Initialized
<1>1. CASE UNCHANGED vars
  BY <1>1 DEF vars, object
<1>2. ASSUME NEW p \in Threads, GetFuture(p) PROVE Contents'
  BY <1>2 DEF GetFuture
<1>3. ASSUME NEW p \in Threads, Acquire(p) PROVE Contents'
  BY <1>3 DEF Acquire
<1>4. ASSUME NEW p \in Threads, Share(p) PROVE Contents'
  BY <1>4 DEF Share
<1>5. ASSUME NEW p \in Threads, Copy(p) PROVE Contents'
  BY <1>5 DEF Copy
<1>6. ASSUME NEW p \in Threads, Drop(p) PROVE Contents'
  BY <1>6 DEF Drop
<1>7. ASSUME NEW p \in Threads, DropPromise(p) PROVE Contents'
  BY <1>7 DEF DropPromise
<1>8. ASSUME NEW p \in Threads, Release(p) PROVE Contents'
  BY <1>8 DEF Release
<1>9. ASSUME NEW p \in Threads, Destroy(p) PROVE Contents'
  <2>1. alive /\ \A q \in Threads : pc[q] \in {"idle", "destroy"}
    BY <1>9, Unreferenced DEF Destroy, Lives, Destroying
  <2>2. stored' = "none"
    BY <1>9, <2>1 DEF Destroy, States
  <2>3. QED
    BY <1>9, <2>1, <2>2 DEF Destroy
<1>10. ASSUME NEW p \in Threads, SetBegin(p) PROVE Contents'
  BY <1>10 DEF SetBegin
<1>11. ASSUME NEW p \in Threads, Lock(p) PROVE Contents'
  BY <1>11 DEF Lock
<1>12. ASSUME NEW p \in Threads, Check(p) PROVE Contents'
  BY <1>12, InCall DEF Check
<1>13. ASSUME NEW p \in Threads, ConstructThrows(p) PROVE Contents'
  BY <1>13, InCall DEF ConstructThrows
<1>14. ASSUME NEW p \in Threads, Publish(p) PROVE Contents'
  BY <1>14, InCall DEF Publish
<1>15. ASSUME NEW p \in Threads, Unlock(p) PROVE Contents'
  BY <1>15 DEF Unlock
<1>16. ASSUME NEW p \in Threads, Wait(p) PROVE Contents'
  BY <1>16 DEF Wait
<1>17. ASSUME NEW p \in Threads, Invoke(p) PROVE Contents'
  BY <1>17 DEF Invoke
<1>18. ASSUME NEW p \in Threads, WaitEnds(p) PROVE Contents'
  BY <1>18 DEF WaitEnds
<1>19. ASSUME NEW p \in Threads, Used(p) PROVE Contents'
  BY <1>19 DEF Used
<1>20. ASSUME NEW p \in Threads, GetValue(p) PROVE Contents'
  BY <1>20 DEF GetValue
<1>21. QED
  BY <1>1, <1>2, <1>3, <1>4, <1>5, <1>6, <1>7, <1>8, <1>9, <1>10, <1>11,
     <1>12, <1>13, <1>14, <1>15, <1>16, <1>17, <1>18, <1>19, <1>20
     DEF Next, Continue

LEMMA Invariance == Spec => []IInv
<1>1. IInv /\ [Next]_vars => IInv'
  BY TypeStep, CountStep, CallsStep, LifeStep, ContentsStep, ClaimsStep DEF IInv
<1>2. QED
  BY <1>1, InitHolds, PTL DEF Spec

\* Type correctness of the shared object and of the calls on it.
THEOREM WellTyped == Spec => []TypeOK
<1>1. IInv => TypeOK
  BY DEF IInv
<1>2. QED
  BY <1>1, Invariance, PTL

\* refcnt_ is the number of promises and futures that refer to the object.
THEOREM CountCorrect == Spec => []RefcntExact
<1>1. IInv => RefcntExact
  BY DEF IInv
<1>2. QED
  BY <1>1, Invariance, PTL

\* The last release() finds nobody in a call, and one thread destroys.
THEOREM SafeDestruction == Spec => []NoUseAfterDestroy
<1>1. ASSUME IInv, ~ alive \/ Destroying # {} PROVE refcnt = 0
  BY <1>1 DEF IInv, Lives, TypeOK
<1>2. ASSUME IInv, ~ alive \/ Destroying # {}
      PROVE  Cardinality(Destroying) = (IF alive THEN 1 ELSE 0)
  <2>1. CASE Destroying = {}
    BY <1>1, <1>2, <2>1, FS_EmptySet DEF IInv, Lives
  <2>2. CASE Destroying # {}
    <3>1. alive /\ \E p : Destroying = {p}
      BY <2>2, <1>2 DEF IInv, Lives
    <3>2. QED
      BY <3>1, FS_Singleton
  <2>3. QED
    BY <2>1, <2>2
<1>3. IInv => NoUseAfterDestroy
  BY <1>1, <1>2, Unreferenced DEF IInv, NoUseAfterDestroy
<1>4. QED
  BY <1>3, Invariance, PTL

\* A waiter that sees a ready state finds the outcome it names in storage_,
\* and the destructor leaves nothing constructed behind.
THEOREM StorageCorrect == Spec => []StorageMatches
<1>1. ASSUME IInv, alive, IsReady PROVE state = Ready(stored)
  BY <1>1 DEF IInv, Contents, IsReady, Ready, Initialized, Outcomes
<1>2. IInv => StorageMatches
  BY <1>1 DEF IInv, Contents, StorageMatches
<1>3. QED
  BY <1>2, Invariance, PTL

\* At most one of the threads that wait for a deferred function runs it.
THEOREM RunsOnce == Spec => []DeferredOnce
<1>1. IInv => DeferredOnce
  BY DEF IInv, Claims, DeferredOnce
<1>2. QED
  BY <1>1, Invariance, PTL

\* A ready object keeps its outcome until it is destroyed.
LEMMA OutcomeStays == ASSUME IInv, [Next]_vars PROVE ((IsReady /\ alive') => UNCHANGED <<state, stored>>)
<1> USE DEF Goto, Object, Rest, object, IsReady, IInv, Contents
<1>1. CASE UNCHANGED vars
  BY <1>1 DEF vars, object
<1>2. ASSUME NEW p \in Threads, GetFuture(p) PROVE ((IsReady /\ alive') => UNCHANGED <<state, stored>>)
  BY <1>2 DEF GetFuture
<1>3. ASSUME NEW p \in Threads, Acquire(p) PROVE ((IsReady /\ alive') => UNCHANGED <<state, stored>>)
  BY <1>3 DEF Acquire
<1>4. ASSUME NEW p \in Threads, Share(p) PROVE ((IsReady /\ alive') => UNCHANGED <<state, stored>>)
  BY <1>4 DEF Share
<1>5. ASSUME NEW p \in Threads, Copy(p) PROVE ((IsReady /\ alive') => UNCHANGED <<state, stored>>)
  BY <1>5 DEF Copy
<1>6. ASSUME NEW p \in Threads, Drop(p) PROVE ((IsReady /\ alive') => UNCHANGED <<state, stored>>)
  BY <1>6 DEF Drop
<1>7. ASSUME NEW p \in Threads, DropPromise(p) PROVE ((IsReady /\ alive') => UNCHANGED <<state, stored>>)
  BY <1>7 DEF DropPromise
<1>8. ASSUME NEW p \in Threads, Release(p) PROVE ((IsReady /\ alive') => UNCHANGED <<state, stored>>)
  BY <1>8 DEF Release
<1>9. ASSUME NEW p \in Threads, Destroy(p) PROVE ((IsReady /\ alive') => UNCHANGED <<state, stored>>)
  BY <1>9 DEF Destroy
<1>10. ASSUME NEW p \in Threads, SetBegin(p) PROVE ((IsReady /\ alive') => UNCHANGED <<state, stored>>)
  BY <1>10 DEF SetBegin
<1>11. ASSUME NEW p \in Threads, Lock(p) PROVE ((IsReady /\ alive') => UNCHANGED <<state, stored>>)
  BY <1>11 DEF Lock
<1>12. ASSUME NEW p \in Threads, Check(p) PROVE ((IsReady /\ alive') => UNCHANGED <<state, stored>>)
  BY <1>12 DEF Check
<1>13. ASSUME NEW p \in Threads, ConstructThrows(p) PROVE ((IsReady /\ alive') => UNCHANGED <<state, stored>>)
  BY <1>13 DEF ConstructThrows
<1>14. ASSUME NEW p \in Threads, Publish(p) PROVE ((IsReady /\ alive') => UNCHANGED <<state, stored>>)
  BY <1>14 DEF Publish
<1>15. ASSUME NEW p \in Threads, Unlock(p) PROVE ((IsReady /\ alive') => UNCHANGED <<state, stored>>)
  BY <1>15 DEF Unlock
<1>16. ASSUME NEW p \in Threads, Wait(p) PROVE ((IsReady /\ alive') => UNCHANGED <<state, stored>>)
  BY <1>16 DEF Wait
<1>17. ASSUME NEW p \in Threads, Invoke(p) PROVE ((IsReady /\ alive') => UNCHANGED <<state, stored>>)
  BY <1>17 DEF Invoke
<1>18. ASSUME NEW p \in Threads, WaitEnds(p) PROVE ((IsReady /\ alive') => UNCHANGED <<state, stored>>)
  BY <1>18 DEF WaitEnds
<1>19. ASSUME NEW p \in Threads, Used(p) PROVE ((IsReady /\ alive') => UNCHANGED <<state, stored>>)
  BY <1>19 DEF Used
<1>20. ASSUME NEW p \in Threads, GetValue(p) PROVE ((IsReady /\ alive') => UNCHANGED <<state, stored>>)
  BY <1>20 DEF GetValue
<1>21. QED
  BY <1>1, <1>2, <1>3, <1>4, <1>5, <1>6, <1>7, <1>8, <1>9, <1>10, <1>11,
     <1>12, <1>13, <1>14, <1>15, <1>16, <1>17, <1>18, <1>19, <1>20
     DEF Next, Continue

\* The outcome is set once, by whichever writer has lck_ first.
THEOREM OutcomeOnce == Spec => SetOnce
<1>1. IInv /\ [Next]_vars => [(IsReady /\ alive') => UNCHANGED <<state, stored>>]_vars
  BY OutcomeStays
<1>2. QED
  BY <1>1, Invariance, PTL DEF Spec, SetOnce
=============================================================================
