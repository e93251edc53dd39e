--------------------------- MODULE OnceGuardProof ---------------------------
(***************************************************************************)
(* Proofs about std::call_once and the guard functions, for any set of     *)
(* threads.                                                                *)
(***************************************************************************)
EXTENDS OnceGuard, FiniteSetTheorems, TLAPS

\* The lock word is set exactly while somebody is inside, and one is enough.
Exclusive ==
  /\ mtx = 1 <=> InCritical # {}
  /\ \A p, q \in InCritical : p = q

\* How the object, the mark and the thread inside go together: an object that
\* is built is marked, or about to be by the thread that built it.
Stages ==
  /\ MarkMeansBuilt
  /\ object = "built" => mark = 1 \/ \E p \in Threads : pc[p] = "commit"
  /\ \A p \in Threads :
       /\ pc[p] = "run" => object = "partial"
       /\ pc[p] = "commit" => object = "built"
       /\ pc[p] = "abort" => object = "raw"

IInv == TypeOK /\ Exclusive /\ Stages

LEMMA InitHolds == Init => IInv
  BY DEF Init, IInv, TypeOK, PCs, Exclusive, InCritical, Stages, MarkMeansBuilt

\* A thread that is inside and goes on inside is still the only one.
LEMMA StaysInside ==
  ASSUME TypeOK, Exclusive, NEW p \in Threads, NEW to \in PCs \ {"out", "spin"},
         p \in InCritical, pc' = [pc EXCEPT ![p] = to], mtx' = mtx
  PROVE  Exclusive' /\ InCritical' = InCritical
<1>1. InCritical' = InCritical
  BY DEF InCritical, TypeOK
<1>2. QED
  BY <1>1 DEF Exclusive

\* When it leaves and opens the lock nobody is inside.
LEMMA Leaves ==
  ASSUME TypeOK, Exclusive, NEW p \in Threads,
         p \in InCritical, pc' = [pc EXCEPT ![p] = "out"], mtx' = 0
  PROVE  Exclusive' /\ InCritical' = {}
<1>1. InCritical = {p}
  BY DEF Exclusive
<1>2. InCritical' = {}
  BY <1>1 DEF InCritical, TypeOK
<1>3. QED
  BY <1>2 DEF Exclusive

LEMMA StepKeeps == IInv /\ [Next]_vars => IInv'
<1> SUFFICES ASSUME IInv, [Next]_vars PROVE IInv'
  OBVIOUS
<1>1. TypeOK /\ Exclusive /\ Stages
  BY DEF IInv
<1>2. ASSUME NEW p \in Threads, Enter(p) PROVE IInv'
  <2>1. InCritical' = InCritical
    BY <1>1, <1>2 DEF Enter, Goto, InCritical, TypeOK
  <2>2. TypeOK' /\ Exclusive'
    BY <1>1, <1>2, <2>1 DEF Enter, Goto, TypeOK, PCs, Exclusive
  <2>3. Stages'
    BY <1>1, <1>2 DEF Enter, Goto, TypeOK, Stages, MarkMeansBuilt
  <2>4. QED
    BY <2>2, <2>3 DEF IInv
<1>3. ASSUME NEW p \in Threads, Acquire(p) PROVE IInv'
  <2>1. InCritical = {} /\ InCritical' = InCritical \cup {p}
    BY <1>1, <1>3 DEF Acquire, Goto, InCritical, TypeOK, Exclusive
  <2>2. TypeOK' /\ Exclusive'
    BY <1>1, <1>3, <2>1 DEF Acquire, Goto, TypeOK, PCs, Exclusive
  <2>3. Stages'
    BY <1>1, <1>3 DEF Acquire, Goto, TypeOK, Stages, MarkMeansBuilt
  <2>4. QED
    BY <2>2, <2>3 DEF IInv
<1>4. ASSUME NEW p \in Threads, Check(p) PROVE IInv'
  <2>1. pc[p] = "check" /\ p \in InCritical
    BY <1>4 DEF Check, Goto, InCritical
  <2>2. PICK to \in {"skip", "run"} : pc' = [pc EXCEPT ![p] = to]
    BY <1>4 DEF Check, Goto
  <2>3. Exclusive' /\ TypeOK'
    <3>1. to \in PCs \ {"out", "spin"}
      BY DEF PCs
    <3>2. QED
      BY <1>1, <1>4, <2>1, <2>2, <3>1, StaysInside DEF Check, TypeOK
  <2>4. \A q \in Threads \ {p} : pc[q] \notin {"run", "commit", "abort"}
    BY <1>1, <2>1 DEF Exclusive, InCritical
  <2>5. Stages'
    BY <1>1, <1>4, <2>1, <2>4 DEF Check, Goto, TypeOK, Stages, MarkMeansBuilt
  <2>6. QED
    BY <2>3, <2>5 DEF IInv
<1>5. ASSUME NEW p \in Threads, RunReturns(p) \/ RunThrows(p) \/ SetMark(p) PROVE IInv'
  <2>1. pc[p] \in {"run", "commit"} /\ p \in InCritical
    BY <1>5 DEF RunReturns, RunThrows, SetMark, Goto, InCritical
  <2>2. PICK to \in {"commit", "abort", "unlock"} : pc' = [pc EXCEPT ![p] = to]
    BY <1>5 DEF RunReturns, RunThrows, SetMark, Goto
  <2>3. Exclusive' /\ TypeOK'
    <3>1. to \in PCs \ {"out", "spin"}
      BY DEF PCs
    <3>2. QED
      BY <1>1, <1>5, <2>1, <2>2, <3>1, StaysInside DEF RunReturns, RunThrows, SetMark, TypeOK
  <2>4. \A q \in Threads \ {p} : pc[q] \notin {"run", "commit", "abort"}
    BY <1>1, <2>1 DEF Exclusive, InCritical
  <2>5. CASE RunReturns(p)
    BY <1>1, <2>4, <2>5, <2>3 DEF RunReturns, Goto, TypeOK, Stages, MarkMeansBuilt, IInv
  <2>6. CASE RunThrows(p)
    BY <1>1, <2>4, <2>6, <2>3 DEF RunThrows, Goto, TypeOK, Stages, MarkMeansBuilt, IInv
  <2>7. CASE SetMark(p)
    BY <1>1, <2>4, <2>7, <2>3 DEF SetMark, Goto, TypeOK, Stages, MarkMeansBuilt, IInv
  <2>8. QED
    BY <1>5, <2>5, <2>6, <2>7
<1>6. ASSUME NEW p \in Threads, Skip(p) \/ Unlock(p) \/ Abort(p) PROVE IInv'
  <2>1. pc[p] \in {"skip", "unlock", "abort"} /\ p \in InCritical
    BY <1>6 DEF Skip, Unlock, Abort, Goto, InCritical
  <2>2. /\ pc' = [pc EXCEPT ![p] = "out"] /\ mtx' = 0
        /\ UNCHANGED <<mark, object>>
    BY <1>6 DEF Skip, Unlock, Abort, Goto
  <2>3. TypeOK' /\ Exclusive'
    BY <1>1, <2>1, <2>2, Leaves DEF TypeOK, PCs
  <2>4. Stages'
    BY <1>1, <2>1, <2>2 DEF TypeOK, Stages, MarkMeansBuilt
  <2>5. QED
    BY <2>3, <2>4 DEF IInv
<1>7. CASE UNCHANGED vars
  BY <1>7 DEF vars, IInv, TypeOK, Exclusive, InCritical, Stages, MarkMeansBuilt
<1>8. QED
  BY <1>2, <1>3, <1>4, <1>5, <1>6, <1>7 DEF Next, Inside

LEMMA Invariance == Spec => []IInv
  BY InitHolds, StepKeeps, PTL DEF Spec

\* The lock word of the guard counts the threads between the compare-and-swap
\* and the store: at most one, whatever the callable does.
THEOREM Exclusion == Spec => []OneInside
<1>1. IInv => OneInside
  <2> SUFFICES ASSUME IInv PROVE OneInside
    OBVIOUS
  <2>1. CASE mtx = 0
    BY <2>1, FS_EmptySet DEF IInv, TypeOK, Exclusive, OneInside
  <2>2. CASE mtx = 1
    <3>1. PICK p \in InCritical : InCritical = {p}
      BY <2>2 DEF IInv, Exclusive
    <3>2. QED
      BY <2>2, <3>1, FS_Singleton DEF OneInside
  <2>3. QED
    BY <2>1, <2>2 DEF IInv, TypeOK
<1>2. QED
  BY <1>1, Invariance, PTL

\* The unlocked look at the mark is enough: it is set for a finished object
\* only, however often the callable failed before.
THEOREM MarkIsTrusted == Spec => []MarkMeansBuilt
<1>1. IInv => MarkMeansBuilt
  BY DEF IInv, Stages
<1>2. QED
  BY <1>1, Invariance, PTL

\* What was built once is never built again nor undone.
THEOREM BuiltOnce == Spec => BuiltForGood
<1>1. IInv /\ [Next]_vars => [object = "built" => object' = "built"]_vars
  <2> SUFFICES ASSUME IInv, Next, object = "built" PROVE object' = "built"
    BY DEF vars
  <2>1. ASSUME NEW p \in Threads, Check(p) PROVE object' = "built"
    <3>1. CASE mark = 1
      BY <2>1, <3>1 DEF Check
    <3>2. CASE mark # 1
      <4>1. PICK q \in Threads : pc[q] = "commit"
        BY <3>2 DEF IInv, Stages
      <4>2. p \in InCritical /\ q \in InCritical /\ p # q
        BY <2>1, <3>2, <4>1 DEF Check, Goto, InCritical
      <4>3. QED
        BY <4>2 DEF IInv, Exclusive
    <3>3. QED
      BY <3>1, <3>2
  <2>2. ASSUME NEW p \in Threads, RunThrows(p) PROVE object' = "built"
    BY <2>2 DEF RunThrows, Goto, IInv, Stages
  <2>3. QED
    BY <2>1, <2>2 DEF Next, Inside, Enter, Acquire, Skip, RunReturns, SetMark, Unlock, Abort
<1>2. QED
  BY <1>1, Invariance, PTL DEF Spec, BuiltForGood
=============================================================================
