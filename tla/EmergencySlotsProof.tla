------------------------ MODULE EmergencySlotsProof ------------------------
(***************************************************************************)
(* Proofs about the emergency storage for exceptions, for any finite set   *)
(* of threads, any number of slots and any limits.  The thread-local       *)
(* counter and the semaphore's units are cardinalities of sets of slots    *)
(* and of threads.                                                         *)
(***************************************************************************)
EXTENDS EmergencySlots, FiniteSetTheorems, TLAPS

InCall(p) == IF pc[p] \in {"wait", "scan", "giveup"} THEN 1 ELSE 0

\* A counter is over its limit only in a call that is about to fail, a thread
\* waits for the semaphore only with its first slot, and the slot that is
\* being released is somebody's exactly until it is counted off.
Discipline ==
  \A p \in Threads :
    /\ use[p] <= Limit + 1 + (IF pc[p] = "giveup" THEN 1 ELSE 0)
    /\ pc[p] = "wait" => use[p] = 1
    /\ whose[p] # Nobody <=> pc[p] = "uncount"

IInv == TypeOK /\ CounterExact /\ UnitsExact /\ Discipline

LEMMA Counted ==
  ASSUME NEW S \in SUBSET Threads
  PROVE  /\ IsFiniteSet(S) /\ Cardinality(S) \in Nat
         /\ Cardinality(S) = 0 <=> S = {}
  BY FS_Subset, FS_CardinalityType, FS_EmptySet, ThreadsAssumption

LEMMA SlotsCounted ==
  ASSUME NEW S \in SUBSET Slots
  PROVE  /\ IsFiniteSet(S) /\ Cardinality(S) \in Nat
         /\ Cardinality(S) = 0 <=> S = {}
<1>1. IsFiniteSet(Slots)
  BY FS_Interval, SlotsAssumption DEF Slots
<1>2. QED
  BY <1>1, FS_Subset, FS_CardinalityType, FS_EmptySet

LEMMA Grows ==
  ASSUME NEW S, IsFiniteSet(S), NEW x, x \notin S
  PROVE  Cardinality(S \cup {x}) = Cardinality(S) + 1
  BY FS_AddElement

LEMMA Shrinks ==
  ASSUME NEW S, IsFiniteSet(S), NEW x \in S
  PROVE  Cardinality(S \ {x}) = Cardinality(S) - 1
  BY FS_RemoveElement

\* The sets that are counted, with their numbers.
LEMMA Sizes ==
  /\ \A p \in Threads : /\ Holders(p) \in SUBSET Slots /\ Late(p) \in SUBSET Threads
                        /\ IsFiniteSet(Holders(p)) /\ IsFiniteSet(Late(p))
                        /\ Cardinality(Holders(p)) \in Nat /\ Cardinality(Late(p)) \in Nat
  /\ IsFiniteSet(Users) /\ Cardinality(Users) \in Nat
  /\ IsFiniteSet(Posting) /\ Cardinality(Posting) \in Nat
<1>1. \A p \in Threads : Holders(p) \in SUBSET Slots /\ Late(p) \in SUBSET Threads
  BY DEF Holders, Late
<1>2. Users \in SUBSET Threads /\ Posting \in SUBSET Threads
  BY DEF Users, Posting
<1>3. QED
  BY <1>1, <1>2, Counted, SlotsCounted

\* A thread in a call, or with a slot, or with a release still to be counted,
\* has a counter above zero.
LEMMA Positive ==
  ASSUME IInv, NEW p \in Threads
  PROVE  /\ use[p] \in Nat
         /\ pc[p] \in {"wait", "scan", "giveup"} => use[p] > 0
         /\ Holders(p) # {} => use[p] > 0
         /\ Late(p) # {} => use[p] > 0
         /\ pc[p] \in {"wait", "scan", "giveup"} /\ Late(p) # {} => use[p] > 1
         /\ Cardinality(Holders(p)) + InCall(p) <= use[p]
<1>1. /\ use[p] = Cardinality(Holders(p)) + InCall(p) + Cardinality(Late(p))
      /\ InCall(p) \in {0, 1}
  BY DEF IInv, CounterExact, InCall
<1>2. Cardinality(Holders(p)) \in Nat /\ Cardinality(Late(p)) \in Nat
  BY Sizes
<1>3. Holders(p) # {} => Cardinality(Holders(p)) > 0
  BY <1>2, Sizes, SlotsCounted
<1>4. Late(p) # {} => Cardinality(Late(p)) > 0
  BY <1>2, Sizes, Counted
<1>5. pc[p] \in {"wait", "scan", "giveup"} => InCall(p) = 1
  BY DEF InCall
<1>6. QED
  BY <1>1, <1>2, <1>3, <1>4, <1>5

\* The thread whose slot is being released.
LEMMA Released ==
  ASSUME IInv, NEW p \in Threads, pc[p] = "uncount"
  PROVE  /\ whose[p] \in Threads /\ p \in Late(whose[p])
         /\ use[whose[p]] > 0 /\ pc[whose[p]] # "wait"
<1>1. whose[p] \in Threads /\ p \in Late(whose[p])
  BY DEF IInv, TypeOK, Discipline, Late
<1>2. QED
  BY <1>1, Positive DEF IInv, Discipline

LEMMA InitHolds == Init => IInv
<1> SUFFICES ASSUME Init PROVE IInv
  OBVIOUS
<1> USE SlotsAssumption, LimitAssumption, NobodyAssumption DEF Init
<1>1. TypeOK
  BY DEF TypeOK, Slots, PCs, Capacity
<1>2. \A p \in Threads : Holders(p) = {} /\ Late(p) = {}
  BY DEF Holders, Late
<1>3. Users = {} /\ Posting = {}
  BY DEF Users, Posting
<1>4. CounterExact
  BY <1>2, FS_EmptySet DEF CounterExact
<1>5. UnitsExact
  BY <1>3, FS_EmptySet DEF UnitsExact, Capacity
<1>6. Discipline
  BY DEF Discipline
<1>7. QED
  BY <1>1, <1>4, <1>5, <1>6 DEF IInv

\* The tests on the counter, and the order of the steps, keep the limits.
LEMMA DisciplineStep == ASSUME IInv, [Next]_vars PROVE Discipline'
<1> USE DEF Goto, IInv, TypeOK, Discipline
<1>1. CASE UNCHANGED vars
  BY <1>1 DEF vars
<1>2. ASSUME NEW p \in Threads, Count(p) PROVE Discipline'
  BY <1>2, LimitAssumption DEF Count
<1>3. ASSUME NEW p \in Threads, TakeUnit(p) PROVE Discipline'
  BY <1>3 DEF TakeUnit
<1>4. ASSUME NEW p \in Threads, Claim(p) PROVE Discipline'
  BY <1>4 DEF Claim
<1>5. ASSUME NEW p \in Threads, ScanOn(p) PROVE Discipline'
  BY <1>5 DEF ScanOn
<1>6. ASSUME NEW p \in Threads, ScanEnds(p) PROVE Discipline'
  BY <1>6, LimitAssumption DEF ScanEnds
<1>7. ASSUME NEW p \in Threads, GiveUp(p) PROVE Discipline'
  BY <1>7, Positive, LimitAssumption DEF GiveUp
<1>8. ASSUME NEW p \in Threads, FreeSlot(p) PROVE Discipline'
  BY <1>8, NobodyAssumption DEF FreeSlot
<1>9. ASSUME NEW p \in Threads, Uncount(p) PROVE Discipline'
  <2>1. /\ whose[p] \in Threads /\ use[whose[p]] \in Nat /\ use[whose[p]] > 0
        /\ pc[whose[p]] # "wait"
    BY <1>9, Released, Positive DEF Uncount
  <2>2. QED
    BY <1>9, <2>1, LimitAssumption DEF Uncount
<1>10. ASSUME NEW p \in Threads, ReturnUnit(p) PROVE Discipline'
  BY <1>10 DEF ReturnUnit
<1>11. QED
  BY <1>1, <1>2, <1>3, <1>4, <1>5, <1>6, <1>7, <1>8, <1>9, <1>10
     DEF Next

\* Every step keeps the types.
LEMMA TypeStep == ASSUME IInv, [Next]_vars PROVE TypeOK'
<1> USE DEF Goto, IInv, TypeOK, PCs
<1>1. CASE UNCHANGED vars
  BY <1>1 DEF vars
<1>2. ASSUME NEW p \in Threads, Count(p) PROVE TypeOK'
  <2>1. use[p] + 1 \in 0 .. Limit + 2
    BY <1>2, LimitAssumption DEF Count, Discipline
  <2>2. QED
    BY <1>2, <2>1 DEF Count
<1>3. ASSUME NEW p \in Threads, TakeUnit(p) PROVE TypeOK'
  BY <1>3, LimitAssumption DEF TakeUnit, Capacity
<1>4. ASSUME NEW p \in Threads, Claim(p) PROVE TypeOK'
  BY <1>4, SlotsAssumption DEF Claim, Slots
<1>5. ASSUME NEW p \in Threads, ScanOn(p) PROVE TypeOK'
  BY <1>5, SlotsAssumption DEF ScanOn
<1>6. ASSUME NEW p \in Threads, ScanEnds(p) PROVE TypeOK'
  BY <1>6, SlotsAssumption DEF ScanEnds
<1>7. ASSUME NEW p \in Threads, GiveUp(p) PROVE TypeOK'
  <2>1. use[p] - 1 \in 0 .. Limit + 2
    BY <1>7, Positive, LimitAssumption DEF GiveUp
  <2>2. QED
    BY <1>7, <2>1 DEF GiveUp
<1>8. ASSUME NEW p \in Threads, FreeSlot(p) PROVE TypeOK'
  BY <1>8 DEF FreeSlot
<1>9. ASSUME NEW p \in Threads, Uncount(p) PROVE TypeOK'
  <2>1. whose[p] \in Threads /\ use[whose[p]] - 1 \in 0 .. Limit + 2
    BY <1>9, Released, LimitAssumption DEF Uncount
  <2>2. QED
    BY <1>9, <2>1 DEF Uncount
<1>10. ASSUME NEW p \in Threads, ReturnUnit(p) PROVE TypeOK'
  <2>1. Cardinality(Posting) > 0
    <3>1. Posting # {} /\ Posting \in SUBSET Threads
      BY <1>10 DEF ReturnUnit, Posting
    <3>2. QED
      BY <3>1, Counted
  <2>2. units + 1 \in 0 .. Capacity
    BY <2>1, Sizes, LimitAssumption DEF UnitsExact, Capacity
  <2>3. QED
    BY <1>10, <2>2 DEF ReturnUnit
<1>11. QED
  BY <1>1, <1>2, <1>3, <1>4, <1>5, <1>6, <1>7, <1>8, <1>9, <1>10
     DEF Next

\* A step that leaves the slots, the counters and the releases alone and does
\* not end or begin a call.
LEMMA CountersStay ==
  ASSUME IInv, UNCHANGED <<user, use, whose>>,
         \A q \in Threads : InCall(q)' = InCall(q)
  PROVE  CounterExact'
<1>1. \A q \in Threads : Holders(q)' = Holders(q) /\ Late(q)' = Late(q)
  BY DEF Holders, Late
<1>2. QED
  BY <1>1 DEF IInv, CounterExact, InCall

\* The counter follows slots, call and releases, whoever moves it.
LEMMA CounterStep == ASSUME IInv, [Next]_vars PROVE CounterExact'
<1> USE DEF Goto, IInv, TypeOK
<1>1. CASE UNCHANGED vars
  BY <1>1, CountersStay DEF vars, InCall
<1>2. ASSUME NEW p \in Threads, Count(p) PROVE CounterExact'
  <2>1. \A q \in Threads : Holders(q)' = Holders(q) /\ Late(q)' = Late(q)
    BY <1>2 DEF Count, Holders, Late
  <2>2. InCall(p) = 0 /\ InCall(p)' = 1 /\ use'[p] = use[p] + 1
    BY <1>2 DEF Count, InCall
  <2>3. \A q \in Threads \ {p} : InCall(q)' = InCall(q) /\ use'[q] = use[q]
    BY <1>2 DEF Count, InCall
  <2>4. \A q \in Threads :
          use'[q] = Cardinality(Holders(q)) + InCall(q)' + Cardinality(Late(q))
    BY <2>2, <2>3, Sizes DEF CounterExact, InCall
  <2>5. QED
    BY <2>1, <2>4 DEF CounterExact, InCall
<1>3. ASSUME NEW p \in Threads, TakeUnit(p) PROVE CounterExact'
  BY <1>3, CountersStay DEF TakeUnit, InCall
<1>4. ASSUME NEW p \in Threads, Claim(p) PROVE CounterExact'
  <2>1. at[p] \in Slots /\ p # Nobody /\ at[p] \notin Holders(p)
    BY <1>4, SlotsAssumption, NobodyAssumption DEF Claim, Slots, Holders
  <2>2. /\ Holders(p)' = Holders(p) \cup {at[p]}
        /\ \A q \in Threads \ {p} : Holders(q)' = Holders(q)
        /\ \A q \in Threads : Late(q)' = Late(q)
    BY <1>4, <2>1, NobodyAssumption DEF Claim, Holders, Late
  <2>3. Cardinality(Holders(p)') = Cardinality(Holders(p)) + 1
    BY <2>1, <2>2, Sizes, Grows
  <2>4. InCall(p) = 1 /\ InCall(p)' = 0
    BY <1>4 DEF Claim, InCall
  <2>5. \A q \in Threads \ {p} : InCall(q)' = InCall(q)
    BY <1>4 DEF Claim, InCall
  <2>6. use' = use
    BY <1>4 DEF Claim
  <2>7. \A q \in Threads :
          use[q] = Cardinality(Holders(q)') + InCall(q)' + Cardinality(Late(q))
    <3> SUFFICES ASSUME NEW q \in Threads
                 PROVE  use[q] = Cardinality(Holders(q)') + InCall(q)' + Cardinality(Late(q))
      OBVIOUS
    <3>1. use[q] = Cardinality(Holders(q)) + InCall(q) + Cardinality(Late(q))
      BY DEF CounterExact, InCall
    <3>2. Cardinality(Holders(q)) \in Nat /\ Cardinality(Late(q)) \in Nat
      BY Sizes
    <3>3. CASE q = p
      BY <2>3, <2>4, <3>1, <3>2, <3>3
    <3>4. CASE q # p
      BY <2>2, <2>5, <3>1, <3>4
    <3>5. QED
      BY <3>3, <3>4
  <2>8. QED
    BY <2>2, <2>6, <2>7 DEF CounterExact, InCall
<1>5. ASSUME NEW p \in Threads, ScanOn(p) PROVE CounterExact'
  BY <1>5, CountersStay DEF ScanOn, InCall
<1>6. ASSUME NEW p \in Threads, ScanEnds(p) PROVE CounterExact'
  BY <1>6, CountersStay DEF ScanEnds, InCall
<1>7. ASSUME NEW p \in Threads, GiveUp(p) PROVE CounterExact'
  <2>1. \A q \in Threads : Holders(q)' = Holders(q) /\ Late(q)' = Late(q)
    BY <1>7 DEF GiveUp, Holders, Late
  <2>2. InCall(p) = 1 /\ InCall(p)' = 0 /\ use'[p] = use[p] - 1
    BY <1>7 DEF GiveUp, InCall
  <2>3. \A q \in Threads \ {p} : InCall(q)' = InCall(q) /\ use'[q] = use[q]
    BY <1>7 DEF GiveUp, InCall
  <2>4. \A q \in Threads :
          use'[q] = Cardinality(Holders(q)) + InCall(q)' + Cardinality(Late(q))
    BY <2>2, <2>3, Sizes DEF CounterExact, InCall
  <2>5. QED
    BY <2>1, <2>4 DEF CounterExact, InCall
<1>8. ASSUME NEW p \in Threads, FreeSlot(p) PROVE CounterExact'
  <2>1. PICK s \in Slots :
          /\ user[s] # Nobody
          /\ user' = [user EXCEPT ![s] = Nobody]
          /\ whose' = [whose EXCEPT ![p] = user[s]]
          /\ pc[p] = "out" /\ pc' = [pc EXCEPT ![p] = "uncount"]
          /\ UNCHANGED <<use, units, at>>
    BY <1>8 DEF FreeSlot
  <2>2. PICK u \in Threads :
          user[s] = u /\ s \in Holders(u) /\ whose[p] = Nobody /\ p \notin Late(u)
    BY <2>1, NobodyAssumption DEF Holders, Late, Discipline
  <2>3. /\ Holders(u)' = Holders(u) \ {s}
        /\ \A q \in Threads \ {u} : Holders(q)' = Holders(q)
    BY <2>1, <2>2, NobodyAssumption DEF Holders
  <2>4. /\ Late(u)' = Late(u) \cup {p}
        /\ \A q \in Threads \ {u} : Late(q)' = Late(q)
    BY <2>1, <2>2, NobodyAssumption DEF Late
  <2>5. /\ Cardinality(Holders(u)') = Cardinality(Holders(u)) - 1
        /\ Cardinality(Late(u)') = Cardinality(Late(u)) + 1
    BY <2>2, <2>3, <2>4, Sizes, Grows, Shrinks
  <2>6. \A q \in Threads : InCall(q)' = InCall(q)
    BY <2>1 DEF InCall
  <2>7. \A q \in Threads :
          use[q] = Cardinality(Holders(q)') + InCall(q)' + Cardinality(Late(q)')
    <3> SUFFICES ASSUME NEW q \in Threads
                 PROVE  use[q] = Cardinality(Holders(q)') + InCall(q)' + Cardinality(Late(q)')
      OBVIOUS
    <3>1. use[q] = Cardinality(Holders(q)) + InCall(q)' + Cardinality(Late(q))
      BY <2>6 DEF CounterExact, InCall
    <3>2. Cardinality(Holders(q)) \in Nat /\ Cardinality(Late(q)) \in Nat
      BY Sizes
    <3>3. InCall(q)' \in {0, 1}
      BY <2>6 DEF InCall
    <3>4. CASE q = u
      BY <2>5, <3>1, <3>2, <3>3, <3>4
    <3>5. CASE q # u
      BY <2>3, <2>4, <3>1, <3>5
    <3>6. QED
      BY <3>4, <3>5
  <2>8. QED
    BY <2>1, <2>7 DEF CounterExact, InCall
<1>9. ASSUME NEW p \in Threads, Uncount(p) PROVE CounterExact'
  <2>1. PICK w \in Threads :
          whose[p] = w /\ pc[p] = "uncount" /\ p \in Late(w) /\ use[w] > 0
    BY <1>9, Released DEF Uncount
  <2>2. /\ use' = [use EXCEPT ![w] = @ - 1]
        /\ whose' = [whose EXCEPT ![p] = Nobody]
        /\ \E to \in {"post", "out"} : pc' = [pc EXCEPT ![p] = to]
        /\ user' = user
    <3>1. pc' = [pc EXCEPT ![p] = IF use[w] = 1 THEN "post" ELSE "out"]
      BY <1>9, <2>1 DEF Uncount
    <3>2. \E to \in {"post", "out"} : pc' = [pc EXCEPT ![p] = to]
      BY <3>1
    <3>3. QED
      BY <1>9, <2>1, <3>2 DEF Uncount
  <2>3. \A q \in Threads : Holders(q)' = Holders(q)
    BY <2>2 DEF Holders
  <2>4. /\ Late(w)' = Late(w) \ {p}
        /\ \A q \in Threads \ {w} : Late(q)' = Late(q)
    BY <2>1, <2>2, NobodyAssumption DEF Late
  <2>5. Cardinality(Late(w)') = Cardinality(Late(w)) - 1
    BY <2>1, <2>4, Sizes, Shrinks
  <2>6. \A q \in Threads : InCall(q)' = InCall(q)
    BY <2>1, <2>2 DEF InCall
  <2>7. \A q \in Threads :
          use'[q] = Cardinality(Holders(q)) + InCall(q)' + Cardinality(Late(q)')
    <3> SUFFICES ASSUME NEW q \in Threads
                 PROVE  use'[q] = Cardinality(Holders(q)) + InCall(q)' + Cardinality(Late(q)')
      OBVIOUS
    <3>1. use[q] = Cardinality(Holders(q)) + InCall(q)' + Cardinality(Late(q))
      BY <2>6 DEF CounterExact, InCall
    <3>2. Cardinality(Holders(q)) \in Nat /\ Cardinality(Late(q)) \in Nat
      BY Sizes
    <3>3. InCall(q)' \in {0, 1}
      BY <2>6 DEF InCall
    <3>4. CASE q = w
      <4>1. use'[w] = use[w] - 1
        BY <2>1, <2>2
      <4>2. QED
        BY <2>5, <3>1, <3>2, <3>3, <3>4, <4>1
    <3>5. CASE q # w
      BY <2>2, <2>4, <3>1, <3>5
    <3>6. QED
      BY <3>4, <3>5
  <2>8. QED
    BY <2>3, <2>7 DEF CounterExact, InCall
<1>10. ASSUME NEW p \in Threads, ReturnUnit(p) PROVE CounterExact'
  BY <1>10, CountersStay DEF ReturnUnit, InCall
<1>11. QED
  BY <1>1, <1>2, <1>3, <1>4, <1>5, <1>6, <1>7, <1>8, <1>9, <1>10
     DEF Next

\* A step that leaves the units alone and moves nobody in or out of the sets.
LEMMA UnitsStay ==
  ASSUME IInv, UNCHANGED units, Users' = Users, Posting' = Posting
  PROVE  UnitsExact'
  BY DEF IInv, UnitsExact, Capacity

\* The last use of a thread goes: its unit is on the way back.
LEMMA UnitOnItsWay ==
  ASSUME IInv, UNCHANGED units, NEW u \in Users, Users' = Users \ {u},
         NEW p \in Threads, p \notin Posting, Posting' = Posting \cup {p}
  PROVE  UnitsExact'
<1>1. /\ Cardinality(Users') = Cardinality(Users) - 1
      /\ Cardinality(Posting') = Cardinality(Posting) + 1
  BY Sizes, Grows, Shrinks
<1>2. Cardinality(Users) \in Nat /\ Cardinality(Posting) \in Nat
  BY Sizes
<1>3. QED
  BY <1>1, <1>2 DEF IInv, UnitsExact, Capacity

\* The count of thread u drops by one in a step of thread p.
LEMMA CountedOff ==
  ASSUME IInv, NEW p \in Threads, NEW u \in Threads, use[u] > 0,
         use' = [use EXCEPT ![u] = @ - 1], UNCHANGED units,
         pc[u] # "wait", pc[p] \notin {"wait", "post"},
         pc' = [pc EXCEPT ![p] = IF use[u] = 1 THEN "post" ELSE "out"]
  PROVE  UnitsExact'
<1> USE DEF IInv, TypeOK
<1>1. \A q \in Threads : use[q] \in Nat
  BY Positive
<1>2. \A q \in Threads : pc'[q] = "wait" <=> pc[q] = "wait"
  OBVIOUS
<1>3. CASE use[u] = 1
  <2>1. u \in Users /\ Users' = Users \ {u}
    BY <1>1, <1>2, <1>3 DEF Users
  <2>2. p \notin Posting /\ Posting' = Posting \cup {p}
    BY <1>3 DEF Posting
  <2>3. QED
    BY <2>1, <2>2, UnitOnItsWay
<1>4. CASE use[u] # 1
  <2>1. Users' = Users
    BY <1>1, <1>2, <1>4 DEF Users
  <2>2. Posting' = Posting
    BY <1>4 DEF Posting
  <2>3. QED
    BY <2>1, <2>2, UnitsStay
<1>5. QED
  BY <1>3, <1>4

\* A unit is taken for a thread's first use and returned for its last.
LEMMA UnitsStep == ASSUME IInv, [Next]_vars PROVE UnitsExact'
<1> USE DEF Goto, IInv, TypeOK
<1>1. CASE UNCHANGED vars
  BY <1>1, UnitsStay DEF vars, Users, Posting
<1>2. ASSUME NEW p \in Threads, Count(p) PROVE UnitsExact'
  <2>1. use[p] \in Nat /\ pc[p] = "out" /\ (use[p] = 0 <=> pc'[p] = "wait")
    BY <1>2, Positive, LimitAssumption DEF Count
  <2>2. pc'[p] # "post"
    BY <1>2 DEF Count
  <2>3. Users' = Users /\ Posting' = Posting
    BY <1>2, <2>1, <2>2 DEF Count, Users, Posting
  <2>4. QED
    BY <1>2, <2>3, UnitsStay DEF Count
<1>3. ASSUME NEW p \in Threads, TakeUnit(p) PROVE UnitsExact'
  <2>1. use[p] > 0
    BY <1>3, Positive DEF TakeUnit
  <2>2. p \notin Users /\ Users' = Users \cup {p} /\ Posting' = Posting
    BY <1>3, <2>1 DEF TakeUnit, Users, Posting
  <2>3. Cardinality(Users') = Cardinality(Users) + 1
    BY <2>2, Sizes, Grows
  <2>4. Cardinality(Users) \in Nat /\ Cardinality(Posting) \in Nat
    BY Sizes
  <2>5. QED
    BY <1>3, <2>2, <2>3, <2>4, LimitAssumption DEF TakeUnit, UnitsExact, Capacity
<1>4. ASSUME NEW p \in Threads, Claim(p) PROVE UnitsExact'
  BY <1>4, UnitsStay DEF Claim, Users, Posting
<1>5. ASSUME NEW p \in Threads, ScanOn(p) PROVE UnitsExact'
  BY <1>5, UnitsStay DEF ScanOn, Users, Posting
<1>6. ASSUME NEW p \in Threads, ScanEnds(p) PROVE UnitsExact'
  BY <1>6, UnitsStay DEF ScanEnds, Users, Posting
<1>7. ASSUME NEW p \in Threads, GiveUp(p) PROVE UnitsExact'
  BY <1>7, Positive, CountedOff DEF GiveUp
<1>8. ASSUME NEW p \in Threads, FreeSlot(p) PROVE UnitsExact'
  BY <1>8, UnitsStay DEF FreeSlot, Users, Posting
<1>9. ASSUME NEW p \in Threads, Uncount(p) PROVE UnitsExact'
  <2>1. PICK w \in Threads :
          whose[p] = w /\ pc[p] = "uncount" /\ use[w] > 0 /\ pc[w] # "wait"
    BY <1>9, Released DEF Uncount
  <2>2. QED
    BY <1>9, <2>1, CountedOff DEF Uncount
<1>10. ASSUME NEW p \in Threads, ReturnUnit(p) PROVE UnitsExact'
  <2>1. p \in Posting /\ Posting' = Posting \ {p} /\ Users' = Users
    BY <1>10 DEF ReturnUnit, Users, Posting
  <2>2. Cardinality(Posting') = Cardinality(Posting) - 1
    BY <2>1, Sizes, Shrinks
  <2>3. Cardinality(Users) \in Nat /\ Cardinality(Posting) \in Nat
    BY Sizes
  <2>4. QED
    BY <1>10, <2>1, <2>2, <2>3, LimitAssumption DEF ReturnUnit, UnitsExact, Capacity
<1>11. QED
  BY <1>1, <1>2, <1>3, <1>4, <1>5, <1>6, <1>7, <1>8, <1>9, <1>10
     DEF Next

LEMMA Invariance == Spec => []IInv
<1>1. IInv /\ [Next]_vars => IInv'
  BY TypeStep, CounterStep, UnitsStep, DisciplineStep DEF IInv
<1>2. QED
  BY <1>1, InitHolds, PTL DEF Spec

\* Type correctness; the thread-local counter stays within Limit + 2.
THEOREM WellTyped == Spec => []TypeOK
<1>1. IInv => TypeOK
  BY DEF IInv
<1>2. QED
  BY <1>1, Invariance, PTL

\* A thread's counter is its slots, its call and its late releases.
THEOREM CounterCorrect == Spec => []CounterExact
<1>1. IInv => CounterExact
  BY DEF IInv
<1>2. QED
  BY <1>1, Invariance, PTL

\* Units out are threads that use slots and units on the way back.
THEOREM UnitsCorrect == Spec => []UnitsExact
<1>1. IInv => UnitsExact
  BY DEF IInv
<1>2. QED
  BY <1>1, Invariance, PTL

\* A thread waits for a unit only when it has no slot, and none of its slots
\* is freed and not counted off: whoever holds units is not blocked.
THEOREM NeverHoldAndWait == Spec => []NoHoldAndWait
<1>1. ASSUME IInv, NEW p \in Threads, pc[p] = "wait" PROVE Holders(p) = {} /\ Late(p) = {}
  <2>1. use[p] = 1 /\ InCall(p) = 1
    BY <1>1 DEF IInv, Discipline, InCall
  <2>2. Cardinality(Holders(p)) + InCall(p) <= use[p] /\ Cardinality(Holders(p)) \in Nat
    BY <1>1, Positive, Sizes
  <2>3. Cardinality(Holders(p)) = 0
    BY <2>1, <2>2
  <2>4. Holders(p) = {}
    BY <2>3, SlotsCounted DEF Holders
  <2>5. Late(p) = {}
    BY <1>1, <2>1, Positive
  <2>6. QED
    BY <2>4, <2>5
<1>2. IInv => NoHoldAndWait
  BY <1>1 DEF NoHoldAndWait
<1>3. QED
  BY <1>2, Invariance, PTL
=============================================================================
