---------------------------- MODULE AtExitProof ----------------------------
(***************************************************************************)
(* Proofs about the at-exit handlers and the destructors of static         *)
(* objects, for any threads, any size of the tables, any number of         *)
(* handlers and destructors.                                               *)
(*                                                                         *)
(* Destructors: as long as no two threads had rtdt_spl at once, none is    *)
(* lost, none is run twice, and each thread runs what it took in the       *)
(* reverse order of registration; the loop of TakenOut is followed turn by *)
(* turn.  Handlers: as long as no two threads had fn_lock at once, none is *)
(* called twice, also when two threads exit; when one exits, all that have *)
(* to run are called, the latest first.                                    *)
(***************************************************************************)
EXTENDS AtExit, TLAPS, FiniteSetTheorems, SequenceTheorems

\* Induction over the numbers, without an operator as a parameter: a set of
\* numbers has a least, and counting up reaches every one.
LEMMA LeastOf ==
  ASSUME NEW T \in SUBSET Nat, T # {} PROVE \E x \in T : \A y \in T : x <= y
<1> DEFINE Less == {ss \in Nat \X Nat : ss[1] < ss[2]}
<1>1. IsWellFoundedOn(Less, Nat)
  BY NatLessThanWellFounded DEF OpToRel
<1> HIDE DEF Less
<1>2. PICK x \in T : \A y \in T : ~ (<<y, x>> \in Less)
  BY <1>1, WFMin
<1>3. ASSUME NEW y \in T, y < x PROVE FALSE
  <2> DEFINE yx == <<y, x>>
  <2>1. yx \in Nat \X Nat /\ yx[1] = y /\ yx[2] = x
    OBVIOUS
  <2> HIDE DEF yx
  <2>2. yx \in Less
    BY <1>3, <2>1 DEF Less
  <2>3. QED
    BY <1>2, <2>2 DEF yx
<1>4. QED
  BY <1>3

LEMMA CountUp ==
  ASSUME NEW n \in Nat, NEW T, 0 \in T, \A i \in 0 .. n - 1 : i \in T => i + 1 \in T
  PROVE  \A i \in 0 .. n : i \in T
<1> DEFINE B == {i \in 0 .. n : i \notin T}
<1> SUFFICES ASSUME B # {} PROVE FALSE
  OBVIOUS
<1>1. B \in SUBSET Nat
  OBVIOUS
<1>2. PICK x \in B : \A y \in B : x <= y
  <2> HIDE DEF B
  <2>1. QED
    BY <1>1, LeastOf
<1>3. x - 1 \in 0 .. n - 1 /\ x - 1 \in T
  BY <1>2
<1>4. QED
  BY <1>2, <1>3

Once(s) == \A i, j \in DOMAIN s : s[i] = s[j] => i = j

LEMMA TailOnce ==
  ASSUME NEW s \in Seq(Nat), s # <<>>, Once(s)
  PROVE  /\ Tail(s) \in Seq(Nat) /\ Once(Tail(s)) /\ Head(s) \in Nat
         /\ Head(s) \in ToSet(s) /\ ToSet(Tail(s)) = ToSet(s) \ {Head(s)}
<1>1. /\ Len(s) \in Nat /\ Len(s) > 0 /\ DOMAIN s = 1 .. Len(s) /\ Head(s) = s[1]
      /\ Tail(s) \in Seq(Nat) /\ DOMAIN Tail(s) = 1 .. Len(s) - 1
      /\ \A i \in 1 .. Len(s) - 1 : Tail(s)[i] = s[i + 1]
  OBVIOUS
<1>2. Once(Tail(s))
  BY <1>1 DEF Once
<1>3. Head(s) \in ToSet(s) /\ Head(s) \in Nat
  BY <1>1 DEF ToSet
<1>4. \A i \in 1 .. Len(s) - 1 : Tail(s)[i] \in ToSet(s) \ {Head(s)}
  BY <1>1 DEF Once, ToSet
<1>5. ASSUME NEW i \in DOMAIN s, s[i] # Head(s) PROVE s[i] \in ToSet(Tail(s))
  <2>1. i - 1 \in 1 .. Len(s) - 1 /\ Tail(s)[i - 1] = s[i]
    BY <1>1, <1>5
  <2>2. QED
    BY <1>1, <2>1 DEF ToSet
<1>6. ASSUME NEW x \in ToSet(Tail(s)) PROVE x \in ToSet(s) \ {Head(s)}
  <2>1. PICK i \in DOMAIN Tail(s) : Tail(s)[i] = x
    BY <1>6 DEF ToSet
  <2>2. QED
    BY <1>1, <1>4, <2>1
<1>7. ASSUME NEW x \in ToSet(s) \ {Head(s)} PROVE x \in ToSet(Tail(s))
  <2>1. PICK i \in DOMAIN s : s[i] = x
    BY <1>7 DEF ToSet
  <2>2. QED
    BY <1>5, <1>7, <2>1
<1>8. ToSet(Tail(s)) = ToSet(s) \ {Head(s)}
  BY <1>6, <1>7
<1>9. QED
  BY <1>1, <1>2, <1>3, <1>8

LEMMA ConsOnce ==
  ASSUME NEW s \in Seq(Nat), NEW x \in Nat, x \notin ToSet(s), Once(s)
  PROVE  /\ <<x>> \o s \in Seq(Nat) /\ Once(<<x>> \o s)
         /\ ToSet(<<x>> \o s) = ToSet(s) \cup {x}
<1> DEFINE u == <<x>> \o s
<1>1. /\ u \in Seq(Nat) /\ Len(s) \in Nat /\ DOMAIN s = 1 .. Len(s)
      /\ DOMAIN u = 1 .. Len(s) + 1
      /\ \A i \in DOMAIN u : u[i] = IF i = 1 THEN x ELSE s[i - 1]
  OBVIOUS
<1>2. Once(u)
  BY <1>1 DEF Once, ToSet
<1>3. \A i \in DOMAIN u : u[i] \in ToSet(s) \cup {x}
  BY <1>1 DEF ToSet
<1>4. ASSUME NEW i \in DOMAIN s PROVE s[i] \in ToSet(u)
  <2>1. i + 1 \in DOMAIN u /\ u[i + 1] = s[i]
    BY <1>1
  <2>2. QED
    BY <2>1 DEF ToSet
<1>5. x \in ToSet(u)
  BY <1>1 DEF ToSet
<1>6. ToSet(u) = ToSet(s) \cup {x}
  BY <1>3, <1>4, <1>5 DEF ToSet
<1>7. QED
  BY <1>1, <1>2, <1>6

LEMMA AppendOnce ==
  ASSUME NEW s \in Seq(Nat), NEW x \in Nat, x \notin ToSet(s), Once(s)
  PROVE  /\ Append(s, x) \in Seq(Nat) /\ Once(Append(s, x))
         /\ ToSet(Append(s, x)) = ToSet(s) \cup {x}
<1> DEFINE u == Append(s, x)
<1>1. /\ u \in Seq(Nat) /\ Len(s) \in Nat /\ DOMAIN s = 1 .. Len(s)
      /\ DOMAIN u = 1 .. Len(s) + 1
      /\ \A i \in DOMAIN s : u[i] = s[i]
      /\ u[Len(s) + 1] = x
  OBVIOUS
<1>2. Once(u)
  BY <1>1 DEF Once, ToSet
<1>3. \A i \in DOMAIN u : u[i] \in ToSet(s) \cup {x}
  BY <1>1 DEF ToSet
<1>4. \A i \in DOMAIN s : s[i] \in ToSet(u)
  BY <1>1 DEF ToSet
<1>5. x \in ToSet(u)
  BY <1>1 DEF ToSet
<1>6. ToSet(u) = ToSet(s) \cup {x}
  BY <1>3, <1>4, <1>5 DEF ToSet
<1>7. QED
  BY <1>1, <1>2, <1>6
-----------------------------------------------------------------------------
Kinds == [quick : BOOLEAN, owed : BOOLEAN]
Held == {"pop", "scan", "ending", "dtors"}

Types ==
  /\ accepted \in Seq(Kinds)
  /\ pc \in [Threads -> PCs]
  /\ quick \in [Threads -> BOOLEAN]
  /\ slot \in [Threads -> 0 .. FnCount]
  /\ push \in [Threads -> [at : {"none", "stack", "array"}, quick : BOOLEAN]]
  /\ saw \in [Threads -> Seq(Nat)]
  /\ DOMAIN found = Threads
  /\ \A p \in Threads : pc[p] = "scan" => slot[p] # FnCount

\* One thread has fn_lock or none, who works on the handlers has it, and who has
\* it has read the stack as it still is.
Locked ==
  /\ inside = {} \/ \E p \in Threads : inside = {p}
  /\ \A p \in Threads :
       /\ pc[p] \in Held => p \in inside
       /\ p \in inside => pc[p] \in Held \/ push[p] # NoPush
       /\ push[p] # NoPush => pc[p] \in {"main", "running"}
       /\ p \in inside /\ (pc[p] = "pop" \/ push[p] # NoPush) => saw[p] = stack

\* A handler is in one place, and no place has one twice.
PlacedOf(st, ar, ra, n) ==
  /\ st \in Seq(Nat) /\ Once(st)
  /\ ra \in Seq(Nat) /\ Once(ra)
  /\ ar \in [0 .. FnCount - 1 -> Nat]
  /\ ToSet(st) \cap ToSet(ra) = {}
  /\ \A h \in ToSet(st) \cup ToSet(ra) : h \in 1 .. n
  /\ \A i \in 0 .. FnCount - 1 :
       /\ ar[i] <= n
       /\ ar[i] # 0 => ar[i] \notin ToSet(st) \cup ToSet(ra)
       /\ \A j \in 0 .. FnCount - 1 : ar[i] = ar[j] /\ ar[i] # 0 => i = j
Placed == PlacedOf(stack, array, ran, Len(accepted))

\* What was read of the array is still so.
Found ==
  \A p \in inside :
    /\ pc[p] = "scan" => found[p] = array[slot[p]]
    /\ push[p].at = "array" => found[p] = FirstEmpty

IInv == Types /\ Locked /\ Placed /\ Found

LEMMA Once0 == Once(<<>>) /\ ToSet(<<>>) = {} /\ <<>> \in Seq(Nat)
BY DEF Once, ToSet

LEMMA InitOK == Init => IInv
<1> SUFFICES ASSUME Init PROVE IInv
  OBVIOUS
<1>1. Types
  BY AtExitAssumption DEF Init, Types, PCs, NoPush, Kinds
<1>2. Locked
  BY DEF Init, Locked, Held, NoPush
<1>3. Placed
  BY Once0, AtExitAssumption DEF Init, Placed, PlacedOf
<1>4. Found
  BY DEF Init, Found
<1>5. QED
  BY <1>1, <1>2, <1>3, <1>4 DEF IInv

\* Who gets the lock and meets nobody is alone with it.
LEMMA EnterAlone ==
  ASSUME ~ met', NEW p \in Threads, Enter(p)
  PROVE  inside = {} /\ inside' = {p} /\ ~ met
BY DEF Enter

\* A new handler goes on the stack, in an empty slot, or nowhere.
LEMMA NodePlaced ==
  ASSUME Placed, NEW n, n = Len(accepted) + 1, accepted \in Seq(Kinds)
  PROVE  PlacedOf(<<n>> \o stack, array, ran, n)
<1> DEFINE st == <<n>> \o stack
<1>1. n \in Nat /\ n > 0 /\ Len(accepted) \in Nat
  OBVIOUS
<1>2. n \notin ToSet(stack) /\ n \notin ToSet(ran)
  BY <1>1 DEF Placed, PlacedOf
<1>3. stack \in Seq(Nat) /\ Once(stack)
  BY DEF Placed, PlacedOf
<1>4. st \in Seq(Nat) /\ Once(st) /\ ToSet(st) = ToSet(stack) \cup {n}
  BY <1>1, <1>2, <1>3, ConsOnce
<1> HIDE DEF st
<1>5. \A h \in ToSet(st) \cup ToSet(ran) : h \in 1 .. n
  BY <1>1, <1>4 DEF Placed, PlacedOf
<1>6. \A i \in 0 .. FnCount - 1 : array[i] <= n /\ array[i] # n
  BY <1>1 DEF Placed, PlacedOf
<1>7. PlacedOf(st, array, ran, n)
  BY <1>2, <1>4, <1>5, <1>6 DEF Placed, PlacedOf
<1>8. QED
  BY <1>7 DEF st

LEMMA SlotPlaced ==
  ASSUME Placed, NEW n, n = Len(accepted) + 1, accepted \in Seq(Kinds),
         NEW k \in 0 .. FnCount - 1
  PROVE  PlacedOf(stack, [array EXCEPT ![k] = n], ran, n)
<1>1. n \in Nat /\ n > 0 /\ Len(accepted) \in Nat
  OBVIOUS
<1>2. n \notin ToSet(stack) /\ n \notin ToSet(ran)
  BY <1>1 DEF Placed, PlacedOf
<1>3. \A h \in ToSet(stack) \cup ToSet(ran) : h \in 1 .. n
  BY <1>1 DEF Placed, PlacedOf
<1>4. \A i \in 0 .. FnCount - 1 : array[i] <= n /\ array[i] # n
  <2>1. \A i \in 0 .. FnCount - 1 : array[i] \in Nat /\ array[i] <= Len(accepted)
    BY DEF Placed, PlacedOf
  <2>2. QED
    BY <1>1, <2>1
<1>5. QED
  BY <1>1, <1>2, <1>3, <1>4 DEF Placed, PlacedOf

\* What is taken from the stack or a slot is called, or dropped.
LEMMA CallPlaced ==
  ASSUME NEW st, NEW ar, NEW n, PlacedOf(st, ar, ran, n), NEW h \in 1 .. n, n \in Nat,
         h \notin ToSet(st) \cup ToSet(ran),
         \A i \in 0 .. FnCount - 1 : ar[i] # h
  PROVE  PlacedOf(st, ar, Append(ran, h), n)
<1>1. ran \in Seq(Nat) /\ Once(ran) /\ h \in Nat /\ h \notin ToSet(ran)
  BY DEF PlacedOf
<1> DEFINE ra == Append(ran, h)
<1>2. ra \in Seq(Nat) /\ Once(ra) /\ ToSet(ra) = ToSet(ran) \cup {h}
  BY <1>1, AppendOnce
<1> HIDE DEF ra
<1>3. QED
  BY <1>2 DEF PlacedOf, ra
-----------------------------------------------------------------------------
\* Steps that leave the handlers and the lock alone.
Outside ==
  \E p \in Threads :
    \/ \E q \in BOOLEAN : Exit(p, q) \/ \E at \in {"stack", "array"} : PushBegin(p, q, at)
    \/ PopEmpty(p) \/ Return(p) \/ EndExit(p) \/ GoOnInCxa(p)
    \/ \E dso \in Dsos : CallCxa(p, dso)

\* Steps that take the lock.
Locking == \E p \in Threads : PushLock(p) \/ LockFirst(p) \/ Resume(p)

\* Steps that give it back.
Leaving ==
  \E p \in Threads :
    PushNode(p) \/ PushSlot(p) \/ PopNode(p) \/ TakeSlot(p) \/ EndQuick(p) \/ EndDtors(p)

LEMMA OutsideOK ==
  ASSUME IInv, Outside PROVE IInv'
<1> USE DEF IInv
<1>1. UNCHANGED <<handlerVars, inside>>
  BY DEF Outside, Exit, PushBegin, PopEmpty, Return, EndExit, GoOnInCxa, CallCxa,
         LeaveAtExit, handlerVars, lockVars
<1>2. Placed'
  BY <1>1 DEF Placed, handlerVars
<1>0. FirstEmpty' = FirstEmpty /\ array' = array
  BY <1>1 DEF FirstEmpty, FreeSlots, handlerVars
<1>3. ASSUME NEW p \in Threads, NEW q \in BOOLEAN, Exit(p, q) PROVE Types' /\ Locked' /\ Found'
  <2>1. Types'
    BY <1>3, <1>1 DEF Types, Exit, Goto, PCs, handlerVars
  <2>2. p \notin inside
    BY <1>3 DEF Exit, Goto, CanCall, Locked, Held
  <2>3. Locked'
    BY <1>3, <1>1, <2>2 DEF Locked, Types, Exit, Goto, CanCall, Held, handlerVars
  <2>4. Found'
    BY <1>3, <1>0, <1>1, <2>2 DEF Found, Types, Exit, Goto
  <2>5. QED
    BY <2>1, <2>3, <2>4
<1>4. ASSUME NEW p \in Threads, NEW q \in BOOLEAN, NEW at \in {"stack", "array"},
             PushBegin(p, q, at)
      PROVE  Types' /\ Locked' /\ Found'
  <2>1. Types'
    BY <1>4, <1>1 DEF Types, PushBegin, handlerVars
  <2>2. p \notin inside
    BY <1>4 DEF PushBegin, CanCall, Locked, Held
  <2>3. Locked'
    BY <1>4, <1>1, <2>2 DEF Locked, Types, PushBegin, CanCall, Held, handlerVars
  <2>4. Found'
    BY <1>4, <1>0, <1>1, <2>2 DEF Found, Types, PushBegin
  <2>5. QED
    BY <2>1, <2>3, <2>4
<1>5. ASSUME NEW p \in Threads, PopEmpty(p) PROVE Types' /\ Locked' /\ Found'
  <2>1. Types'
    BY <1>5, <1>1, AtExitAssumption DEF Types, PopEmpty, Goto, PCs, handlerVars
  <2>2. push[p] = NoPush
    BY <1>5 DEF PopEmpty, Goto, Locked
  <2>3. Locked'
    BY <1>5, <1>1, <2>2 DEF Locked, Types, PopEmpty, Goto, Held, handlerVars
  <2>4. slot' = [slot EXCEPT ![p] = FnCount - 1] /\ found' = [found EXCEPT ![p] = array[FnCount - 1]]
    BY <1>5 DEF PopEmpty
  <2>5. found'[p] = array'[slot'[p]] /\ push'[p].at # "array"
    BY <1>0, <1>5, <2>2, <2>4 DEF Types, NoPush, PopEmpty
  <2>6. \A r \in Threads : r # p => /\ found'[r] = found[r] /\ slot'[r] = slot[r]
                                   /\ pc'[r] = pc[r] /\ push'[r] = push[r]
    BY <1>5, <2>4 DEF Types, PopEmpty, Goto
  <2>7. Found'
    BY <1>0, <1>1, <2>5, <2>6 DEF Found, Locked
  <2>8. QED
    BY <2>1, <2>3, <2>7
<1>6. ASSUME NEW p \in Threads, Return(p) PROVE Types' /\ Locked' /\ Found'
  <2>1. Types'
    BY <1>6, <1>1 DEF Types, Return, Goto, PCs, handlerVars
  <2>2. p \notin inside
    BY <1>6 DEF Return, Goto, CanCall, Locked, Held
  <2>3. Locked'
    BY <1>6, <1>1, <2>2 DEF Locked, Types, Return, Goto, CanCall, Held, handlerVars
  <2>4. Found'
    BY <1>6, <1>0, <1>1, <2>2 DEF Found, Types, Return, Goto
  <2>5. QED
    BY <2>1, <2>3, <2>4
<1>7. ASSUME NEW p \in Threads, EndExit(p) PROVE Types' /\ Locked' /\ Found'
  <2>1. Types'
    BY <1>7, <1>1 DEF Types, EndExit, Goto, PCs, handlerVars
  <2>2. push[p] = NoPush
    BY <1>7 DEF EndExit, Goto, Locked
  <2>3. Locked'
    BY <1>7, <1>1, <2>2 DEF Locked, Types, EndExit, Goto, Held, handlerVars
  <2>4. Found'
    BY <1>7, <1>0, <1>1 DEF Found, Types, EndExit, Goto
  <2>5. QED
    BY <2>1, <2>3, <2>4
<1>8. CASE UNCHANGED localVars
  <2>1. Types'
    BY <1>1, <1>8 DEF Types, localVars, handlerVars
  <2>2. Locked'
    BY <1>1, <1>8 DEF Locked, localVars, handlerVars
  <2>3. Found'
    BY <1>0, <1>1, <1>8 DEF Found, localVars
  <2>4. QED
    BY <1>2, <2>1, <2>2, <2>3
<1>9. QED
  BY <1>2, <1>3, <1>4, <1>5, <1>6, <1>7, <1>8 DEF Outside, GoOnInCxa, CallCxa, LeaveAtExit

LEMMA LockingOK ==
  ASSUME ~ met', IInv, Locking PROVE IInv'
<1> USE DEF IInv
<1>1. UNCHANGED handlerVars
  BY DEF Locking, PushLock, LockFirst, Resume
<1>2. Placed'
  BY <1>1 DEF Placed, handlerVars
<1>3. stack \in Seq(Nat) /\ stack' = stack
  BY <1>1 DEF Placed, PlacedOf, handlerVars
<1>0. FirstEmpty' = FirstEmpty /\ array' = array
  BY <1>1 DEF FirstEmpty, FreeSlots, handlerVars
<1>4. ASSUME NEW p \in Threads, PushLock(p) PROVE Types' /\ Locked' /\ Found'
  <2>1. Types'
    BY <1>4, <1>1, <1>3 DEF Types, PushLock, handlerVars
  <2>2. inside = {} /\ inside' = {p}
    BY <1>4, EnterAlone DEF PushLock
  <2>3. Locked'
    BY <1>4, <1>3, <2>2 DEF Locked, Types, PushLock, Held
  <2>4. /\ pc' = pc /\ push' = push /\ pc[p] # "scan"
        /\ found' = [found EXCEPT ![p] = IF push[p].at = "array" THEN FirstEmpty ELSE 0]
    BY <1>4 DEF PushLock, Locked
  <2>5. Found'
    BY <1>0, <2>2, <2>4 DEF Found, Types
  <2>6. QED
    BY <2>1, <2>3, <2>5
<1>5. ASSUME NEW p \in Threads, LockFirst(p) PROVE Types' /\ Locked' /\ Found'
  <2>1. Types'
    BY <1>5, <1>1, <1>3 DEF Types, LockFirst, Goto, PCs, handlerVars
  <2>2. inside = {} /\ inside' = {p}
    BY <1>5, EnterAlone DEF LockFirst
  <2>3. push[p] = NoPush
    BY <1>5 DEF LockFirst, Goto, Locked
  <2>4. Locked'
    BY <1>5, <1>3, <2>2, <2>3 DEF Locked, Types, LockFirst, Goto, Held
  <2>5. Found'
    BY <1>5, <2>2, <2>3 DEF Found, Types, LockFirst, Goto, NoPush
  <2>6. QED
    BY <2>1, <2>4, <2>5
<1>6. ASSUME NEW p \in Threads, Resume(p) PROVE Types' /\ Locked' /\ Found'
  <2> DEFINE next == ResumeAt(slot[p], pc[p] = "called")
  <2>1. /\ next[1] \in {"pop", "scan", "ending"}
        /\ next[2] \in 0 .. FnCount
        /\ next[1] = "scan" => next[2] # FnCount
    BY AtExitAssumption DEF ResumeAt, Types
  <2>2. /\ pc' = [pc EXCEPT ![p] = next[1]]
        /\ slot' = [slot EXCEPT ![p] = next[2]]
        /\ saw' = [saw EXCEPT ![p] = IF next[1] = "pop" THEN stack ELSE <<>>]
        /\ found' = [found EXCEPT ![p] = IF next[1] = "scan" THEN array[next[2]] ELSE 0]
        /\ UNCHANGED <<quick, push>>
        /\ pc[p] \in {"skipped", "called"}
    BY <1>6 DEF Resume
  <2>3. inside = {} /\ inside' = {p}
    BY <1>6, EnterAlone DEF Resume
  <2> HIDE DEF next
  <2>4. Types'
    BY <1>1, <1>3, <2>1, <2>2, Once0 DEF Types, PCs, handlerVars
  <2>5. push[p] = NoPush
    BY <2>2 DEF Locked
  <2>6. Locked'
    BY <1>3, <2>1, <2>2, <2>3, <2>5 DEF Locked, Types, Held
  <2>7. Found'
    BY <1>0, <2>2, <2>3, <2>5 DEF Found, Types, NoPush
  <2>8. QED
    BY <2>4, <2>6, <2>7
<1>7. QED
  BY <1>2, <1>4, <1>5, <1>6 DEF Locking

\* Who gives the lock back leaves the other threads without it.
LEMMA LeaveAlone ==
  ASSUME Locked, NEW p \in inside, p \in Threads, LeaveLock(p) PROVE inside' = {}
BY DEF Locked, LeaveLock

\* With nobody in the lock, nothing has been read.
LEMMA NothingFound == inside' = {} => Found'
BY DEF Found

LEMMA PushDoneOK ==
  ASSUME IInv, NEW p \in Threads, push[p] # NoPush, PushDone(p), accepted' \in Seq(Kinds)
  PROVE  Types' /\ Locked' /\ Found'
<1> USE DEF IInv
<1>1. inside' = {}
  BY LeaveAlone DEF PushDone
<1>2. Types'
  BY Once0, AtExitAssumption DEF Types, PushDone, NoPush
<1>3. push' = [push EXCEPT ![p] = NoPush] /\ pc' = pc /\ p \in inside /\ pc[p] \notin Held
  BY DEF PushDone, Locked, Held
<1>4. \A r \in Threads : pc[r] \notin Held
  BY <1>3 DEF Locked
<1>5. Locked'
  BY <1>1, <1>3, <1>4 DEF Locked, Types
<1>6. QED
  BY <1>1, <1>2, <1>5, NothingFound

\* Accept(p) appends one.
LEMMA AcceptOne ==
  ASSUME Types, NEW p \in Threads, Accept(p)
  PROVE  accepted' \in Seq(Kinds) /\ Len(accepted') = Len(accepted) + 1
<1> DEFINE kind == [quick |-> push[p].quick, owed |-> Exiting = {} \/ pc[p] = "running"]
<1>1. kind \in Kinds
  <2>1. push[p].quick \in BOOLEAN
    BY DEF Types
  <2>2. (Exiting = {} \/ pc[p] = "running") \in BOOLEAN
    OBVIOUS
  <2>3. QED
    BY <2>1, <2>2 DEF Kinds
<1>2. accepted \in Seq(Kinds) /\ accepted' = Append(accepted, kind)
  BY DEF Types, Accept
<1> HIDE DEF kind
<1>3. QED
  BY <1>1, <1>2

LEMMA PushNodeOK ==
  ASSUME IInv, NEW p \in Threads, PushNode(p) PROVE IInv'
<1> USE DEF IInv
<1>1. accepted \in Seq(Kinds) /\ accepted' \in Seq(Kinds) /\ Len(accepted') = Len(accepted) + 1
  BY AcceptOne DEF PushNode, Types
<1>2. push[p] # NoPush
  BY DEF PushNode, NoPush
<1>3. Types' /\ Locked' /\ Found'
  BY <1>1, <1>2, PushDoneOK DEF PushNode
<1>4. saw[p] = stack
  BY <1>2 DEF PushNode, PushDone, Locked
<1>5. PlacedOf(<<Len(accepted')>> \o stack, array, ran, Len(accepted'))
  BY <1>1, NodePlaced
<1>6. stack' = <<Len(accepted')>> \o stack /\ array' = array /\ ran' = ran
  BY <1>4 DEF PushNode, PushDone
<1>7. Placed'
  BY <1>5, <1>6 DEF Placed
<1>8. QED
  BY <1>3, <1>7

\* The slot that is filled is the first empty one.
LEMMA MinFree ==
  ASSUME array \in [0 .. FnCount - 1 -> Nat], FreeSlots # {}
  PROVE  /\ Min(FreeSlots) \in 0 .. FnCount - 1 /\ array[Min(FreeSlots)] = 0
         /\ \A i \in 0 .. FnCount - 1 : i < Min(FreeSlots) => array[i] # 0
<1>1. FreeSlots \in SUBSET Nat /\ FreeSlots = {i \in 0 .. FnCount - 1 : array[i] = 0}
  BY DEF FreeSlots
<1>2. \E x \in FreeSlots : \A y \in FreeSlots : x <= y
  BY <1>1, LeastOf
<1>3. Min(FreeSlots) \in FreeSlots /\ \A y \in FreeSlots : Min(FreeSlots) <= y
  BY <1>2 DEF Min
<1>4. ASSUME NEW i \in 0 .. FnCount - 1, i < Min(FreeSlots) PROVE array[i] # 0
  <2>1. i \notin FreeSlots
    BY <1>1, <1>3, <1>4
  <2>2. QED
    BY <1>1, <2>1
<1>5. QED
  BY <1>1, <1>3, <1>4

\* What push() finds.
LEMMA FoundSlot ==
  ASSUME IInv, NEW p \in Threads, p \in inside, push[p].at = "array"
  PROVE  /\ found[p] # FnCount <=> FreeSlots # {}
         /\ FreeSlots # {} => found[p] = Min(FreeSlots)
<1>1. found[p] = FirstEmpty /\ array \in [0 .. FnCount - 1 -> Nat]
  BY DEF IInv, Found, Placed, PlacedOf
<1>2. FreeSlots # {} => Min(FreeSlots) # FnCount
  BY <1>1, MinFree, AtExitAssumption
<1>3. QED
  BY <1>1, <1>2 DEF FirstEmpty

LEMMA PushSlotOK ==
  ASSUME IInv, NEW p \in Threads, PushSlot(p) PROVE IInv'
<1> USE DEF IInv
<1>1. push[p] # NoPush /\ stack' = stack /\ ran' = ran
  BY DEF PushSlot, PushDone, NoPush
<1>0. /\ found[p] # FnCount <=> FreeSlots # {}
      /\ FreeSlots # {} => found[p] = Min(FreeSlots)
  BY FoundSlot DEF PushSlot, PushDone
<1>2. CASE saw[p] = <<>> /\ FreeSlots # {}
  <2>1. /\ accepted \in Seq(Kinds) /\ accepted' \in Seq(Kinds)
        /\ Len(accepted') = Len(accepted) + 1
    BY <1>0, <1>2, AcceptOne DEF PushSlot, Types
  <2>2. Types' /\ Locked' /\ Found'
    BY <1>1, <2>1, PushDoneOK DEF PushSlot
  <2>3. array' = [array EXCEPT ![Min(FreeSlots)] = Len(accepted')]
    BY <1>0, <1>2 DEF PushSlot
  <2>4. array \in [0 .. FnCount - 1 -> Nat]
    BY DEF Placed, PlacedOf
  <2>5. Min(FreeSlots) \in 0 .. FnCount - 1
    BY <1>2, <2>4, MinFree
  <2>6. PlacedOf(stack, array', ran, Len(accepted'))
    BY <2>1, <2>3, <2>5, SlotPlaced
  <2>7. Placed'
    BY <1>1, <2>6 DEF Placed
  <2>8. QED
    BY <2>2, <2>7
<1>3. CASE ~ (saw[p] = <<>> /\ FreeSlots # {})
  <2>1. UNCHANGED <<accepted, array>>
    BY <1>0, <1>3 DEF PushSlot
  <2>2. Types' /\ Locked' /\ Found'
    BY <1>1, <2>1, PushDoneOK DEF PushSlot, Types
  <2>3. Placed'
    BY <1>1, <2>1 DEF Placed
  <2>4. QED
    BY <2>2, <2>3
<1>4. QED
  BY <1>2, <1>3

LEMMA DispatchOK ==
  ASSUME IInv, NEW p \in Threads, NEW h, NEW from \in {"pop", "scan"}, Dispatch(p, h, from),
         UNCHANGED <<accepted, quick, push>>, saw' \in [Threads -> Seq(Nat)],
         slot' \in [Threads -> 0 .. FnCount], DOMAIN found' = Threads
  PROVE  Types' /\ Locked' /\ Found'
<1> USE DEF IInv
<1>1. pc[p] \in {"pop", "scan"}
  BY DEF Dispatch
<1>2. p \in inside /\ inside' = {} /\ push[p] = NoPush
  BY <1>1, LeaveAlone DEF Dispatch, Locked, Held
<1>3. PICK to \in {"running", "skipped"} : pc' = [pc EXCEPT ![p] = to]
  BY DEF Dispatch
<1>4. \A r \in Threads : r # p => pc[r] \notin Held
  BY <1>2 DEF Locked
<1>5. \A r \in Threads : pc'[r] \notin Held
  BY <1>3, <1>4 DEF Types, Held
<1>6. Locked'
  BY <1>2, <1>3, <1>5 DEF Locked, Types
<1>7. Types'
  BY <1>3, <1>5 DEF Types, PCs, Held
<1>8. QED
  BY <1>2, <1>6, <1>7, NothingFound

LEMMA PopNodeOK ==
  ASSUME IInv, NEW p \in Threads, PopNode(p) PROVE IInv'
<1> USE DEF IInv
<1>1. saw[p] = stack /\ stack # <<>>
  BY DEF PopNode, Dispatch, Locked, Held
<1>2. stack \in Seq(Nat) /\ Once(stack)
  BY DEF Placed, PlacedOf
<1> DEFINE h == Head(stack)  st == Tail(stack)
<1>3. /\ st \in Seq(Nat) /\ Once(st) /\ h \in Nat
      /\ h \in ToSet(stack) /\ ToSet(st) = ToSet(stack) \ {h}
  BY <1>1, <1>2, TailOnce
<1>4. /\ Dispatch(p, h, "pop") /\ stack' = st
      /\ UNCHANGED <<array, accepted, quick, push>>
      /\ saw' \in [Threads -> Seq(Nat)] /\ slot' \in [Threads -> 0 .. FnCount]
      /\ DOMAIN found' = Threads
  BY <1>1, Once0, AtExitAssumption DEF PopNode, Types
<1> HIDE DEF h, st
<1>5. Types' /\ Locked' /\ Found'
  BY <1>4, DispatchOK
<1>6. PlacedOf(st, array, ran, Len(accepted))
  BY <1>3 DEF Placed, PlacedOf
<1>7. CASE ran' = Append(ran, h)
  <2>1. h \in 1 .. Len(accepted) /\ Len(accepted) \in Nat
    BY <1>3 DEF Placed, PlacedOf, Types
  <2>2. h \notin ToSet(st) \cup ToSet(ran)
    BY <1>3 DEF Placed, PlacedOf
  <2>3. \A i \in 0 .. FnCount - 1 : array[i] # h
    BY <1>3, <2>1 DEF Placed, PlacedOf
  <2>4. PlacedOf(st, array, Append(ran, h), Len(accepted))
    BY <1>6, <2>1, <2>2, <2>3, CallPlaced
  <2>5. Placed'
    BY <1>4, <1>7, <2>4 DEF Placed
  <2>6. QED
    BY <1>5, <2>5
<1>8. CASE ran' = ran
  <2>1. Placed'
    BY <1>4, <1>6, <1>8 DEF Placed
  <2>2. QED
    BY <1>5, <2>1
<1>9. QED
  BY <1>4, <1>7, <1>8 DEF Dispatch

LEMMA TakeSlotOK ==
  ASSUME IInv, NEW p \in Threads, TakeSlot(p) PROVE IInv'
<1> USE DEF IInv
<1> DEFINE k == slot[p]  h == array[k]  ar == [array EXCEPT ![k] = 0]
<1>1. k \in 0 .. FnCount - 1
  BY AtExitAssumption DEF TakeSlot, Dispatch, Types
<1>2. /\ array \in [0 .. FnCount - 1 -> Nat] /\ h \in Nat
      /\ ar \in [0 .. FnCount - 1 -> Nat] /\ ar[k] = 0
      /\ \A i \in 0 .. FnCount - 1 : i # k => ar[i] = array[i]
  BY <1>1 DEF Placed, PlacedOf
<1>0. found[p] = h
  BY DEF TakeSlot, Dispatch, Locked, Held, Found
<1>3. /\ Dispatch(p, h, "scan") /\ array' = ar
      /\ UNCHANGED <<stack, accepted, quick, push>>
      /\ saw' \in [Threads -> Seq(Nat)] /\ slot' \in [Threads -> 0 .. FnCount]
      /\ DOMAIN found' = Threads
  BY <1>0 DEF TakeSlot, Types
<1> HIDE DEF k, h, ar
<1>4. Types' /\ Locked' /\ Found'
  BY <1>3, DispatchOK
<1>5. Len(accepted) \in Nat
  BY DEF Types
<1>6. PlacedOf(stack, ar, ran, Len(accepted))
  BY <1>1, <1>2, <1>5 DEF Placed, PlacedOf
<1>7. CASE h # 0 /\ ran' = Append(ran, h)
  <2>1. h \in 1 .. Len(accepted) /\ h \notin ToSet(stack) \cup ToSet(ran)
    BY <1>1, <1>2, <1>5, <1>7 DEF Placed, PlacedOf, h
  <2>2. \A i \in 0 .. FnCount - 1 : ar[i] # h
    BY <1>1, <1>2, <1>7 DEF Placed, PlacedOf, h
  <2>3. PlacedOf(stack, ar, Append(ran, h), Len(accepted))
    BY <1>5, <1>6, <2>1, <2>2, CallPlaced
  <2>4. Placed'
    BY <1>3, <1>7, <2>3 DEF Placed
  <2>5. QED
    BY <1>4, <2>4
<1>8. CASE ran' = ran
  <2>1. Placed'
    BY <1>3, <1>6, <1>8 DEF Placed
  <2>2. QED
    BY <1>4, <2>1
<1>9. QED
  BY <1>3, <1>7, <1>8 DEF Dispatch

LEMMA EndOK ==
  ASSUME IInv, NEW p \in Threads, EndQuick(p) \/ EndDtors(p) PROVE IInv'
<1> USE DEF IInv
<1>1. UNCHANGED <<handlerVars, quick, slot, push, saw, found>>
  BY DEF EndQuick, EndDtors
<1>2. pc[p] \in {"ending", "dtors"} /\ pc' = [pc EXCEPT ![p] = "done"] /\ LeaveLock(p)
  BY DEF EndQuick, EndDtors, Goto
<1>3. p \in inside /\ push[p] = NoPush
  BY <1>2 DEF Locked, Held
<1>4. inside' = {}
  BY <1>2, <1>3, LeaveAlone
<1>5. Locked'
  BY <1>1, <1>2, <1>3, <1>4 DEF Locked, Types, Held
<1>6. Types'
  BY <1>1, <1>2 DEF Types, PCs, handlerVars
<1>7. Placed'
  BY <1>1 DEF Placed, handlerVars
<1>8. QED
  BY <1>4, <1>5, <1>6, <1>7, NothingFound
-----------------------------------------------------------------------------
\* Two threads that have met have met for good.
LEMMA MetStays ==
  ASSUME [Next]_vars, ~ met' PROVE ~ met
<1>1. CASE Outside
  <2>1. met' = met
    BY <1>1 DEF Outside, Exit, PushBegin, PopEmpty, Return, EndExit, GoOnInCxa, CallCxa,
                LeaveAtExit, lockVars
  <2>2. QED
    BY <2>1
<1>2. CASE Locking
  BY <1>2, EnterAlone DEF Locking, PushLock, LockFirst, Resume
<1>3. CASE Leaving
  <2>1. met' = met
    BY <1>3 DEF Leaving, PushNode, PushSlot, PushDone, PopNode, TakeSlot, Dispatch, EndQuick,
                EndDtors, LeaveLock
  <2>2. QED
    BY <2>1
<1>4. CASE UNCHANGED vars
  BY <1>4 DEF vars, lockVars
<1>5. QED
  BY <1>1, <1>2, <1>3, <1>4 DEF Next, Continue, Outside, Locking, Leaving

LEMMA NextOK ==
  ASSUME ~ met', IInv, [Next]_vars PROVE IInv'
<1>1. CASE Outside
  BY <1>1, OutsideOK
<1>2. CASE Locking
  BY <1>2, LockingOK
<1>3. CASE Leaving
  BY <1>3, PushNodeOK, PushSlotOK, PopNodeOK, TakeSlotOK, EndOK DEF Leaving
<1>4. CASE UNCHANGED vars
  <2>1. FirstEmpty' = FirstEmpty
    BY <1>4 DEF FirstEmpty, FreeSlots, vars, handlerVars
  <2>2. QED
    BY <1>4, <2>1 DEF IInv, Types, Locked, Placed, Found, vars, handlerVars, lockVars, localVars
<1>5. QED
  BY <1>1, <1>2, <1>3, <1>4 DEF Next, Continue, Outside, Locking, Leaving

\* The inductive invariant: the premise is what the code gives no more than.
Apart == ~ met => IInv

LEMMA ApartOK == ASSUME Apart, [Next]_vars PROVE Apart'
<1> SUFFICES ASSUME ~ met' PROVE IInv'
  BY DEF Apart
<1>1. ~ met
  BY MetStays
<1>2. QED
  BY <1>1, NextOK DEF Apart

LEMMA OnceOK ==
  ASSUME Placed, accepted \in Seq(Kinds) PROVE CalledOnce
<1>1. \A i, j \in DOMAIN ran : ran[i] = ran[j] => i = j
  BY DEF Placed, PlacedOf, Once
<1>2. ASSUME NEW h \in ToSet(ran), h \in Pending PROVE FALSE
  <2>1. h # 0 /\ h \notin ToSet(stack)
    BY <1>2 DEF Placed, PlacedOf, Pending
  <2>2. PICK i \in DOMAIN array : h = array[i]
    BY <1>2, <2>1 DEF Pending
  <2>3. DOMAIN array = 0 .. FnCount - 1
    BY DEF Placed, PlacedOf
  <2>4. QED
    BY <1>2, <2>1, <2>2, <2>3 DEF Placed, PlacedOf
<1>3. QED
  BY <1>1, <1>2 DEF CalledOnce

\* As long as no two threads had fn_lock at once, no handler is called twice, or
\* still registered when it was called, however many threads register and exit:
\* push() and pop() are reads followed by writes, and only the lock keeps them
\* apart.
THEOREM CalledOnceHolds == Spec => []CalledOnce
<1>1. Init => Apart
  BY InitOK DEF Apart
<1>2. Apart /\ [Next]_vars => Apart'
  BY ApartOK
<1>3. Apart => CalledOnce
  BY OnceOK DEF Apart, IInv, Types, CalledOnce
<1>4. QED
  BY <1>1, <1>2, <1>3, PTL DEF Spec

\* fn_lock is given back around every handler.  Until two threads have met in
\* it, whoever works on the stack or the array has it, and what that thread has
\* read of them is still so.
THEOREM LockDiscipline == Spec => [](~ met => Locked /\ Found)
<1>1. Init => Apart
  BY InitOK DEF Apart
<1>2. Apart /\ [Next]_vars => Apart'
  BY ApartOK
<1>3. Apart => (~ met => Locked /\ Found)
  BY DEF Apart, IInv
<1>4. QED
  BY <1>1, <1>2, <1>3, PTL DEF Spec
-----------------------------------------------------------------------------
(* The table of destructors.                                               *)

\* One turn of the loop of TakenOut, the k-th, on what those before it left.
Turn(table, S, before, k) ==
  LET i == Len(table) - k + 1
  IN  IF table[i] \in S
        THEN [left |-> RemoveAt(before.left, i), out |-> Append(before.out, table[i])]
        ELSE before
Turns(f, table, S, n) ==
  f = [k \in 0 .. n |-> IF k = 0 THEN [left |-> table, out |-> <<>>]
                                 ELSE Turn(table, S, f[k - 1], k)]

\* The loop ends: it has a turn after each turn.
LEMMA TurnsExist == ASSUME NEW table \in Seq(Nat), NEW S PROVE \E f : Turns(f, table, S, Len(table))
<1> DEFINE n == Len(table)
           T == {m \in 0 .. n : \E f : Turns(f, table, S, m)}
<1>1. n \in Nat
  OBVIOUS
<1>2. 0 \in T
  <2>1. Turns([k \in 0 .. 0 |-> [left |-> table, out |-> <<>>]], table, S, 0)
    BY DEF Turns
  <2>2. QED
    BY <1>1, <2>1
<1>3. ASSUME NEW m \in 0 .. n - 1, m \in T PROVE m + 1 \in T
  <2>1. PICK f : Turns(f, table, S, m)
    BY <1>3
  <2> DEFINE g == [k \in 0 .. m + 1 |-> IF k <= m THEN f[k] ELSE Turn(table, S, f[m], m + 1)]
  <2>2. \A k \in 0 .. m : g[k] = f[k]
    BY <1>1
  <2>3. g[m + 1] = Turn(table, S, g[m], m + 1)
    BY <1>1, <2>2
  <2>4. \A k \in 0 .. m : f[k] = IF k = 0 THEN [left |-> table, out |-> <<>>]
                                          ELSE Turn(table, S, f[k - 1], k)
    BY <2>1 DEF Turns
  <2>5. \A k \in 0 .. m + 1 : g[k] = IF k = 0 THEN [left |-> table, out |-> <<>>]
                                              ELSE Turn(table, S, g[k - 1], k)
    <3> SUFFICES ASSUME NEW k \in 0 .. m + 1
                 PROVE  g[k] = IF k = 0 THEN [left |-> table, out |-> <<>>]
                                        ELSE Turn(table, S, g[k - 1], k)
      OBVIOUS
    <3> HIDE DEF g
    <3>1. CASE k = m + 1
      BY <1>1, <2>3, <3>1
    <3>2. CASE k \in 1 .. m
      <4>1. k - 1 \in 0 .. m
        BY <3>2
      <4>2. QED
        BY <2>2, <2>4, <3>2, <4>1
    <3>3. CASE k = 0
      BY <1>1, <2>2, <2>4, <3>3
    <3>4. QED
      BY <1>1, <3>1, <3>2, <3>3
  <2>6. g = [k \in 0 .. m + 1 |-> g[k]]
    OBVIOUS
  <2>7. Turns(g, table, S, m + 1)
    <3> HIDE DEF g
    <3>1. QED
      BY <2>5, <2>6 DEF Turns
  <2>8. QED
    BY <1>1, <2>7
<1>4. n \in T
  <2> HIDE DEF T
  <2>1. \A i \in 0 .. n - 1 : i \in T => i + 1 \in T
    BY <1>3
  <2>2. \A i \in 0 .. n : i \in T
    BY <1>1, <1>2, <2>1, CountUp
  <2>3. QED
    BY <1>1, <2>2
<1>5. QED
  BY <1>4

LEMMA TakenOutTurns ==
  ASSUME NEW table \in Seq(Nat), NEW S
  PROVE  \E f : Turns(f, table, S, Len(table)) /\ TakenOut(table, S) = f[Len(table)]
<1> DEFINE After == CHOOSE f : Turns(f, table, S, Len(table))
<1>1. Turns(After, table, S, Len(table))
  BY TurnsExist
<1>2. TakenOut(table, S) = After[Len(table)]
  BY DEF TakenOut, Turns, Turn
<1>3. QED
  BY <1>1, <1>2

Rising(s)  == \A i, j \in DOMAIN s : i < j => s[i] < s[j]
Falling(s) == \A i, j \in DOMAIN s : i < j => s[j] < s[i]

LEMMA RemoveAtIs ==
  ASSUME NEW s \in Seq(Nat), NEW i \in 1 .. Len(s)
  PROVE  /\ RemoveAt(s, i) \in Seq(Nat) /\ Len(RemoveAt(s, i)) = Len(s) - 1
         /\ \A j \in 1 .. Len(s) - 1 : RemoveAt(s, i)[j] = IF j < i THEN s[j] ELSE s[j + 1]
<1> DEFINE a == SubSeq(s, 1, i - 1)  b == SubSeq(s, i + 1, Len(s))
<1>1. Len(s) \in Nat /\ i \in Nat /\ i >= 1 /\ i <= Len(s)
  OBVIOUS
<1>2. a \in Seq(Nat) /\ Len(a) = i - 1 /\ \A j \in 1 .. i - 1 : a[j] = s[j]
  BY <1>1
<1>3. b \in Seq(Nat) /\ Len(b) = Len(s) - i /\ \A j \in 1 .. Len(s) - i : b[j] = s[j + i]
  <2>1. \A j \in i + 1 .. Len(s) : s[j] \in Nat
    BY <1>1
  <2>2. /\ b \in Seq(Nat) /\ Len(b) = IF i + 1 <= Len(s) THEN Len(s) - (i + 1) + 1 ELSE 0
        /\ \A j \in 1 .. Len(s) - (i + 1) + 1 : b[j] = s[(i + 1) + j - 1]
    BY <1>1, <2>1, SubSeqProperties
  <2>3. QED
    BY <1>1, <2>2
<1>4. RemoveAt(s, i) = a \o b
  BY DEF RemoveAt
<1> HIDE DEF a, b
<1>5. /\ a \o b \in Seq(Nat) /\ Len(a \o b) = Len(s) - 1
      /\ \A j \in 1 .. Len(s) - 1 : (a \o b)[j] = IF j < i THEN a[j] ELSE b[j - i + 1]
  <2>1. /\ a \o b \in Seq(Nat) /\ Len(a \o b) = Len(a) + Len(b)
        /\ \A j \in 1 .. Len(a) + Len(b) :
             (a \o b)[j] = IF j <= Len(a) THEN a[j] ELSE b[j - Len(a)]
    BY <1>2, <1>3, ConcatProperties
  <2>2. Len(a) = i - 1 /\ Len(a) + Len(b) = Len(s) - 1
    BY <1>1, <1>2, <1>3
  <2>3. ASSUME NEW j \in 1 .. Len(s) - 1
        PROVE  (a \o b)[j] = IF j < i THEN a[j] ELSE b[j - i + 1]
    <3>1. j \in Int /\ j \in 1 .. Len(a) + Len(b)
      BY <2>2
    <3>2. j - Len(a) = j - i + 1 /\ (j <= Len(a) <=> j < i)
      BY <1>1, <2>2, <3>1
    <3>3. QED
      BY <2>1, <3>1, <3>2
  <2>4. QED
    BY <2>1, <2>2, <2>3
<1>6. ASSUME NEW j \in 1 .. Len(s) - 1 PROVE (a \o b)[j] = IF j < i THEN s[j] ELSE s[j + 1]
  <2>0. j \in Int
    OBVIOUS
  <2>1. CASE j < i
    BY <1>1, <1>2, <1>5, <2>1
  <2>2. CASE j >= i
    <3>1. j - i + 1 \in 1 .. Len(s) - i /\ (j - i + 1) + i = j + 1
      BY <1>1, <2>2
    <3>2. b[j - i + 1] = s[(j - i + 1) + i]
      BY <1>3, <3>1
    <3>3. ~ (j < i)
      BY <1>1, <2>0, <2>2
    <3>4. (a \o b)[j] = b[j - i + 1]
      BY <1>5, <3>3, Zenon
    <3>5. QED
      BY <3>1, <3>2, <3>3, <3>4
  <2>3. j < i \/ j >= i
    BY <1>1, <2>0
  <2>4. QED
    BY <2>1, <2>2, <2>3
<1>7. QED
  BY <1>4, <1>5, <1>6

LEMMA RemoveAtRising ==
  ASSUME NEW s \in Seq(Nat), NEW i \in 1 .. Len(s), Rising(s)
  PROVE  Rising(RemoveAt(s, i)) /\ ToSet(RemoveAt(s, i)) = ToSet(s) \ {s[i]}
<1> DEFINE u == RemoveAt(s, i)
<1>1. /\ u \in Seq(Nat) /\ Len(u) = Len(s) - 1 /\ Len(s) \in Nat
      /\ \A j \in 1 .. Len(s) - 1 : u[j] = IF j < i THEN s[j] ELSE s[j + 1]
  <2>1. Len(s) \in Nat
    OBVIOUS
  <2>2. /\ u \in Seq(Nat) /\ Len(u) = Len(s) - 1
        /\ \A j \in 1 .. Len(s) - 1 : u[j] = IF j < i THEN s[j] ELSE s[j + 1]
    BY RemoveAtIs, Zenon
  <2>3. QED
    BY <2>1, <2>2
<1> HIDE DEF u
<1>2. /\ DOMAIN u = 1 .. Len(s) - 1 /\ DOMAIN s = 1 .. Len(s)
      /\ \A j \in DOMAIN s : s[j] \in Nat
      /\ \A j \in DOMAIN u : u[j] \in Nat
  <2>1. DOMAIN u = 1 .. Len(u) /\ DOMAIN s = 1 .. Len(s)
    BY <1>1, LenProperties
  <2>2. \A j \in 1 .. Len(u) : u[j] \in Nat
    BY <1>1, ElementOfSeq
  <2>3. \A j \in 1 .. Len(s) : s[j] \in Nat
    BY ElementOfSeq
  <2>4. QED
    BY <1>1, <2>1, <2>2, <2>3
<1>3. Rising(u)
  <2> SUFFICES ASSUME NEW j \in DOMAIN u, NEW k \in DOMAIN u, j < k PROVE u[j] < u[k]
    BY DEF Rising
  <2> DEFINE At(m) == IF m < i THEN m ELSE m + 1
  <2>0. /\ j \in Int /\ k \in Int /\ i \in Int
        /\ 1 <= j /\ j <= Len(s) - 1 /\ 1 <= k /\ k <= Len(s) - 1
        /\ Len(s) \in Int /\ DOMAIN s = 1 .. Len(s)
    BY <1>1, <1>2
  <2>1. At(j) \in DOMAIN s /\ At(k) \in DOMAIN s /\ At(j) < At(k)
    BY <2>0
  <2>2. u[j] = s[At(j)] /\ u[k] = s[At(k)]
    BY <1>1, <1>2
  <2> HIDE DEF At
  <2>3. QED
    BY <2>1, <2>2 DEF Rising
<1>4. ASSUME NEW j \in DOMAIN u PROVE u[j] \in ToSet(s) \ {s[i]}
  <2>0. j \in Int /\ i \in Int /\ i \in DOMAIN s /\ s[i] \in Nat
    BY <1>1, <1>2
  <2>4. j \in 1 .. Len(s) - 1 /\ Len(s) \in Nat /\ DOMAIN s = 1 .. Len(s)
    BY <1>1, <1>2
  <2>5. u[j] = IF j < i THEN s[j] ELSE s[j + 1]
    BY <1>1, <2>4
  <2>6. j \in DOMAIN s /\ j + 1 \in DOMAIN s
    BY <2>4
  <2>1. CASE j < i
    <3>1. j \in DOMAIN s /\ u[j] = s[j]
      BY <2>1, <2>5, <2>6
    <3>2. s[j] < s[i] /\ s[j] \in Nat
      BY <1>2, <2>0, <2>1, <3>1 DEF Rising
    <3>3. QED
      BY <2>0, <3>1, <3>2 DEF ToSet
  <2>2. CASE j >= i
    <3>0. ~ (j < i) /\ i < j + 1
      BY <2>0, <2>2
    <3>1. j + 1 \in DOMAIN s /\ u[j] = s[j + 1] /\ i < j + 1
      BY <2>5, <2>6, <3>0
    <3>2. s[i] < s[j + 1] /\ s[j + 1] \in Nat
      BY <1>2, <2>0, <3>1 DEF Rising
    <3>3. QED
      BY <2>0, <3>1, <3>2 DEF ToSet
  <2>3. QED
    BY <1>1, <1>2, <2>1, <2>2
<1>5. ASSUME NEW j \in DOMAIN s, s[j] # s[i] PROVE s[j] \in ToSet(u)
  <2>1. CASE j < i
    <3>1. j \in DOMAIN u /\ u[j] = s[j]
      BY <1>1, <1>2, <2>1
    <3>2. QED
      BY <3>1 DEF ToSet
  <2>2. CASE j > i
    <3>0. /\ j \in Int /\ i \in Int /\ Len(s) \in Int /\ 1 <= i /\ j <= Len(s)
          /\ DOMAIN u = 1 .. Len(s) - 1
      BY <1>1, <1>2
    <3>2. j - 1 \in 1 .. Len(s) - 1 /\ ~ (j - 1 < i) /\ (j - 1) + 1 = j
      BY <2>2, <3>0
    <3>3. u[j - 1] = s[(j - 1) + 1]
      BY <1>1, <3>2
    <3>4. QED
      BY <3>0, <3>2, <3>3 DEF ToSet
  <2>3. QED
    BY <1>2, <1>5, <2>1, <2>2
<1>6. \A x \in ToSet(u) : x \in ToSet(s) \ {s[i]}
  BY <1>4 DEF ToSet
<1>7. \A x \in ToSet(s) \ {s[i]} : x \in ToSet(u)
  BY <1>5 DEF ToSet
<1>8. QED
  BY <1>3, <1>6, <1>7 DEF u

LEMMA AppendFalling ==
  ASSUME NEW s \in Seq(Nat), NEW x \in Nat, Falling(s), \A y \in ToSet(s) : x < y
  PROVE  /\ Append(s, x) \in Seq(Nat) /\ Falling(Append(s, x))
         /\ ToSet(Append(s, x)) = ToSet(s) \cup {x}
<1> DEFINE u == Append(s, x)
<1>1. /\ u \in Seq(Nat) /\ Len(s) \in Nat /\ DOMAIN s = 1 .. Len(s)
      /\ DOMAIN u = 1 .. Len(s) + 1
      /\ \A i \in DOMAIN s : u[i] = s[i]
      /\ u[Len(s) + 1] = x
  OBVIOUS
<1> HIDE DEF u
<1>2. Falling(u)
  <2> SUFFICES ASSUME NEW i \in DOMAIN u, NEW j \in DOMAIN u, i < j PROVE u[j] < u[i]
    BY DEF Falling
  <2>1. i \in DOMAIN s /\ (j \in DOMAIN s \/ j = Len(s) + 1)
    BY <1>1
  <2>2. u[i] = s[i] /\ s[i] \in ToSet(s)
    BY <1>1, <2>1 DEF ToSet
  <2>3. CASE j \in DOMAIN s
    BY <1>1, <2>1, <2>2, <2>3 DEF Falling
  <2>4. CASE j = Len(s) + 1
    BY <1>1, <2>2, <2>4
  <2>5. QED
    BY <2>1, <2>3, <2>4
<1>3. ASSUME NEW i \in DOMAIN u PROVE u[i] \in ToSet(s) \cup {x}
  <2>1. i \in DOMAIN s \/ i = Len(s) + 1
    BY <1>1
  <2>2. QED
    BY <1>1, <2>1 DEF ToSet
<1>4. \A i \in DOMAIN s : s[i] \in ToSet(u)
  BY <1>1 DEF ToSet
<1>5. x \in ToSet(u)
  BY <1>1 DEF ToSet
<1>6. ToSet(u) = ToSet(s) \cup {x}
  BY <1>3, <1>4, <1>5 DEF ToSet
<1>7. QED
  BY <1>1, <1>2, <1>6 DEF u

LEMMA AppendRising ==
  ASSUME NEW s \in Seq(Nat), NEW x \in Nat, Rising(s), \A y \in ToSet(s) : y < x
  PROVE  /\ Append(s, x) \in Seq(Nat) /\ Rising(Append(s, x))
         /\ ToSet(Append(s, x)) = ToSet(s) \cup {x}
<1> DEFINE u == Append(s, x)
<1>1. /\ u \in Seq(Nat) /\ Len(s) \in Nat /\ DOMAIN s = 1 .. Len(s)
      /\ DOMAIN u = 1 .. Len(s) + 1
      /\ \A i \in DOMAIN s : u[i] = s[i]
      /\ u[Len(s) + 1] = x
  OBVIOUS
<1> HIDE DEF u
<1>2. Rising(u)
  <2> SUFFICES ASSUME NEW j \in DOMAIN u, NEW k \in DOMAIN u, j < k PROVE u[j] < u[k]
    BY DEF Rising
  <2>1. j \in DOMAIN s /\ u[j] = s[j]
    BY <1>1
  <2>2. CASE k \in DOMAIN s
    BY <1>1, <2>1, <2>2 DEF Rising
  <2>3. CASE k = Len(s) + 1
    BY <1>1, <2>1, <2>3 DEF ToSet
  <2>4. QED
    BY <1>1, <2>2, <2>3
<1>3. ASSUME NEW i \in DOMAIN u PROVE u[i] \in ToSet(s) \cup {x}
  <2>1. i \in DOMAIN s \/ i = Len(s) + 1
    BY <1>1
  <2>2. QED
    BY <1>1, <2>1 DEF ToSet
<1>4. \A i \in DOMAIN s : s[i] \in ToSet(u)
  BY <1>1 DEF ToSet
<1>5. x \in ToSet(u)
  BY <1>1 DEF ToSet
<1>6. ToSet(u) = ToSet(s) \cup {x}
  BY <1>3, <1>4, <1>5 DEF ToSet
<1>7. QED
  BY <1>1, <1>2, <1>6 DEF u

\* When the entries up to top are left to look at: they are where they were,
\* and those behind them that are in S have gone over, the latest first.
TurnsDone(table, S, top, left, out) ==
  LET n == Len(table)
  IN  /\ left \in Seq(Nat) /\ Rising(left)
      /\ out \in Seq(Nat) /\ Falling(out)
      /\ top <= Len(left)
      /\ \A i \in 1 .. top : left[i] = table[i]
      /\ \A x : x \in ToSet(left) <=>
                  \E j \in 1 .. n : x = table[j] /\ ~ (top < j /\ x \in S)
      /\ \A x : x \in ToSet(out) <=> \E j \in 1 .. n : x = table[j] /\ top < j /\ x \in S

LEMMA TurnKeepsDone ==
  ASSUME NEW table \in Seq(Nat), Rising(table), NEW S, NEW i \in 1 .. Len(table),
         NEW left, NEW out, TurnsDone(table, S, i, left, out)
  PROVE  /\ table[i] \in S =>
              TurnsDone(table, S, i - 1, RemoveAt(left, i), Append(out, table[i]))
         /\ table[i] \notin S => TurnsDone(table, S, i - 1, left, out)
<1> DEFINE n == Len(table)
<1>1. /\ n \in Nat /\ i \in Nat /\ 1 <= i /\ i <= n /\ i - 1 \in Nat
      /\ \A j \in 1 .. n : i - 1 < j <=> i < j \/ j = i
      /\ \A j \in 1 .. n : ~ (i < i)
      /\ \A j \in 1 .. i - 1 : j \in 1 .. i /\ j < i
  OBVIOUS
<1>2. /\ left \in Seq(Nat) /\ Rising(left) /\ Len(left) \in Nat
      /\ out \in Seq(Nat) /\ Falling(out)
      /\ i <= Len(left)
      /\ \A j \in 1 .. i : left[j] = table[j]
      /\ \A x : x \in ToSet(left) <=>
                  \E j \in 1 .. n : x = table[j] /\ ~ (i < j /\ x \in S)
      /\ \A x : x \in ToSet(out) <=> \E j \in 1 .. n : x = table[j] /\ i < j /\ x \in S
  BY DEF TurnsDone
<1>3. /\ \A j \in 1 .. n : table[j] \in Nat /\ j \in Int
      /\ \A j, m \in 1 .. n : j < m => table[j] < table[m]
  BY DEF Rising
<1>4. ASSUME table[i] \in S
      PROVE  TurnsDone(table, S, i - 1, RemoveAt(left, i), Append(out, table[i]))
  <2> DEFINE rest == RemoveAt(left, i)  more == Append(out, table[i])
  <2>1. i \in 1 .. Len(left) /\ left[i] = table[i]
    BY <1>1, <1>2
  <2>2. /\ rest \in Seq(Nat) /\ Len(rest) = Len(left) - 1
        /\ \A j \in 1 .. Len(left) - 1 : rest[j] = IF j < i THEN left[j] ELSE left[j + 1]
    BY <1>2, <2>1, RemoveAtIs
  <2>3. Rising(rest) /\ ToSet(rest) = ToSet(left) \ {table[i]}
    BY <1>2, <2>1, RemoveAtRising
  <2> HIDE DEF rest
  <2>4. i - 1 <= Len(rest) /\ \A j \in 1 .. i - 1 : rest[j] = table[j]
    <3>1. \A j \in 1 .. i - 1 : j \in 1 .. Len(left) - 1
      BY <1>1, <1>2
    <3>2. i - 1 <= Len(rest)
      BY <1>1, <1>2, <2>2
    <3>3. ASSUME NEW j \in 1 .. i - 1 PROVE rest[j] = table[j]
      <4>1. j < i /\ j \in 1 .. i /\ j \in 1 .. Len(left) - 1
        BY <1>1, <3>1
      <4>2. rest[j] = left[j] /\ left[j] = table[j]
        BY <1>2, <2>2, <4>1
      <4>3. QED
        BY <4>2
    <3>4. QED
      BY <3>2, <3>3
  <2>5. more \in Seq(Nat) /\ Falling(more) /\ ToSet(more) = ToSet(out) \cup {table[i]}
    <3>1. ASSUME NEW y \in ToSet(out) PROVE table[i] < y
      <4>1. PICK j \in 1 .. n : y = table[j] /\ i < j
        BY <1>2, <3>1
      <4>2. QED
        BY <1>3, <4>1
    <3>2. table[i] \in Nat
      BY <1>3
    <3>3. QED
      BY <1>2, <3>1, <3>2, AppendFalling
  <2> HIDE DEF more
  <2>6. ASSUME NEW j \in 1 .. n, table[j] = table[i] PROVE j = i
    <3>1. ~ (j < i) /\ ~ (i < j)
      BY <1>1, <1>3, <2>6
    <3>2. QED
      BY <1>1, <1>3, <3>1
  <2> DEFINE Left(x) == \E j \in 1 .. n : x = table[j] /\ ~ (i - 1 < j /\ x \in S)
             Out(x) == \E j \in 1 .. n : x = table[j] /\ i - 1 < j /\ x \in S
  <2>7. ASSUME NEW x PROVE x \in ToSet(rest) <=> Left(x)
    <3>1. ASSUME x \in ToSet(rest) PROVE Left(x)
      <4>1. x # table[i]
        BY <2>3, <3>1
      <4>2. PICK j \in 1 .. n : x = table[j] /\ ~ (i < j /\ x \in S)
        BY <1>2, <2>3, <3>1
      <4>3. QED
        BY <1>1, <4>1, <4>2
    <3>2. ASSUME Left(x) PROVE x \in ToSet(rest)
      <4>1. PICK j \in 1 .. n : x = table[j] /\ ~ (i - 1 < j /\ x \in S)
        BY <3>2
      <4>2. ~ (i < j /\ x \in S) /\ x # table[i]
        BY <1>1, <1>4, <2>6, <4>1
      <4>3. QED
        BY <1>2, <2>3, <4>1, <4>2
    <3>3. QED
      BY <3>1, <3>2
  <2>8. ASSUME NEW x PROVE x \in ToSet(more) <=> Out(x)
    <3>1. ASSUME x \in ToSet(out) PROVE Out(x)
      BY <1>1, <1>2, <3>1
    <3>2. Out(table[i])
      BY <1>1, <1>4
    <3>3. ASSUME Out(x), x # table[i] PROVE x \in ToSet(out)
      BY <1>1, <1>2, <3>3
    <3>4. QED
      BY <2>5, <3>1, <3>2, <3>3
  <2>9. QED
    BY <2>2, <2>3, <2>4, <2>5, <2>7, <2>8 DEF TurnsDone, rest, more
<1>5. ASSUME table[i] \notin S PROVE TurnsDone(table, S, i - 1, left, out)
  <2>1. i - 1 <= Len(left) /\ \A j \in 1 .. i - 1 : left[j] = table[j]
    BY <1>1, <1>2
  <2>2. ASSUME NEW x
        PROVE  /\ x \in ToSet(left) <=>
                    \E j \in 1 .. n : x = table[j] /\ ~ (i - 1 < j /\ x \in S)
               /\ x \in ToSet(out) <=>
                    \E j \in 1 .. n : x = table[j] /\ i - 1 < j /\ x \in S
    <3>1. \A j \in 1 .. n : x = table[j] =>
             ((i - 1 < j /\ x \in S) <=> (i < j /\ x \in S))
      BY <1>1, <1>5
    <3>2. QED
      BY <1>2, <3>1
  <2>3. QED
    BY <1>2, <2>1, <2>2 DEF TurnsDone
<1>6. QED
  BY <1>4, <1>5

\* What Take leaves and what it takes, whatever the length of the table.
LEMMA TakenOutIs ==
  ASSUME NEW table \in Seq(Nat), Rising(table), NEW S
  PROVE  LET t == TakenOut(table, S)
         IN  /\ t.left \in Seq(Nat) /\ Rising(t.left) /\ ToSet(t.left) = ToSet(table) \ S
             /\ t.out \in Seq(Nat) /\ Falling(t.out) /\ ToSet(t.out) = ToSet(table) \cap S
<1> DEFINE n == Len(table)
<1>1. n \in Nat /\ DOMAIN table = 1 .. n
  OBVIOUS
<1>2. PICK f : Turns(f, table, S, n) /\ TakenOut(table, S) = f[n]
  BY TakenOutTurns
<1> DEFINE Done(k) == TurnsDone(table, S, n - k, f[k].left, f[k].out)
           T == {k \in 0 .. n : Done(k)}
<1>3. \A k \in 0 .. n : f[k] = IF k = 0 THEN [left |-> table, out |-> <<>>]
                                        ELSE Turn(table, S, f[k - 1], k)
  BY <1>2 DEF Turns
<1>4. Done(0)
  <2>1. \A x : x \in ToSet(table) <=> \E j \in 1 .. n : x = table[j]
    BY <1>1 DEF ToSet
  <2>2. \A j \in 1 .. n : ~ (n < j)
    BY <1>1
  <2>3. ToSet(<<>>) = {} /\ <<>> \in Seq(Nat) /\ Falling(<<>>)
    BY DEF ToSet, Falling
  <2>4. TurnsDone(table, S, n, table, <<>>)
    BY <1>1, <2>1, <2>2, <2>3 DEF TurnsDone
  <2>5. f[0] = [left |-> table, out |-> <<>>] /\ n - 0 = n
    BY <1>1, <1>3
  <2>6. f[0].left = table /\ f[0].out = <<>>
    BY <2>5
  <2>7. QED
    BY <2>4, <2>5, <2>6
<1>5. ASSUME NEW k \in 0 .. n - 1, Done(k) PROVE Done(k + 1)
  <2> DEFINE i == n - k
  <2>1. /\ k + 1 \in 0 .. n /\ (k + 1) - 1 = k /\ k + 1 # 0 /\ i \in 1 .. n
        /\ n - (k + 1) = i - 1 /\ n - (k + 1) + 1 = i
    BY <1>1
  <2> DEFINE L == f[k].left  O == f[k].out
  <2>2. f[k + 1] = IF table[i] \in S THEN [left |-> RemoveAt(L, i), out |-> Append(O, table[i])]
                                     ELSE f[k]
    BY <1>3, <2>1 DEF Turn
  <2>3. TurnsDone(table, S, i, L, O)
    BY <1>5
  <2> HIDE DEF i
  <2>4. /\ table[i] \in S =>
             TurnsDone(table, S, i - 1, RemoveAt(L, i), Append(O, table[i]))
        /\ table[i] \notin S => TurnsDone(table, S, i - 1, L, O)
    BY <2>1, <2>3, TurnKeepsDone
  <2>5. CASE table[i] \in S
    <3>1. f[k + 1].left = RemoveAt(L, i) /\ f[k + 1].out = Append(O, table[i])
      BY <2>2, <2>5
    <3>2. QED
      BY <2>1, <2>4, <2>5, <3>1
  <2>6. CASE table[i] \notin S
    BY <2>1, <2>2, <2>4, <2>6
  <2>7. QED
    BY <2>5, <2>6
<1>6. Done(n)
  <2> HIDE DEF Done
  <2>1. 0 \in T
    BY <1>1, <1>4
  <2>2. \A k \in 0 .. n - 1 : k \in T => k + 1 \in T
    BY <1>1, <1>5
  <2> HIDE DEF T
  <2>3. \A k \in 0 .. n : k \in T
    BY <1>1, <2>1, <2>2, CountUp
  <2>4. n \in T
    BY <1>1, <2>3
  <2>5. QED
    BY <2>4 DEF T
<1>7. n - n = 0 /\ \A j \in 1 .. n : 0 < j
  BY <1>1
<1>8. QED
  <2> DEFINE L == f[n].left  O == f[n].out
  <2>1. \A x : x \in ToSet(table) <=> \E j \in 1 .. n : x = table[j]
    BY <1>1 DEF ToSet
  <2>2. TurnsDone(table, S, 0, L, O)
    BY <1>6, <1>7
  <2> HIDE DEF L, O
  <2>3. \A x : x \in ToSet(L) <=> x \in ToSet(table) /\ x \notin S
    BY <1>7, <2>1, <2>2 DEF TurnsDone
  <2>4. \A x : x \in ToSet(O) <=> x \in ToSet(table) /\ x \in S
    BY <1>7, <2>1, <2>2 DEF TurnsDone
  <2>5. ToSet(L) = ToSet(table) \ S /\ ToSet(O) = ToSet(table) \cap S
    BY <2>3, <2>4
  <2>6. L \in Seq(Nat) /\ Rising(L) /\ O \in Seq(Nat) /\ Falling(O)
    BY <2>2 DEF TurnsDone
  <2>7. QED
    BY <1>2, <2>5, <2>6 DEF L, O

LEMMA TailFalling ==
  ASSUME NEW s \in Seq(Nat), s # <<>>, Falling(s)
  PROVE  /\ Tail(s) \in Seq(Nat) /\ Falling(Tail(s)) /\ Head(s) \in ToSet(s)
         /\ ToSet(Tail(s)) = ToSet(s) \ {Head(s)}
         /\ \A y \in ToSet(Tail(s)) : y < Head(s)
<1>1. /\ Len(s) \in Nat /\ Len(s) > 0 /\ DOMAIN s = 1 .. Len(s) /\ Head(s) = s[1]
      /\ DOMAIN Tail(s) = 1 .. Len(s) - 1
      /\ \A i \in DOMAIN s : s[i] \in Nat
      /\ \A i \in 1 .. Len(s) - 1 : Tail(s)[i] = s[i + 1] /\ i + 1 \in DOMAIN s /\ 1 < i + 1
  OBVIOUS
<1>2. Once(s)
  <2> SUFFICES ASSUME NEW i \in DOMAIN s, NEW j \in DOMAIN s, s[i] = s[j] PROVE i = j
    BY DEF Once
  <2>1. ~ (i < j) /\ ~ (j < i)
    BY <1>1 DEF Falling
  <2>2. QED
    BY <1>1, <2>1
<1>3. Falling(Tail(s))
  <2> SUFFICES ASSUME NEW i \in 1 .. Len(s) - 1, NEW j \in 1 .. Len(s) - 1, i < j
               PROVE  Tail(s)[j] < Tail(s)[i]
    BY <1>1 DEF Falling
  <2>1. i + 1 < j + 1
    BY <1>1
  <2>2. QED
    BY <1>1, <2>1 DEF Falling
<1>4. ASSUME NEW y \in ToSet(Tail(s)) PROVE y < Head(s)
  <2>1. PICK i \in 1 .. Len(s) - 1 : y = Tail(s)[i]
    BY <1>1, <1>4 DEF ToSet
  <2>2. QED
    BY <1>1, <2>1 DEF Falling
<1>5. QED
  BY <1>2, <1>3, <1>4, TailOnce

\* A destructor is in the table, taken by one thread, or was run, and none of
\* these has one twice.
CxaInvOf(table, dsos, taken, run) ==
  /\ dsos \in Seq(Dsos)
  /\ table \in Seq(Nat) /\ Rising(table)
  /\ run \in Seq(Nat) /\ Once(run)
  /\ taken \in [Threads -> Seq(Nat)]
  /\ \A p \in Threads : Falling(taken[p])
  /\ ToSet(table) \cap ToSet(run) = {}
  /\ \A p \in Threads : ToSet(taken[p]) \cap (ToSet(table) \cup ToSet(run)) = {}
  /\ \A p, r \in Threads : p # r => ToSet(taken[p]) \cap ToSet(taken[r]) = {}
  /\ ToSet(table) \cup ToSet(run) \cup UNION {ToSet(taken[p]) : p \in Threads}
       = DOMAIN dsos
\* One thread has rtdt_spl or none, and it has read the table as it still is.
CallType ==
  call \in [Threads -> [does : {"none", "add", "take"}, dsos : SUBSET Dsos, seen : Seq(Nat)]]
Calls ==
  /\ CallType
  /\ \A p \in Threads :
       /\ call[p] # NoCall => call[p].seen = rtdt
       /\ call[p].does = "take" => todo[p] = <<>>
       /\ \A r \in Threads : call[p] # NoCall /\ call[r] # NoCall => p = r

CxaPlaced == CxaInvOf(rtdt, dsoOf, todo, destroyed)
CxaInv == CxaPlaced /\ Calls

\* A call begins.
Locks(p) ==
  /\ \E does \in {"add", "take"}, dsos \in SUBSET Dsos :
       Lock(p, does, dsos) /\ (does = "take" => todo[p] = <<>>)
  /\ UNCHANGED <<rtdt, dsoOf, todo, destroyed>>

\* What a step does to the table of destructors.
LEMMA CxaSteps ==
  ASSUME [Next]_vars
  PROVE  \/ UNCHANGED cxaVars
         \/ \E p \in Threads : Locks(p) \/ Register(p) \/ Finalize(p) \/ RunDtor(p)
<1>1. ASSUME NEW p \in Threads, PushLock(p) \/ PushNode(p) \/ PushSlot(p) PROVE UNCHANGED cxaVars
  BY <1>1 DEF PushLock, PushNode, PushSlot, PushDone
<1>2. ASSUME NEW p \in Threads,
             LockFirst(p) \/ PopEmpty(p) \/ PopNode(p) \/ TakeSlot(p) \/ Return(p) \/ Resume(p)
               \/ EndQuick(p) \/ EndDtors(p)
      PROVE  UNCHANGED cxaVars
  BY <1>2 DEF LockFirst, PopEmpty, PopNode, TakeSlot, Return, Resume, EndQuick, EndDtors
<1>3. ASSUME NEW p \in Threads, EndExit(p) PROVE Locks(p)
  BY <1>3 DEF EndExit, Finalize0Lock, Locks
<1>4. ASSUME NEW p \in Threads, GoOnInCxa(p) PROVE Register(p) \/ Finalize(p) \/ RunDtor(p)
  BY <1>4 DEF GoOnInCxa
<1>5. ASSUME NEW p \in Threads, NEW q, Exit(p, q) PROVE UNCHANGED cxaVars
  BY <1>5 DEF Exit
<1>6. ASSUME NEW p \in Threads, NEW q, NEW at, PushBegin(p, q, at) PROVE UNCHANGED cxaVars
  BY <1>6 DEF PushBegin
<1>7. ASSUME NEW p \in Threads, NEW dso \in Dsos, CallCxa(p, dso) PROVE Locks(p)
  <2>1. {dso} \in SUBSET Dsos
    OBVIOUS
  <2>2. QED
    BY <1>7, <2>1 DEF CallCxa, RegisterLock, FinalizeDsoLock, Locks
<1>8. CASE UNCHANGED vars
  BY <1>8 DEF vars
<1>9. QED
  BY <1>1, <1>2, <1>3, <1>4, <1>5, <1>6, <1>7, <1>8 DEF Next, Continue

LEMMA CxaInitOK == Init => CxaInv
<1> SUFFICES ASSUME Init PROVE CxaInv
  OBVIOUS
<1>1. Falling(<<>>) /\ Rising(<<>>) /\ DOMAIN <<>> = {} /\ <<>> \in Seq(Dsos)
  BY DEF Falling, Rising
<1>2. UNION {ToSet(<<>>) : p \in Threads} = {}
  BY Once0
<1>3. \A p \in Threads : todo[p] = <<>>
  BY DEF Init, CxaInit
<1>4. CxaPlaced
  BY <1>1, <1>2, <1>3, Once0 DEF Init, CxaInit, CxaPlaced, CxaInvOf
<1>5. Calls
  BY Once0 DEF Init, CxaInit, Calls, CallType, NoCall
<1>6. QED
  BY <1>4, <1>5 DEF CxaInv

\* One more is appended.
LEMMA RegisterOne ==
  ASSUME NEW table, NEW dsos, NEW taken, NEW run, CxaInvOf(table, dsos, taken, run),
         NEW dso \in Dsos
  PROVE  CxaInvOf(Append(table, Len(dsos) + 1), Append(dsos, dso), taken, run)
<1> DEFINE n == Len(dsos) + 1  more == Append(table, n)  kinds == Append(dsos, dso)
<1>1. /\ kinds \in Seq(Dsos) /\ n \in Nat /\ Len(dsos) \in Nat
      /\ DOMAIN dsos = 1 .. Len(dsos) /\ DOMAIN kinds = DOMAIN dsos \cup {n}
      /\ n \notin DOMAIN dsos
  BY DEF CxaInvOf
<1>2. \A y \in ToSet(table) : y < n
  BY <1>1 DEF CxaInvOf
<1>3. more \in Seq(Nat) /\ Rising(more) /\ ToSet(more) = ToSet(table) \cup {n}
  BY <1>1, <1>2, AppendRising DEF CxaInvOf
<1> HIDE DEF n, more, kinds
<1>4. CxaInvOf(more, kinds, taken, run)
  BY <1>1, <1>3 DEF CxaInvOf
<1>5. QED
  BY <1>4 DEF n, more, kinds

\* One that was taken is run.
LEMMA RunOne ==
  ASSUME NEW p \in Threads, CxaPlaced, todo[p] # <<>>
  PROVE  CxaInvOf(rtdt, dsoOf, [todo EXCEPT ![p] = Tail(@)], Append(destroyed, Head(todo[p])))
<1> DEFINE s == todo[p]  d == Head(s)
           taken == [todo EXCEPT ![p] = Tail(@)]  run == Append(destroyed, d)
<1>1. /\ s \in Seq(Nat) /\ Tail(s) \in Seq(Nat) /\ Falling(Tail(s)) /\ d \in ToSet(s)
      /\ ToSet(Tail(s)) = ToSet(s) \ {d}
  BY TailFalling DEF CxaPlaced, CxaInvOf
<1>2. d \in Nat /\ d \notin ToSet(destroyed) /\ d \notin ToSet(rtdt) /\ d \in DOMAIN dsoOf
  BY <1>1 DEF CxaPlaced, CxaInvOf
<1>3. run \in Seq(Nat) /\ Once(run) /\ ToSet(run) = ToSet(destroyed) \cup {d}
  BY <1>2, AppendOnce DEF CxaPlaced, CxaInvOf
<1>4. /\ taken \in [Threads -> Seq(Nat)] /\ ToSet(taken[p]) = ToSet(todo[p]) \ {d}
      /\ \A r \in Threads : r # p => taken[r] = todo[r]
      /\ \A r \in Threads : Falling(taken[r])
  BY <1>1 DEF CxaPlaced, CxaInvOf
<1>5. \A r \in Threads : ToSet(taken[r]) = ToSet(todo[r]) \ {d}
  BY <1>1, <1>4 DEF CxaPlaced, CxaInvOf
<1>6. d \in UNION {ToSet(todo[r]) : r \in Threads}
  BY <1>1
<1> HIDE DEF d, taken, run
<1>7. ToSet(run) \cup UNION {ToSet(taken[r]) : r \in Threads}
        = ToSet(destroyed) \cup UNION {ToSet(todo[r]) : r \in Threads}
  <2>1. ASSUME NEW x \in UNION {ToSet(taken[r]) : r \in Threads}
        PROVE  x \in UNION {ToSet(todo[r]) : r \in Threads}
    BY <1>5, <2>1
  <2>2. ASSUME NEW x \in UNION {ToSet(todo[r]) : r \in Threads}, x # d
        PROVE  x \in UNION {ToSet(taken[r]) : r \in Threads}
    BY <1>5, <2>2
  <2>3. QED
    BY <1>3, <1>6, <2>1, <2>2
<1>8. \A r \in Threads : ToSet(taken[r]) \cap (ToSet(rtdt) \cup ToSet(run)) = {}
  BY <1>3, <1>5 DEF CxaPlaced, CxaInvOf
<1>9. \A q, r \in Threads : q # r => ToSet(taken[q]) \cap ToSet(taken[r]) = {}
  BY <1>5 DEF CxaPlaced, CxaInvOf
<1>10. ToSet(rtdt) \cap ToSet(run) = {}
  BY <1>2, <1>3 DEF CxaPlaced, CxaInvOf
<1>11. CxaInvOf(rtdt, dsoOf, taken, run)
  BY <1>3, <1>4, <1>7, <1>8, <1>9, <1>10 DEF CxaPlaced, CxaInvOf
<1>12. QED
  BY <1>11 DEF taken, run, d

LEMMA TakeOK ==
  ASSUME CxaInv, NEW p \in Threads, Finalize(p) PROVE CxaPlaced'
<1> USE DEF CxaInv
<1>0. call[p].seen = rtdt /\ todo[p] = <<>>
  BY DEF Finalize, Calls, NoCall
<1>1. PICK S : Take(p, S)
  BY DEF Finalize
<1> DEFINE left == TakenOut(rtdt, S).left  out == TakenOut(rtdt, S).out
<1>2. /\ left \in Seq(Nat) /\ Rising(left) /\ ToSet(left) = ToSet(rtdt) \ S
      /\ out \in Seq(Nat) /\ Falling(out) /\ ToSet(out) = ToSet(rtdt) \cap S
  BY TakenOutIs DEF CxaPlaced, CxaInvOf
<1>3. /\ rtdt' = left /\ todo' = [todo EXCEPT ![p] = out]
      /\ dsoOf' = dsoOf /\ destroyed' = destroyed
      /\ ToSet(todo[p]) = {}
  BY <1>0, <1>1, Once0 DEF Take, Finalize
<1> HIDE DEF left, out
<1>4. /\ todo' \in [Threads -> Seq(Nat)] /\ todo'[p] = out
      /\ \A r \in Threads : r # p => todo'[r] = todo[r]
  BY <1>2, <1>3 DEF CxaPlaced, CxaInvOf
<1>5. ToSet(rtdt') \cup UNION {ToSet(todo'[r]) : r \in Threads}
        = ToSet(rtdt) \cup UNION {ToSet(todo[r]) : r \in Threads}
  <2>1. ASSUME NEW x \in UNION {ToSet(todo'[r]) : r \in Threads}
        PROVE  x \in ToSet(rtdt) \cup UNION {ToSet(todo[r]) : r \in Threads}
    BY <1>2, <1>4, <2>1
  <2>2. ASSUME NEW x \in UNION {ToSet(todo[r]) : r \in Threads}
        PROVE  x \in UNION {ToSet(todo'[r]) : r \in Threads}
    BY <1>3, <1>4, <2>2
  <2>3. ASSUME NEW x \in ToSet(rtdt)
        PROVE  x \in ToSet(rtdt') \cup UNION {ToSet(todo'[r]) : r \in Threads}
    BY <1>2, <1>3, <1>4, <2>3
  <2>4. ToSet(rtdt') \subseteq ToSet(rtdt)
    BY <1>2, <1>3
  <2>5. QED
    BY <2>1, <2>2, <2>3, <2>4
<1>6. \A r \in Threads : Falling(todo'[r])
  BY <1>2, <1>4 DEF CxaPlaced, CxaInvOf
<1>7. \A r \in Threads : ToSet(todo'[r]) \cap (ToSet(rtdt') \cup ToSet(destroyed')) = {}
  BY <1>2, <1>3, <1>4 DEF CxaPlaced, CxaInvOf
<1>8. \A q, r \in Threads : q # r => ToSet(todo'[q]) \cap ToSet(todo'[r]) = {}
  BY <1>2, <1>4 DEF CxaPlaced, CxaInvOf
<1>9. QED
  BY <1>2, <1>3, <1>4, <1>5, <1>6, <1>7, <1>8 DEF CxaPlaced, CxaInvOf

\* Who gets rtdt_spl and meets nobody is alone with it.
LEMMA LockAlone ==
  ASSUME Calls, ~ clash', NEW p \in Threads, NEW does \in {"add", "take"},
         NEW dsos \in SUBSET Dsos, Lock(p, does, dsos), UNCHANGED rtdt,
         rtdt \in Seq(Nat), \A r \in Threads : r # p => todo'[r] = todo[r],
         does = "take" => todo'[p] = <<>>
  PROVE  Calls' /\ ~ clash
<1>1. Holders = {} /\ ~ clash
  BY DEF Lock
<1>2. \A r \in Threads : call[r] = NoCall
  BY <1>1 DEF Holders
<1>3. call' = [call EXCEPT ![p] = [does |-> does, dsos |-> dsos, seen |-> rtdt]]
  BY DEF Lock
<1>4. /\ call'[p].does = does /\ call'[p].seen = rtdt
      /\ \A r \in Threads : r # p => call'[r] = NoCall
  BY <1>2, <1>3 DEF Calls, CallType
<1>5. CallType'
  BY <1>3 DEF Calls, CallType
<1>6. Calls'
  BY <1>4, <1>5 DEF Calls, NoCall
<1>7. QED
  BY <1>1, <1>6

\* Who gives it back leaves the table to whoever comes.
LEMMA UnlockAlone ==
  ASSUME Calls, NEW p \in Threads, call[p] # NoCall, Unlock(p) PROVE Calls' /\ clash' = clash
<1>1. \A r \in Threads : r # p => call[r] = NoCall
  BY DEF Calls
<1>2. /\ call' = [call EXCEPT ![p] = NoCall] /\ clash' = clash
      /\ \A r \in Threads : call'[r] = NoCall
  BY <1>1 DEF Unlock, Calls, CallType
<1>3. CallType'
  BY <1>2, Once0 DEF Calls, CallType, NoCall
<1>4. QED
  BY <1>2, <1>3 DEF Calls, NoCall

LEMMA RegisterOK ==
  ASSUME CxaInv, NEW p \in Threads, Register(p) PROVE CxaPlaced'
<1> USE DEF CxaInv
<1>1. call[p].seen = rtdt /\ UNCHANGED <<todo, destroyed>>
  BY DEF Register, Calls, NoCall
<1>2. CASE UNCHANGED <<rtdt, dsoOf>>
  BY <1>1, <1>2 DEF CxaPlaced
<1>3. ASSUME NEW dso \in Dsos, dsoOf' = Append(dsoOf, dso), rtdt' = Append(rtdt, Len(dsoOf'))
      PROVE  CxaPlaced'
  <2>1. dsoOf \in Seq(Dsos)
    BY DEF CxaPlaced, CxaInvOf
  <2>2. rtdt' = Append(rtdt, Len(dsoOf) + 1)
    BY <1>3, <2>1
  <2>3. QED
    BY <1>1, <1>3, <2>2, RegisterOne DEF CxaPlaced
<1>4. call[p].dsos \in SUBSET Dsos
  BY DEF Calls, CallType
<1>5. QED
  BY <1>1, <1>2, <1>3, <1>4 DEF Register

LEMMA RunDtorOK ==
  ASSUME CxaInv, NEW p \in Threads, RunDtor(p) PROVE CxaPlaced'
<1> DEFINE taken == [todo EXCEPT ![p] = Tail(@)]  run == Append(destroyed, Head(todo[p]))
<1>1. todo' = taken /\ destroyed' = run /\ todo[p] # <<>> /\ rtdt' = rtdt /\ dsoOf' = dsoOf
  BY DEF RunDtor
<1>2. CxaInvOf(rtdt, dsoOf, taken, run)
  BY <1>1, RunOne DEF CxaInv
<1> HIDE DEF taken, run
<1>3. QED
  BY <1>1, <1>2 DEF CxaPlaced

LEMMA CxaStepOK ==
  ASSUME CxaInv, ~ clash', [Next]_vars PROVE CxaInv'
<1> USE DEF CxaInv
<1>1. CASE UNCHANGED cxaVars
  BY <1>1 DEF CxaPlaced, Calls, CallType, cxaVars
<1>2. rtdt \in Seq(Nat) /\ todo \in [Threads -> Seq(Nat)]
  BY DEF CxaPlaced, CxaInvOf
<1>3. ASSUME NEW p \in Threads, Locks(p) PROVE CxaInv'
  <2>1. CxaPlaced' /\ UNCHANGED <<rtdt, todo>>
    BY <1>3 DEF Locks, CxaPlaced
  <2>2. Calls'
    BY <1>2, <1>3, <2>1, LockAlone DEF Locks
  <2>3. QED
    BY <2>1, <2>2
<1>4. ASSUME NEW p \in Threads, Register(p) \/ Finalize(p) PROVE CxaInv'
  <2>1. Calls'
    BY <1>4, UnlockAlone DEF Register, Finalize, NoCall
  <2>2. QED
    BY <1>4, <2>1, RegisterOK, TakeOK
<1>5. ASSUME NEW p \in Threads, RunDtor(p) PROVE CxaInv'
  <2>1. rtdt' = rtdt /\ \A r \in Threads : r # p => todo'[r] = todo[r]
    BY <1>2, <1>5 DEF RunDtor
  <2>2. ASSUME call' = call PROVE Calls'
    <3>1. call[p].does # "take"
      BY <1>5 DEF RunDtor, NoCall
    <3>2. \A r \in Threads : call[r].does = "take" => todo'[r] = <<>>
      BY <2>1, <3>1 DEF Calls
    <3>3. CallType'
      BY <2>2 DEF Calls, CallType
    <3>4. QED
      BY <2>1, <2>2, <3>2, <3>3 DEF Calls, NoCall
  <2>3. ASSUME NEW dso \in Dsos, RegisterLock(p, dso) PROVE Calls'
    <3>1. {dso} \in SUBSET Dsos
      OBVIOUS
    <3>2. QED
      BY <1>2, <2>1, <2>3, <3>1, LockAlone DEF RegisterLock
  <2>4. Calls'
    BY <1>5, <2>2, <2>3 DEF RunDtor
  <2>5. QED
    BY <1>5, <2>4, RunDtorOK
<1>6. QED
  BY <1>1, <1>3, <1>4, <1>5, CxaSteps

\* Two threads that have clashed have clashed for good.
LEMMA ClashStays ==
  ASSUME [Next]_vars, ~ clash' PROVE ~ clash
<1>1. ASSUME NEW p, NEW does, NEW dsos, Lock(p, does, dsos) PROVE ~ clash
  BY <1>1 DEF Lock
<1>2. ASSUME NEW p, Register(p) \/ Finalize(p) PROVE ~ clash
  BY <1>2 DEF Register, Finalize, Unlock
<1>3. QED
  BY <1>1, <1>2, CxaSteps DEF Locks, RunDtor, RegisterLock, cxaVars

\* The inductive invariant.
CxaApart == ~ clash => CxaInv

LEMMA CxaApartOK == ASSUME CxaApart, [Next]_vars PROVE CxaApart'
<1> SUFFICES ASSUME ~ clash' PROVE CxaInv'
  BY DEF CxaApart
<1>1. ~ clash
  BY ClashStays
<1>2. QED
  BY <1>1, CxaStepOK DEF CxaApart

LEMMA AccountedOK ==
  ASSUME CxaInv PROVE DtorsAccounted
<1> SUFFICES ASSUME NEW d \in DOMAIN dsoOf
             PROVE  (IF d \in ToSet(rtdt) THEN 1 ELSE 0)
                      + Cardinality({i \in DOMAIN destroyed : destroyed[i] = d})
                      + Cardinality({p \in Threads : d \in ToSet(todo[p])}) = 1
  BY DEF DtorsAccounted
<1> DEFINE R == {i \in DOMAIN destroyed : destroyed[i] = d}
           H == {p \in Threads : d \in ToSet(todo[p])}
<1>1. d \in ToSet(rtdt) \/ d \in ToSet(destroyed) \/ H # {}
  BY DEF CxaInv, CxaPlaced, CxaInvOf
<1>2. \A i, j \in R : i = j
  BY DEF CxaInv, CxaPlaced, CxaInvOf, Once
<1>3. \A p, r \in H : p = r
  BY DEF CxaInv, CxaPlaced, CxaInvOf
<1>4. R = {} <=> d \notin ToSet(destroyed)
  BY DEF ToSet
<1>5. /\ ~ (d \in ToSet(rtdt) /\ R # {}) /\ ~ (d \in ToSet(rtdt) /\ H # {})
      /\ ~ (R # {} /\ H # {})
  BY <1>4 DEF CxaInv, CxaPlaced, CxaInvOf
<1> HIDE DEF R, H
<1>6. ASSUME NEW S, S # {}, \A x, y \in S : x = y PROVE Cardinality(S) = 1
  <2>1. PICK x : S = {x}
    BY <1>6
  <2>2. QED
    BY <2>1, FS_Singleton
<1>7. Cardinality({}) = 0 /\ (R # {} => Cardinality(R) = 1) /\ (H # {} => Cardinality(H) = 1)
  BY <1>2, <1>3, <1>6, FS_EmptySet
<1>8. (IF d \in ToSet(rtdt) THEN 1 ELSE 0) + Cardinality(R) + Cardinality(H) = 1
  <2>1. CASE d \in ToSet(rtdt)
    <3>1. R = {} /\ H = {}
      BY <1>5, <2>1
    <3>2. QED
      BY <1>7, <2>1, <3>1
  <2>2. CASE d \notin ToSet(rtdt) /\ R # {}
    <3>1. H = {}
      BY <1>5, <2>2
    <3>2. QED
      BY <1>7, <2>2, <3>1
  <2>3. CASE d \notin ToSet(rtdt) /\ R = {}
    <3>1. H # {}
      BY <1>1, <1>4, <2>3
    <3>2. QED
      BY <1>7, <2>3, <3>1
  <2>4. QED
    BY <2>1, <2>2, <2>3
<1>9. QED
  BY <1>8 DEF R, H

LEMMA ReversedOK ==
  ASSUME CxaInv, [Next]_vars,
         NEW p \in Threads, destroyed' # destroyed, todo'[p] # todo[p], NEW d \in ToSet(todo'[p])
  PROVE  d < Last(destroyed')
<1> USE DEF CxaInv, CxaPlaced, CxaInvOf
<1>1. PICK r \in Threads : RunDtor(r)
  BY CxaSteps DEF cxaVars, Locks, Register, Finalize
<1>2. /\ r = p /\ todo[p] # <<>>
      /\ destroyed' = Append(destroyed, Head(todo[p])) /\ todo'[p] = Tail(todo[p])
  BY <1>1 DEF RunDtor
<1>3. d < Head(todo[p]) /\ Head(todo[p]) \in ToSet(todo[p])
  BY <1>2, TailFalling
<1>4. Last(destroyed') = Head(todo[p])
  <2>1. Head(todo[p]) \in DOMAIN dsoOf /\ DOMAIN dsoOf \subseteq Nat
    BY <1>3
  <2>2. QED
    BY <1>2, <2>1 DEF Last
<1>5. QED
  BY <1>3, <1>4

\* As long as no two threads had rtdt_spl at once, no destructor is lost and
\* none is run twice, whatever the number of threads, the length of the table,
\* the objects that go and the order they go in: the entries that one thread
\* takes out between two that append are found by the loop over the table that
\* closes the gaps as it goes.
THEOREM DtorsAccountedHolds == Spec => []DtorsAccounted
<1>1. Init => CxaApart
  BY CxaInitOK DEF CxaApart
<1>2. CxaApart /\ [Next]_vars => CxaApart'
  BY CxaApartOK
<1>3. CxaApart => DtorsAccounted
  BY AccountedOK DEF CxaApart, DtorsAccounted
<1>4. QED
  BY <1>1, <1>2, <1>3, PTL DEF Spec

\* Under the same condition, whoever takes destructors runs them in the reverse
\* order of registration.
THEOREM DtorsReversedHolds == Spec => DtorsReversed
<1> DEFINE A == ~ clash =>
                  \A p \in Threads :
                    destroyed' # destroyed /\ todo'[p] # todo[p] =>
                      \A d \in ToSet(todo'[p]) : d < Last(destroyed')
<1>1. Init => CxaApart
  BY CxaInitOK DEF CxaApart
<1>2. CxaApart /\ [Next]_vars => CxaApart'
  BY CxaApartOK
<1>3. CxaApart /\ [Next]_vars => [A]_cxaVars
  BY ReversedOK DEF CxaApart
<1>4. QED
  BY <1>1, <1>2, <1>3, PTL DEF Spec, DtorsReversed
-----------------------------------------------------------------------------
(* All handlers are called, the latest first: one thread exits, and what it  *)
(* has looked at holds no handler that has to run.                           *)

Owing(h) == h # 0 /\ accepted[h].owed

\* Only the exit of the other kind drops a handler that has to run.
Kept ==
  \A h \in DOMAIN accepted :
    accepted[h].owed =>
      \/ h \in ToSet(stack) \cup ToSet(ran)
      \/ \E i \in 0 .. FnCount - 1 : array[i] = h
      \/ \E p \in Exiting : accepted[h].quick # quick[p]

\* resolve() is past the stack; it is past slot i of the array.
Emptied(p) ==
  pc[p] \in {"scan", "ending", "dtors", "done"} \/ (pc[p] = "skipped" /\ slot[p] # FnCount)
Passed(p, i) ==
  \/ pc[p] = "scan" /\ slot[p] < i
  \/ pc[p] = "skipped" /\ slot[p] # FnCount /\ slot[p] <= i
  \/ pc[p] \in {"ending", "dtors", "done"}

\* Behind resolve() is nothing that has to run.
Scanned ==
  \A p \in Threads :
    /\ Emptied(p) => \A h \in ToSet(stack) : ~ Owing(h)
    /\ \A i \in 0 .. FnCount - 1 : Passed(p, i) => ~ Owing(array[i])

\* The stack is newer than the array, and what has to run lies in the array in
\* the order of registration, with no empty slot below it.
Ordered ==
  /\ Falling(stack)
  /\ \A i \in 0 .. FnCount - 1 : \A h \in ToSet(stack) : array[i] < h
  /\ \A i, j \in 0 .. FnCount - 1 :
       i < j /\ Owing(array[j]) => array[i] # 0 /\ (Owing(array[i]) => array[i] < array[j])

Due == Kept /\ Scanned /\ Ordered

LEMMA DueInit == Init => Due
<1> SUFFICES ASSUME Init PROVE Due
  OBVIOUS
<1>1. /\ stack = <<>> /\ accepted = <<>>
      /\ \A p \in Threads : pc[p] = "main"
      /\ \A i \in 0 .. FnCount - 1 : array[i] = 0
  BY DEF Init
<1>2. DOMAIN accepted = {} /\ ToSet(stack) = {} /\ Falling(stack)
  BY <1>1, Once0 DEF Falling
<1>3. QED
  BY <1>1, <1>2 DEF Due, Kept, Scanned, Ordered, Exiting, Emptied, Passed, Owing

\* Who exits stays in exit(), and is the one that called it.
LEMMA SoleOK ==
  ASSUME Types, OneExits', [Next]_vars
  PROVE  /\ OneExits
         /\ \/ Exiting' = Exiting /\ UNCHANGED quick
            \/ Exiting = {} /\ \E p \in Threads, q \in BOOLEAN : Exit(p, q)
<1> DEFINE Moves(p) == pc[p] # "main" /\ \E x : x # "main" /\ pc' = [pc EXCEPT ![p] = x]
<1>1. ASSUME NEW p \in Threads, PushLock(p) \/ PushNode(p) \/ PushSlot(p)
      PROVE  UNCHANGED <<pc, quick>>
  BY <1>1 DEF PushLock, PushNode, PushSlot, PushDone
<1>2. ASSUME NEW p \in Threads, NEW q, NEW at, PushBegin(p, q, at)
      PROVE  UNCHANGED <<pc, quick>>
  BY <1>2 DEF PushBegin
<1>3. ASSUME NEW p \in Threads, NEW dso, GoOnInCxa(p) \/ CallCxa(p, dso)
      PROVE  UNCHANGED <<pc, quick>>
  BY <1>3 DEF GoOnInCxa, CallCxa, LeaveAtExit, localVars
<1>4. ASSUME NEW p \in Threads,
             LockFirst(p) \/ PopEmpty(p) \/ Return(p) \/ EndQuick(p) \/ EndExit(p) \/ EndDtors(p)
      PROVE  Moves(p) /\ UNCHANGED quick
  BY <1>4 DEF LockFirst, PopEmpty, Return, EndQuick, EndExit, EndDtors, Goto
<1>5. ASSUME NEW p \in Threads, PopNode(p) \/ TakeSlot(p)
      PROVE  Moves(p) /\ UNCHANGED quick
  BY <1>5 DEF PopNode, TakeSlot, Dispatch
<1>6. ASSUME NEW p \in Threads, Resume(p) PROVE Moves(p) /\ UNCHANGED quick
  <2> DEFINE next == ResumeAt(slot[p], pc[p] = "called")
  <2>1. next[1] # "main"
    BY DEF ResumeAt
  <2>2. pc[p] # "main" /\ pc' = [pc EXCEPT ![p] = next[1]] /\ UNCHANGED quick
    BY <1>6 DEF Resume
  <2>3. QED
    BY <2>1, <2>2
<1>7. ASSUME NEW p \in Threads, NEW q, Exit(p, q) PROVE Exiting = {}
  <2>1. pc[p] = "main" /\ pc' = [pc EXCEPT ![p] = "lock"]
    BY <1>7 DEF Exit, Goto
  <2>2. p \in Exiting' /\ p \notin Exiting /\ Exiting \subseteq Exiting'
    BY <2>1 DEF Exiting, Types
  <2>3. QED
    BY <2>2 DEF OneExits
<1>8. ASSUME UNCHANGED <<pc, quick>> PROVE Exiting' = Exiting
  BY <1>8 DEF Exiting
<1>9. ASSUME NEW p \in Threads, Moves(p) PROVE Exiting' = Exiting
  BY <1>9 DEF Exiting, Types
<1>10. CASE UNCHANGED vars
  BY <1>8, <1>10 DEF vars, localVars, OneExits
<1> HIDE DEF Moves
<1>11. \/ Exiting' = Exiting /\ UNCHANGED quick
       \/ Exiting = {} /\ \E p \in Threads, q \in BOOLEAN : Exit(p, q)
  BY <1>1, <1>2, <1>3, <1>4, <1>5, <1>6, <1>7, <1>8, <1>9, <1>10 DEF Next, Continue
<1>12. QED
  BY <1>11 DEF OneExits

\* Steps that move no handler.
LEMMA StillDue ==
  ASSUME Due, UNCHANGED handlerVars, Exiting \subseteq Exiting',
         \A p \in Exiting : quick'[p] = quick[p],
         \A p \in Threads : Emptied(p)' => Emptied(p) \/ stack = <<>>,
         \A p \in Threads, i \in 0 .. FnCount - 1 : Passed(p, i)' => Passed(p, i)
  PROVE  Due'
<1>1. stack' = stack /\ array' = array /\ accepted' = accepted /\ ran' = ran
  BY DEF handlerVars
<1>2. Kept'
  BY <1>1 DEF Due, Kept
<1>3. Ordered'
  BY <1>1 DEF Due, Ordered, Owing
<1>4. Scanned'
  BY <1>1, Once0 DEF Due, Scanned, Owing
<1>5. QED
  BY <1>2, <1>3, <1>4 DEF Due

\* Nothing that resolve() is behind grows.
Behind ==
  \A p \in Threads : \A i \in 0 .. FnCount - 1 :
    (Emptied(p)' => Emptied(p) \/ stack = <<>>) /\ (Passed(p, i)' => Passed(p, i))

LEMMA MoveBehind ==
  ASSUME Types, UNCHANGED slot, NEW p \in Threads, NEW x, pc' = [pc EXCEPT ![p] = x],
         x \notin {"scan", "skipped"}, x \in {"ending", "dtors", "done"} => pc[p] \in {"ending", "dtors", "done"}
  PROVE  Behind
BY DEF Behind, Emptied, Passed, Types

LEMMA OutsideDue ==
  ASSUME IInv, OneExits', Due, Outside PROVE Due'
<1>1. Types
  BY DEF IInv
<1>2. UNCHANGED handlerVars
  BY DEF Outside, Exit, PushBegin, PopEmpty, Return, EndExit, GoOnInCxa, CallCxa,
         LeaveAtExit, handlerVars, lockVars
<1>3. 0 \in 0 .. FnCount - 1
  BY AtExitAssumption
<1>4. ASSUME NEW p \in Threads, NEW q, Exit(p, q)
      PROVE  Behind
  <2>1. UNCHANGED slot /\ pc' = [pc EXCEPT ![p] = "lock"]
    BY <1>4 DEF Exit, Goto
  <2>2. QED
    BY <1>1, <2>1, MoveBehind
<1>5. ASSUME NEW p \in Threads, Return(p) PROVE Behind
  <2>1. UNCHANGED slot /\ pc' = [pc EXCEPT ![p] = "called"]
    BY <1>5 DEF Return, Goto
  <2>2. QED
    BY <1>1, <2>1, MoveBehind
<1>6. ASSUME NEW p \in Threads, EndExit(p) PROVE Behind
  <2>1. UNCHANGED slot /\ pc[p] = "ending" /\ pc' = [pc EXCEPT ![p] = "dtors"]
    BY <1>6 DEF EndExit, Goto
  <2>2. QED
    BY <1>1, <2>1, MoveBehind
<1>7. ASSUME NEW p \in Threads, PopEmpty(p) PROVE Behind
  <2>1. /\ slot' = [slot EXCEPT ![p] = FnCount - 1] /\ pc' = [pc EXCEPT ![p] = "scan"]
        /\ pc[p] = "pop" /\ saw[p] = <<>>
    BY <1>7 DEF PopEmpty, Goto
  <2>2. stack = <<>>
    BY <2>1 DEF IInv, Locked, Held
  <2>3. slot'[p] = FnCount - 1 /\ pc'[p] = "scan" /\ \A i \in 0 .. FnCount - 1 : ~ (FnCount - 1 < i)
    BY <1>1, <2>1, AtExitAssumption DEF Types
  <2>4. \A r \in Threads : r # p => slot'[r] = slot[r] /\ pc'[r] = pc[r]
    BY <1>1, <2>1 DEF Types
  <2>5. QED
    BY <2>2, <2>3, <2>4 DEF Behind, Emptied, Passed
<1>8. ASSUME UNCHANGED <<pc, slot>> PROVE Behind
  BY <1>8 DEF Behind, Emptied, Passed
<1>9. ASSUME NEW p \in Threads, NEW q, NEW at, PushBegin(p, q, at) PROVE UNCHANGED <<pc, slot>>
  BY <1>9 DEF PushBegin
<1>10. ASSUME NEW p \in Threads, NEW dso,
              GoOnInCxa(p) \/ CallCxa(p, dso)
       PROVE  UNCHANGED <<pc, slot>>
  BY <1>10 DEF GoOnInCxa, CallCxa, LeaveAtExit, localVars
<1>11. Behind
  BY <1>4, <1>5, <1>6, <1>7, <1>8, <1>9, <1>10 DEF Outside
<1>12. [Next]_vars
  BY DEF Outside, Next, Continue
<1>13. Exiting \subseteq Exiting' /\ \A p \in Exiting : quick'[p] = quick[p]
  BY <1>1, <1>12, SoleOK
<1>14. QED
  BY <1>2, <1>3, <1>11, <1>13, StillDue DEF Behind

LEMMA LockingDue ==
  ASSUME IInv, OneExits', Due, Locking PROVE Due'
<1>1. Types
  BY DEF IInv
<1>2. UNCHANGED handlerVars
  BY DEF Locking, PushLock, LockFirst, Resume
<1>3. 0 \in 0 .. FnCount - 1
  BY AtExitAssumption
<1>4. ASSUME NEW p \in Threads, PushLock(p) PROVE Behind
  BY <1>4 DEF PushLock, Behind, Emptied, Passed
<1>5. ASSUME NEW p \in Threads, LockFirst(p) PROVE Behind
  <2>1. UNCHANGED slot /\ pc' = [pc EXCEPT ![p] = "pop"]
    BY <1>5 DEF LockFirst, Goto
  <2>2. QED
    BY <1>1, <2>1, MoveBehind
<1>6. ASSUME NEW p \in Threads, Resume(p) PROVE Behind
  <2> DEFINE next == ResumeAt(slot[p], pc[p] = "called")
  <2>1. /\ pc' = [pc EXCEPT ![p] = next[1]] /\ slot' = [slot EXCEPT ![p] = next[2]]
        /\ pc[p] \in {"skipped", "called"}
    BY <1>6 DEF Resume
  <2>2. /\ pc'[p] = next[1] /\ slot'[p] = next[2]
        /\ \A r \in Threads : r # p => slot'[r] = slot[r] /\ pc'[r] = pc[r]
    BY <1>1, <2>1 DEF Types
  <2>3. slot[p] \in 0 .. FnCount /\ FnCount \in Nat
    BY <1>1, AtExitAssumption DEF Types
  <2>4. CASE slot[p] = FnCount \/ pc[p] = "called"
    <3>1. next[1] = "pop"
      BY <2>4, AtExitAssumption DEF ResumeAt
    <3>2. QED
      BY <2>2, <3>1 DEF Behind, Emptied, Passed
  <2>5. CASE pc[p] = "skipped" /\ slot[p] = 0 /\ slot[p] # FnCount
    <3>1. next[1] = "ending"
      BY <2>5 DEF ResumeAt
    <3>2. \A i \in 0 .. FnCount - 1 : slot[p] <= i
      BY <2>3, <2>5
    <3>3. QED
      BY <2>2, <2>5, <3>1, <3>2 DEF Behind, Emptied, Passed
  <2>6. CASE pc[p] = "skipped" /\ slot[p] # 0 /\ slot[p] # FnCount
    <3>1. next[1] = "scan" /\ next[2] = slot[p] - 1
      BY <2>6 DEF ResumeAt
    <3>2. \A i \in 0 .. FnCount - 1 : slot[p] - 1 < i => slot[p] <= i
      BY <2>3
    <3>3. QED
      BY <2>2, <2>6, <3>1, <3>2 DEF Behind, Emptied, Passed
  <2>7. QED
    BY <2>1, <2>4, <2>5, <2>6
<1>7. Behind
  BY <1>4, <1>5, <1>6 DEF Locking
<1>8. [Next]_vars
  BY DEF Locking, Next, Continue
<1>9. Exiting \subseteq Exiting' /\ \A p \in Exiting : quick'[p] = quick[p]
  BY <1>1, <1>8, SoleOK
<1>10. QED
  BY <1>2, <1>3, <1>7, <1>9, StillDue DEF Behind

LEMMA EndDue ==
  ASSUME IInv, OneExits, Due, NEW p \in Threads, EndQuick(p) \/ EndDtors(p) PROVE Due'
<1>1. Types
  BY DEF IInv
<1>2. /\ UNCHANGED handlerVars /\ UNCHANGED <<slot, quick>>
      /\ pc[p] \in {"ending", "dtors"} /\ pc' = [pc EXCEPT ![p] = "done"]
  BY DEF EndQuick, EndDtors, Goto
<1>3. Behind
  BY <1>1, <1>2, MoveBehind
<1>4. 0 \in 0 .. FnCount - 1
  BY AtExitAssumption
<1>5. Exiting' = Exiting
  BY <1>1, <1>2 DEF Exiting, Types
<1>6. QED
  BY <1>2, <1>3, <1>4, <1>5, StillDue DEF Behind

LEMMA ConsFalling ==
  ASSUME NEW s \in Seq(Nat), NEW x \in Nat, Falling(s), \A y \in ToSet(s) : y < x
  PROVE  Falling(<<x>> \o s)
<1> DEFINE u == <<x>> \o s
<1>1. /\ Len(s) \in Nat /\ DOMAIN s = 1 .. Len(s)
      /\ DOMAIN u = 1 .. Len(s) + 1
      /\ \A i \in DOMAIN u : u[i] = IF i = 1 THEN x ELSE s[i - 1]
  OBVIOUS
<1> HIDE DEF u
<1>2. ASSUME NEW i \in DOMAIN u, NEW j \in DOMAIN u, i < j PROVE u[j] < u[i]
  <2>1. j # 1 /\ j - 1 \in DOMAIN s /\ u[j] = s[j - 1]
    BY <1>1, <1>2
  <2>2. CASE i = 1
    BY <1>1, <2>1, <2>2 DEF ToSet
  <2>3. CASE i # 1
    <3>1. i - 1 \in DOMAIN s /\ u[i] = s[i - 1] /\ i - 1 < j - 1
      BY <1>1, <1>2, <2>1, <2>3
    <3>2. QED
      BY <2>1, <3>1 DEF Falling
  <2>4. QED
    BY <2>2, <2>3
<1>3. QED
  BY <1>2 DEF Falling, u

\* The handler accepted has to run only if resolve() is not past anything.
LEMMA AcceptIs ==
  ASSUME IInv, OneExits, NEW p \in Threads, Accept(p), NEW n, n = Len(accepted) + 1
  PROVE  /\ n \in Nat /\ n > 0 /\ Len(accepted') = n
         /\ DOMAIN accepted = 1 .. n - 1 /\ DOMAIN accepted' = 1 .. n
         /\ \A h \in 1 .. n - 1 : accepted'[h] = accepted[h]
         /\ \A h \in ToSet(stack) \cup ToSet(ran) : h \in 1 .. n - 1 /\ h < n
         /\ \A i \in 0 .. FnCount - 1 : array[i] \in Nat /\ array[i] < n
         /\ \A i \in 0 .. FnCount - 1 : array[i] # 0 => array[i] \in 1 .. n - 1
         /\ accepted'[n].owed =>
              \A r \in Threads : ~ Emptied(r) /\ \A i \in 0 .. FnCount - 1 : ~ Passed(r, i)
<1> DEFINE kind == [quick |-> push[p].quick, owed |-> Exiting = {} \/ pc[p] = "running"]
<1>1. accepted \in Seq(Kinds) /\ accepted' = Append(accepted, kind)
  BY DEF IInv, Types, Accept
<1>2. kind.owed <=> Exiting = {} \/ pc[p] = "running"
  OBVIOUS
<1> HIDE DEF kind
<1>3. /\ n \in Nat /\ n > 0 /\ Len(accepted) = n - 1
      /\ DOMAIN accepted = 1 .. n - 1
  BY <1>1
<1>4. /\ Len(accepted') = n /\ DOMAIN accepted' = 1 .. n /\ accepted'[n] = kind
      /\ \A h \in 1 .. n - 1 : accepted'[h] = accepted[h]
  <2>1. accepted' \in Seq(Kinds \cup {kind}) /\ Len(accepted') = Len(accepted) + 1
    BY <1>1
  <2>2. accepted'[Len(accepted) + 1] = kind /\ \A h \in 1 .. Len(accepted) : accepted'[h] = accepted[h]
    BY <1>1
  <2>3. DOMAIN accepted' = 1 .. Len(accepted')
    BY <2>1
  <2>4. QED
    BY <1>3, <2>1, <2>2, <2>3
<1>5. \A h \in ToSet(stack) \cup ToSet(ran) : h \in 1 .. n - 1 /\ h < n
  BY <1>3 DEF IInv, Placed, PlacedOf
<1>6. /\ \A i \in 0 .. FnCount - 1 : array[i] \in Nat /\ array[i] < n
      /\ \A i \in 0 .. FnCount - 1 : array[i] # 0 => array[i] \in 1 .. n - 1
  <2>1. \A i \in 0 .. FnCount - 1 : array[i] \in Nat /\ array[i] <= Len(accepted)
    BY DEF IInv, Placed, PlacedOf
  <2>2. QED
    BY <1>3, <2>1
<1>7. ASSUME kind.owed, NEW r \in Threads, Emptied(r) PROVE FALSE
  <2>1. r \in Exiting /\ pc[r] # "running"
    BY <1>7 DEF Emptied, Exiting
  <2>2. Exiting = {r}
    BY <2>1 DEF OneExits
  <2>3. pc[p] = "running"
    BY <1>2, <1>7, <2>2
  <2>4. p \in Exiting
    BY <2>3 DEF Exiting
  <2>5. QED
    BY <2>1, <2>2, <2>3, <2>4
<1>8. \A r \in Threads, i \in 0 .. FnCount - 1 : Passed(r, i) => Emptied(r)
  BY DEF Passed, Emptied
<1>9. QED
  BY <1>3, <1>4, <1>5, <1>6, <1>7, <1>8

LEMMA PushNodeDue ==
  ASSUME IInv, OneExits, Due, NEW p \in Threads, PushNode(p) PROVE Due'
<1> DEFINE n == Len(accepted) + 1
<1>1. push[p] # NoPush
  BY DEF PushNode, NoPush
<1>2. Accept(p) /\ saw[p] = stack /\ array' = array /\ UNCHANGED <<ran, pc, quick, slot>>
  BY <1>1 DEF PushNode, PushDone, IInv, Locked
<1>3. /\ n \in Nat /\ n > 0 /\ Len(accepted') = n
      /\ DOMAIN accepted = 1 .. n - 1 /\ DOMAIN accepted' = 1 .. n
      /\ \A h \in 1 .. n - 1 : accepted'[h] = accepted[h]
      /\ \A h \in ToSet(stack) \cup ToSet(ran) : h \in 1 .. n - 1 /\ h < n
      /\ \A i \in 0 .. FnCount - 1 : array[i] \in Nat /\ array[i] < n
      /\ \A i \in 0 .. FnCount - 1 : array[i] # 0 => array[i] \in 1 .. n - 1
      /\ accepted'[n].owed =>
           \A r \in Threads : ~ Emptied(r) /\ \A i \in 0 .. FnCount - 1 : ~ Passed(r, i)
  BY <1>2, AcceptIs
<1> HIDE DEF n
<1>4. stack' = <<n>> \o stack
  BY <1>2, <1>3 DEF PushNode
<1>5. stack \in Seq(Nat) /\ Once(stack) /\ Falling(stack)
  BY DEF IInv, Placed, PlacedOf, Due, Ordered
<1>6. ToSet(stack') = ToSet(stack) \cup {n}
  BY <1>3, <1>4, <1>5, ConsOnce
<1>7. Falling(stack')
  BY <1>3, <1>4, <1>5, ConsFalling
<1>8. /\ \A r \in Threads : Emptied(r)' <=> Emptied(r)
      /\ \A r \in Threads, i \in 0 .. FnCount - 1 : Passed(r, i)' <=> Passed(r, i)
      /\ Exiting' = Exiting
  BY <1>2 DEF Emptied, Passed, Exiting
<1>9. /\ \A h \in ToSet(stack) : Owing(h)' <=> Owing(h)
      /\ \A i \in 0 .. FnCount - 1 : Owing(array[i])' <=> Owing(array[i])
  BY <1>2, <1>3 DEF Owing
<1>10. Kept'
  BY <1>2, <1>3, <1>6, <1>8 DEF Due, Kept
<1>11. Scanned'
  <2>1. ASSUME NEW r \in Threads, Emptied(r), NEW h \in ToSet(stack') PROVE ~ Owing(h)'
    <3>1. CASE h = n
      BY <1>3, <2>1, <3>1 DEF Owing
    <3>2. CASE h \in ToSet(stack)
      BY <1>9, <2>1, <3>2 DEF Due, Scanned
    <3>3. QED
      BY <1>6, <2>1, <3>1, <3>2
  <2>2. ASSUME NEW r \in Threads, NEW i \in 0 .. FnCount - 1, Passed(r, i)
        PROVE  ~ Owing(array[i])'
    BY <1>9, <2>2 DEF Due, Scanned
  <2>3. QED
    BY <1>8, <2>1, <2>2 DEF Scanned
<1>12. Ordered'
  <2>1. \A i \in 0 .. FnCount - 1 : \A h \in ToSet(stack') : array[i] < h
    BY <1>3, <1>6 DEF Due, Ordered
  <2>2. \A i, j \in 0 .. FnCount - 1 : i < j /\ Owing(array[j])' =>
           array[i] # 0 /\ (Owing(array[i])' => array[i] < array[j])
    BY <1>9 DEF Due, Ordered
  <2>3. QED
    BY <1>2, <1>7, <2>1, <2>2 DEF Ordered
<1>13. QED
  BY <1>10, <1>11, <1>12 DEF Due

LEMMA PushSlotDue ==
  ASSUME IInv, OneExits, Due, NEW p \in Threads, PushSlot(p) PROVE Due'
<1> DEFINE n == Len(accepted) + 1  m == Min(FreeSlots)
<1>1. push[p] # NoPush
  BY DEF PushSlot, NoPush
<1>2. saw[p] = stack /\ stack' = stack /\ UNCHANGED <<ran, pc, quick, slot>>
  BY <1>1 DEF PushSlot, PushDone, IInv, Locked
<1>3. /\ \A r \in Threads : Emptied(r)' <=> Emptied(r)
      /\ \A r \in Threads, i \in 0 .. FnCount - 1 : Passed(r, i)' <=> Passed(r, i)
      /\ Exiting' = Exiting
  BY <1>2 DEF Emptied, Passed, Exiting
<1>0. /\ found[p] # FnCount <=> FreeSlots # {}
      /\ FreeSlots # {} => found[p] = m
  BY FoundSlot DEF PushSlot, PushDone
<1>4. CASE ~ (saw[p] = <<>> /\ FreeSlots # {})
  <2>1. UNCHANGED <<accepted, array>>
    BY <1>0, <1>4 DEF PushSlot
  <2>2. Kept'
    BY <1>2, <1>3, <2>1 DEF Due, Kept
  <2>3. Scanned'
    BY <1>2, <1>3, <2>1 DEF Due, Scanned, Owing
  <2>4. Ordered'
    BY <1>2, <2>1 DEF Due, Ordered, Owing
  <2>5. QED
    BY <2>2, <2>3, <2>4 DEF Due
<1>5. CASE saw[p] = <<>> /\ FreeSlots # {}
  <2>1. Accept(p) /\ array' = [array EXCEPT ![m] = Len(accepted')] /\ stack = <<>>
    BY <1>0, <1>2, <1>5 DEF PushSlot
  <2>2. array \in [0 .. FnCount - 1 -> Nat]
    BY DEF IInv, Placed, PlacedOf
  <2>3. /\ m \in 0 .. FnCount - 1 /\ array[m] = 0
        /\ \A i \in 0 .. FnCount - 1 : i < m => array[i] # 0
    BY <1>5, <2>2, MinFree
  <2>4. /\ n \in Nat /\ n > 0 /\ Len(accepted') = n
        /\ DOMAIN accepted = 1 .. n - 1 /\ DOMAIN accepted' = 1 .. n
        /\ \A h \in 1 .. n - 1 : accepted'[h] = accepted[h]
        /\ \A i \in 0 .. FnCount - 1 : array[i] \in Nat /\ array[i] < n
        /\ \A i \in 0 .. FnCount - 1 : array[i] # 0 => array[i] \in 1 .. n - 1
        /\ accepted'[n].owed =>
             \A r \in Threads : ~ Emptied(r) /\ \A i \in 0 .. FnCount - 1 : ~ Passed(r, i)
    BY <2>1, AcceptIs
  <2> HIDE DEF n, m
  <2>5. array'[m] = n /\ \A i \in 0 .. FnCount - 1 : i # m => array'[i] = array[i]
    BY <2>1, <2>2, <2>3, <2>4
  <2>6. ToSet(stack) = {} /\ Falling(stack)
    BY <2>1, Once0 DEF Falling
  <2> DEFINE Owing1(i) == array'[i] # 0 /\ accepted'[array'[i]].owed
  <2>7. /\ \A i \in 0 .. FnCount - 1 : i # m => (Owing1(i) <=> Owing(array[i]))
        /\ Owing1(m) <=> accepted'[n].owed
    BY <2>4, <2>5 DEF Owing
  <2> HIDE DEF Owing1
  <2>8. Kept'
    <3>1. ASSUME NEW h \in 1 .. n - 1, accepted[h].owed
          PROVE  \/ h \in ToSet(stack) \cup ToSet(ran)
                 \/ \E i \in 0 .. FnCount - 1 : array'[i] = h
                 \/ \E r \in Exiting : accepted[h].quick # quick[r]
      <4>1. CASE \E i \in 0 .. FnCount - 1 : array[i] = h
        <5>1. PICK i \in 0 .. FnCount - 1 : array[i] = h
          BY <4>1
        <5>2. i # m
          BY <2>3, <3>1, <5>1
        <5>3. QED
          BY <2>5, <5>1, <5>2
      <4>2. QED
        BY <2>4, <3>1, <4>1 DEF Due, Kept
    <3>2. \E i \in 0 .. FnCount - 1 : array'[i] = n
      BY <2>3, <2>5
    <3>3. \A h \in 1 .. n : h = n \/ h \in 1 .. n - 1
      BY <2>4
    <3>4. QED
      BY <1>2, <1>3, <2>4, <3>1, <3>2, <3>3 DEF Kept
  <2>9. Scanned'
    <3>1. ASSUME NEW r \in Threads, NEW i \in 0 .. FnCount - 1, Passed(r, i) PROVE ~ Owing1(i)
      <4>1. CASE i = m
        BY <2>4, <2>7, <3>1, <4>1
      <4>2. CASE i # m
        BY <2>7, <3>1, <4>2 DEF Due, Scanned
      <4>3. QED
        BY <4>1, <4>2
    <3>2. QED
      BY <1>2, <1>3, <2>6, <3>1 DEF Scanned, Owing, Owing1
  <2>10. Ordered'
    <3>1. ASSUME NEW i \in 0 .. FnCount - 1, NEW j \in 0 .. FnCount - 1, i < j, Owing1(j)
          PROVE  array'[i] # 0 /\ (Owing1(i) => array'[i] < array'[j])
      <4>1. CASE j = m
        BY <2>3, <2>4, <2>5, <3>1, <4>1
      <4>2. CASE i = m
        <5>1. Owing(array[j]) /\ j # m
          BY <2>7, <3>1, <4>2
        <5>2. array[m] # 0
          BY <2>3, <3>1, <4>2, <5>1 DEF Due, Ordered
        <5>3. QED
          BY <2>3, <5>2
      <4>3. CASE i # m /\ j # m
        BY <2>5, <2>7, <3>1, <4>3 DEF Due, Ordered
      <4>4. QED
        BY <4>1, <4>2, <4>3
    <3>2. QED
      BY <1>2, <2>6, <3>1 DEF Ordered, Owing, Owing1
  <2>11. QED
    BY <2>8, <2>9, <2>10 DEF Due
<1>6. QED
  BY <1>4, <1>5

\* What Dispatch does with the handler h.
LEMMA DispatchIs ==
  ASSUME Types, NEW p \in Threads, NEW h \in Nat, NEW from, from # "main", Dispatch(p, h, from)
  PROVE  /\ pc[p] = from /\ Exiting' = Exiting /\ p \in Exiting
         /\ \A r \in Threads : r # p => pc'[r] = pc[r]
         /\ \/ pc'[p] = "running" /\ h # 0 /\ ran' = Append(ran, h)
            \/ pc'[p] = "skipped" /\ ran' = ran /\ (h = 0 \/ accepted[h].quick # quick[p])
BY DEF Dispatch, Types, Exiting

LEMMA PopNodeDue ==
  ASSUME IInv, OneExits, Due, NEW p \in Threads, PopNode(p) PROVE Due'
<1> DEFINE hd == Head(stack)  st == Tail(stack)
<1>1. saw[p] = stack /\ stack # <<>>
  BY DEF PopNode, Dispatch, IInv, Locked, Held
<1>2. /\ stack \in Seq(Nat) /\ Once(stack) /\ Falling(stack)
      /\ ran \in Seq(Nat) /\ Once(ran)
      /\ \A h \in ToSet(stack) : h \notin ToSet(ran) /\ h \in 1 .. Len(accepted)
  BY DEF IInv, Placed, PlacedOf, Due, Ordered
<1>3. /\ Falling(st) /\ hd \in ToSet(stack) /\ ToSet(st) = ToSet(stack) \ {hd}
  BY <1>1, <1>2, TailFalling
<1>4. hd \in Nat /\ hd # 0 /\ hd \in DOMAIN accepted
  BY <1>2, <1>3 DEF IInv, Types
<1>5. /\ Dispatch(p, hd, "pop") /\ stack' = st /\ slot' = [slot EXCEPT ![p] = FnCount]
      /\ UNCHANGED <<array, accepted, quick>>
  BY <1>1 DEF PopNode
<1> HIDE DEF hd, st
<1>6. /\ Exiting' = Exiting /\ p \in Exiting
      /\ \A r \in Threads : r # p => pc'[r] = pc[r]
      /\ \/ pc'[p] = "running" /\ ran' = Append(ran, hd)
         \/ pc'[p] = "skipped" /\ ran' = ran /\ accepted[hd].quick # quick[p]
  BY <1>4, <1>5, DispatchIs DEF IInv
<1>7. ToSet(ran) \subseteq ToSet(ran') /\ (ran' = Append(ran, hd) => hd \in ToSet(ran'))
  <2>1. ToSet(Append(ran, hd)) = ToSet(ran) \cup {hd}
    BY <1>2, <1>3, <1>4, AppendOnce
  <2>2. QED
    BY <1>6, <2>1
<1>8. Kept'
  BY <1>3, <1>5, <1>6, <1>7 DEF Due, Kept
<1>9. Scanned'
  <2>1. slot'[p] = FnCount /\ \A r \in Threads : r # p => slot'[r] = slot[r]
    BY <1>5 DEF IInv, Types
  <2>2. ~ Emptied(p)' /\ \A i \in 0 .. FnCount - 1 : ~ Passed(p, i)'
    BY <1>6, <2>1 DEF Emptied, Passed
  <2>3. \A r \in Threads : r # p =>
          /\ Emptied(r)' => Emptied(r)
          /\ \A i \in 0 .. FnCount - 1 : Passed(r, i)' => Passed(r, i)
    BY <1>6, <2>1 DEF Emptied, Passed
  <2>4. QED
    BY <1>3, <1>5, <2>2, <2>3 DEF Due, Scanned, Owing
<1>10. Ordered'
  BY <1>3, <1>5 DEF Due, Ordered, Owing
<1>11. QED
  BY <1>8, <1>9, <1>10 DEF Due

LEMMA TakeSlotDue ==
  ASSUME IInv, OneExits, Due, NEW p \in Threads, TakeSlot(p) PROVE Due'
<1> DEFINE k == slot[p]  hd == array[k]
<1>1. k \in 0 .. FnCount - 1 /\ k # FnCount
  BY AtExitAssumption DEF TakeSlot, Dispatch, IInv, Types
<1>2. /\ array \in [0 .. FnCount - 1 -> Nat] /\ hd \in Nat
      /\ ran \in Seq(Nat) /\ Once(ran)
      /\ hd # 0 => hd \notin ToSet(ran)
  BY <1>1 DEF IInv, Placed, PlacedOf
<1>0. found[p] = hd
  BY DEF TakeSlot, Dispatch, IInv, Locked, Held, Found
<1>3. /\ Dispatch(p, hd, "scan") /\ array' = [array EXCEPT ![k] = 0]
      /\ UNCHANGED <<stack, accepted, quick, slot>>
  BY <1>0 DEF TakeSlot
<1>4. array'[k] = 0 /\ \A i \in 0 .. FnCount - 1 : i # k => array'[i] = array[i]
  BY <1>1, <1>2, <1>3
<1>5. \A i \in 0 .. FnCount - 1 : k < i => ~ Owing(array[i])
  BY <1>3 DEF Due, Scanned, Passed, Dispatch
<1>6. \A h \in ToSet(stack) : ~ Owing(h)
  BY <1>3 DEF Due, Scanned, Emptied, Dispatch
<1> HIDE DEF hd, k
<1>7. /\ Exiting' = Exiting /\ p \in Exiting
      /\ \A r \in Threads : r # p => pc'[r] = pc[r]
      /\ \/ pc'[p] = "running" /\ hd # 0 /\ ran' = Append(ran, hd)
         \/ pc'[p] = "skipped" /\ ran' = ran /\ (hd = 0 \/ accepted[hd].quick # quick[p])
  BY <1>2, <1>3, DispatchIs DEF IInv
<1>8. /\ ToSet(ran) \subseteq ToSet(ran')
      /\ hd # 0 /\ ran' = Append(ran, hd) => hd \in ToSet(ran')
  <2>1. hd # 0 => ToSet(Append(ran, hd)) = ToSet(ran) \cup {hd}
    BY <1>2, AppendOnce
  <2>2. QED
    BY <1>7, <2>1
<1>9. Kept'
  <2>1. \A h \in DOMAIN accepted : h # 0
    BY DEF IInv, Types
  <2>2. ASSUME NEW h \in DOMAIN accepted, accepted[h].owed, NEW i \in 0 .. FnCount - 1, array[i] = h
        PROVE  \/ h \in ToSet(ran')
               \/ \E j \in 0 .. FnCount - 1 : array'[j] = h
               \/ accepted[h].quick # quick[p]
    <3>1. CASE i = k
      <4>1. h = hd /\ hd # 0
        BY <2>1, <2>2, <3>1 DEF hd
      <4>2. QED
        BY <1>7, <1>8, <4>1
    <3>2. CASE i # k
      BY <1>4, <2>2, <3>2
    <3>3. QED
      BY <3>1, <3>2
  <2>3. ASSUME NEW h \in DOMAIN accepted, accepted[h].owed
        PROVE  \/ h \in ToSet(stack) \cup ToSet(ran')
               \/ \E i \in 0 .. FnCount - 1 : array'[i] = h
               \/ \E r \in Exiting : accepted[h].quick # quick[r]
    <3>1. \/ h \in ToSet(stack) \cup ToSet(ran)
          \/ \E i \in 0 .. FnCount - 1 : array[i] = h
          \/ \E r \in Exiting : accepted[h].quick # quick[r]
      BY <2>3 DEF Due, Kept
    <3>2. QED
      BY <1>7, <1>8, <2>2, <2>3, <3>1
  <2>4. QED
    BY <1>3, <1>7, <2>3 DEF Kept
<1>10. Scanned'
  <2>1. ASSUME NEW r \in Threads, NEW i \in 0 .. FnCount - 1, Passed(r, i)'
        PROVE  ~ Owing(array[i])'
    <3>1. CASE i = k
      BY <1>4, <3>1 DEF Owing
    <3>2. CASE i # k /\ r = p
      <4>1. k <= i /\ i \in Int /\ k \in Int
        BY <1>1, <1>3, <1>7, <2>1, <3>2 DEF Passed, k
      <4>2. k < i
        BY <3>2, <4>1
      <4>3. QED
        BY <1>3, <1>4, <1>5, <3>2, <4>2 DEF Owing
    <3>3. CASE i # k /\ r # p
      <4>1. Passed(r, i)
        BY <1>3, <1>7, <2>1, <3>3 DEF Passed
      <4>2. QED
        BY <1>3, <1>4, <3>3, <4>1 DEF Due, Scanned, Owing
    <3>4. QED
      BY <3>1, <3>2, <3>3
  <2>2. \A h \in ToSet(stack') : ~ Owing(h)'
    BY <1>3, <1>6 DEF Owing
  <2>3. QED
    BY <2>1, <2>2 DEF Scanned
<1>11. Ordered'
  <2>1. \A i \in 0 .. FnCount - 1 : \A h \in ToSet(stack) : array'[i] < h
    <3>1. ASSUME NEW h \in ToSet(stack) PROVE h \in Nat /\ 0 < h
      BY <3>1 DEF IInv, Placed, PlacedOf
    <3>2. QED
      BY <1>4, <3>1 DEF Due, Ordered
  <2>2. ASSUME NEW i \in 0 .. FnCount - 1, NEW j \in 0 .. FnCount - 1, i < j, Owing(array[j])'
        PROVE  array'[i] # 0 /\ (Owing(array[i])' => array'[i] < array'[j])
    <3>1. j # k /\ Owing(array[j])
      BY <1>3, <1>4, <2>2 DEF Owing
    <3>2. i # k
      BY <1>5, <2>2, <3>1
    <3>3. QED
      BY <1>3, <1>4, <2>2, <3>1, <3>2 DEF Due, Ordered, Owing
  <2>3. QED
    BY <1>3, <2>1, <2>2 DEF Due, Ordered
<1>12. QED
  BY <1>9, <1>10, <1>11 DEF Due

\* The inductive invariant: what resolve() is past, and what is behind it.
DueApart == ~ met /\ OneExits => Due

LEMMA DueStepOK ==
  ASSUME Apart, DueApart, [Next]_vars PROVE DueApart'
<1> SUFFICES ASSUME ~ met', OneExits' PROVE Due'
  BY DEF DueApart
<1>1. ~ met /\ IInv
  BY MetStays DEF Apart
<1>2. OneExits /\ Due
  BY <1>1, SoleOK DEF DueApart, IInv
<1>3. CASE Outside
  BY <1>1, <1>2, <1>3, OutsideDue
<1>4. CASE Locking
  BY <1>1, <1>2, <1>4, LockingDue
<1>5. CASE Leaving
  BY <1>1, <1>2, <1>5, PushNodeDue, PushSlotDue, PopNodeDue, TakeSlotDue, EndDue DEF Leaving
<1>6. CASE UNCHANGED vars
  BY <1>2, <1>6 DEF Due, Kept, Scanned, Ordered, Owing, Emptied, Passed, Exiting, vars,
                    handlerVars, localVars
<1>7. QED
  BY <1>3, <1>4, <1>5, <1>6 DEF Next, Continue, Outside, Locking, Leaving

LEMMA CalledOK ==
  ASSUME IInv, OneExits, Due, NEW p \in Threads, pc[p] = "done", NEW h \in DOMAIN accepted,
         accepted[h].owed, accepted[h].quick = quick[p]
  PROVE  h \in ToSet(ran)
<1>1. h # 0 /\ Owing(h)
  BY DEF IInv, Types, Owing
<1>2. p \in Exiting
  BY DEF Exiting
<1>3. Exiting = {p}
  BY <1>2 DEF OneExits
<1>4. h \notin ToSet(stack) /\ \A i \in 0 .. FnCount - 1 : array[i] # h
  BY <1>1 DEF Due, Scanned, Emptied, Passed
<1>5. QED
  BY <1>3, <1>4 DEF Due, Kept

LEMMA LatestOK ==
  ASSUME IInv, Due, [Next]_vars, NEW p \in Threads, ran' # ran, pc[p] # "running",
         pc'[p] = "running", accepted[Last(ran')].owed,
         NEW h \in Pending', accepted[h].owed
  PROVE  h < Last(ran')
<1>0. h # 0 /\ Owing(h)
  BY DEF Pending, Owing
<1>1. PICK r \in Threads : PopNode(r) \/ TakeSlot(r)
  <2>1. ASSUME Outside \/ Locking PROVE ran' = ran
    BY <2>1 DEF Outside, Exit, PushBegin, PopEmpty, Return, EndExit, GoOnInCxa, CallCxa,
           LeaveAtExit, handlerVars, Locking, PushLock, LockFirst, Resume
  <2>2. ASSUME NEW r \in Threads, PushNode(r) \/ PushSlot(r) \/ EndQuick(r) \/ EndDtors(r)
        PROVE  ran' = ran
    BY <2>2 DEF PushNode, PushSlot, PushDone, EndQuick, EndDtors, handlerVars
  <2>3. ASSUME UNCHANGED vars PROVE ran' = ran
    BY <2>3 DEF vars, handlerVars
  <2>4. QED
    BY <2>1, <2>2, <2>3 DEF Next, Continue, Outside, Locking
<1>2. DOMAIN array' = 0 .. FnCount - 1
  BY <1>1 DEF IInv, Placed, PlacedOf, PopNode, TakeSlot
<1>3. ran \in Seq(Nat)
  BY DEF IInv, Placed, PlacedOf
<1>4. \A x \in Nat : ran' = Append(ran, x) => Last(ran') = x
  BY <1>3 DEF Last
<1>5. CASE PopNode(r)
  <2> DEFINE hd == Head(stack)
  <2>1. saw[r] = stack /\ stack # <<>>
    BY <1>5 DEF PopNode, Dispatch, IInv, Locked, Held
  <2>2. /\ hd \in ToSet(stack) /\ hd \in Nat
        /\ \A y \in ToSet(Tail(stack)) : y < hd
    <3>1. stack \in Seq(Nat) /\ Falling(stack)
      BY DEF IInv, Placed, PlacedOf, Due, Ordered
    <3>2. hd \in ToSet(stack) /\ \A y \in ToSet(Tail(stack)) : y < hd
      BY <2>1, <3>1, TailFalling
    <3>3. QED
      BY <2>1, <3>1, <3>2
  <2>3. Dispatch(r, hd, "pop") /\ stack' = Tail(stack) /\ array' = array
    BY <1>5, <2>1 DEF PopNode
  <2> HIDE DEF hd
  <2>4. Last(ran') = hd
    BY <1>4, <2>2, <2>3 DEF Dispatch
  <2>5. h \in ToSet(Tail(stack)) \/ \E i \in 0 .. FnCount - 1 : h = array[i]
    BY <1>2, <2>3 DEF Pending
  <2>6. QED
    BY <2>2, <2>4, <2>5 DEF Due, Ordered
<1>6. CASE TakeSlot(r)
  <2> DEFINE k == slot[r]
  <2>1. k \in 0 .. FnCount - 1 /\ array \in [0 .. FnCount - 1 -> Nat]
    BY <1>6, AtExitAssumption DEF TakeSlot, Dispatch, IInv, Types, Placed, PlacedOf
  <2>2. /\ Dispatch(r, array[k], "scan") /\ array' = [array EXCEPT ![k] = 0] /\ stack' = stack
        /\ pc[r] = "scan"
    BY <1>6 DEF TakeSlot, Dispatch, IInv, Locked, Held, Found
  <2>3. Last(ran') = array[k] /\ Owing(array[k])
    BY <1>4, <2>1, <2>2 DEF Dispatch, Owing
  <2>4. h \notin ToSet(stack) /\ h # 0
    BY <1>0, <2>2 DEF Due, Scanned, Emptied, Owing
  <2>5. PICK i \in 0 .. FnCount - 1 : h = array'[i]
    BY <1>2, <2>2, <2>4 DEF Pending
  <2>6. i # k /\ h = array[i]
    BY <2>1, <2>2, <2>4, <2>5
  <2>7. ~ (k < i)
    BY <1>0, <2>2, <2>6 DEF Due, Scanned, Passed
  <2>8. i < k
    BY <2>1, <2>6, <2>7
  <2>9. QED
    BY <1>0, <2>1, <2>3, <2>6, <2>8 DEF Due, Ordered
<1>7. QED
  BY <1>1, <1>5, <1>6

\* As long as no two threads had fn_lock at once and one thread exits: every
\* handler of its kind that was accepted before exit(), or by a handler that
\* exit() ran, has been called when it is through, whatever is registered
\* meanwhile, and in whichever slot.
THEOREM AllCalledHolds == Spec => []AllCalled
<1>1. Init => Apart /\ DueApart
  BY InitOK, DueInit DEF Apart, DueApart
<1>2. Apart /\ DueApart /\ [Next]_vars => Apart' /\ DueApart'
  BY ApartOK, DueStepOK
<1>3. Apart /\ DueApart => AllCalled
  BY CalledOK DEF Apart, DueApart, AllCalled
<1>4. QED
  BY <1>1, <1>2, <1>3, PTL DEF Spec

\* Under the same condition, of the handlers that have to run, the one called
\* is the latest left.
THEOREM LatestFirstHolds == Spec => LatestFirst
<1> DEFINE A ==
      ~ met /\ OneExits =>
        \A p \in Threads :
          LET Owed(h) == accepted[h].owed /\ accepted[h].quick = quick[p]
          IN ran' # ran /\ pc[p] # "running" /\ pc'[p] = "running" /\ Owed(Last(ran')) =>
               \A h \in Pending' : Owed(h) => h < Last(ran')
<1>1. Init => Apart /\ DueApart
  BY InitOK, DueInit DEF Apart, DueApart
<1>2. Apart /\ DueApart /\ [Next]_vars => Apart' /\ DueApart'
  BY ApartOK, DueStepOK
<1>3. Apart /\ DueApart /\ [Next]_vars => [A]_vars
  BY LatestOK DEF Apart, DueApart
<1>4. QED
  BY <1>1, <1>2, <1>3, PTL DEF Spec, LatestFirst
=============================================================================
