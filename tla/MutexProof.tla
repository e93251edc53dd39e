----------------------------- MODULE MutexProof -----------------------------
(***************************************************************************)
(* Proofs about the ticket semaphore of abi/semaphore.h and the mutexes    *)
(* on it, std::mutex and std::recursive_mutex, for any finite set of       *)
(* threads, any width of recurs_ and of the semaphore's two counters, any  *)
(* initial value and any lag that satisfy the assumptions.                 *)
(*                                                                         *)
(* The semaphore: no unit is lost or made, nobody overtakes, and the       *)
(* safety part of CountingSemaphore with capacity V + 1 is implemented.    *)
(* The argument counts the units out.  If they exceed V + 1, the tickets   *)
(* after a_ are not reached yet, and each has a thread that still spins on *)
(* it: those threads do not hold.                                          *)
(*                                                                         *)
(* The mutexes construct their semaphore with V = 1.  Nothing about them   *)
(* depends on it: V stays a parameter here, for all the theorems.          *)
(***************************************************************************)
EXTENDS RecursiveMutex, FiniteSetTheorems, TLAPS

-----------------------------------------------------------------------------
(* The semaphore                                                           *)

\* The window is less than half the range of the word.
LEMMA WndBound == Wnd \in Nat /\ 2 * Wnd < W
  BY WAssumption, SMTT(30) DEF Wnd

\* The two counters as remainders, without the remainder: y is out of the
\* word's range by less than the range.
Wrap(y) == IF y < 0 THEN y + W ELSE IF y >= W THEN y - W ELSE y

\* How far counter x is ahead of counter y.
Ahead(x, y) == Wrap(x - y)

LEMMA WrapIsMod == ASSUME NEW y \in Int, -W <= y, y < 2 * W PROVE y % W = Wrap(y)
<1> USE WAssumption DEF Wrap
<1>1. CASE y < 0
  BY <1>1, SMTT(30)
<1>2. CASE y \in 0 .. W - 1
  BY <1>2, SMTT(30)
<1>3. CASE y >= W
  BY <1>3, SMTT(30)
<1>4. QED
  BY <1>1, <1>2, <1>3

LEMMA BumpIsWrap == ASSUME NEW x \in 0 .. W - 1 PROVE Bump(x) = Wrap(x + 1)
  BY WrapIsMod, WAssumption DEF Bump

LEMMA ReachedIsNear ==
  ASSUME NEW x \in 0 .. W - 1, NEW k \in 0 .. W - 1
  PROVE  /\ (x - k) % W = Ahead(x, k)
         /\ Reached(x, k) <=> Ahead(x, k) <= Wnd
  BY WrapIsMod, WAssumption DEF Reached, Ahead

\* The wrapping increment stays within the word.
LEMMA BumpType == ASSUME NEW x \in 0 .. W - 1 PROVE Bump(x) \in 0 .. W - 1
  BY BumpIsWrap, WAssumption DEF Wrap
-----------------------------------------------------------------------------
\* The threads with a unit or a ticket out, and how many of their tickets are
\* not reached when a_ is.
Out == Spinning \cup Holding
N == Cardinality(Out)
Gap == N - V - 1

Balance == a = Wrap(t + V - N)

\* Every ticket that is not reached has a thread that spins on it.
TicketsSpun == \A i \in 1 .. Gap : \E p \in Spinning : reg[p] = Wrap(a + i)

\* A thread that spins has just been passed by a_, or waits for it.
SpinnersNear ==
  \A p \in Spinning : Ahead(a, reg[p]) <= MaxLag \/ Ahead(reg[p], a) \in 1 .. Gap

\* What a thread in try_decrement() has read is not far behind a_.
TriesNear ==
  \A p \in Threads : pc[p] \in {"try_t", "try_cas"} => Ahead(a, reg[p]) <= MaxLag

SemInv == SemTypeOK /\ Balance /\ TicketsSpun /\ SpinnersNear /\ TriesNear

LEMMA Counted ==
  ASSUME NEW S \in SUBSET Threads
  PROVE  /\ IsFiniteSet(S) /\ Cardinality(S) \in Nat
         /\ Cardinality(S) <= Cardinality(Threads)
  BY FS_Subset, FS_CardinalityType, ThreadsAssumption

LEMMA Sizes ==
  /\ N \in Nat /\ N <= Cardinality(Threads) /\ Cardinality(Threads) \in Nat
  /\ Out \in SUBSET Threads
<1>1. Out \in SUBSET Threads
  BY DEF Out, Spinning, Holding
<1>2. QED
  BY <1>1, Counted, FS_CardinalityType, ThreadsAssumption DEF N

\* The bounds under which no difference that matters is wider than the window.
LEMMA Bounds ==
  /\ W \in Nat /\ V \in Nat /\ MaxLag \in Nat /\ Wnd \in Nat
  /\ V < MaxLag /\ MaxLag + N <= Wnd /\ 2 * Wnd < W
  BY WAssumption, VAssumption, WindowAssumption, WndBound, Sizes

\* Both counters in terms of the units out.
LEMMA Conserved ==
  ASSUME SemTypeOK PROVE Balance <=> UnitsConserved
<1>1. t \in 0 .. W - 1 /\ N = Cardinality(Spinning \cup Holding)
  BY DEF SemTypeOK, N, Out
<1>2. (t + V - N) % W = Wrap(t + V - N)
  BY <1>1, Sizes, Bounds, WrapIsMod
<1>3. QED
  BY <1>1, <1>2 DEF Balance, UnitsConserved

\* The distance of the next ticket: a_ is V - N ahead of it, or N - V behind.
LEMMA NextTicket ==
  ASSUME SemTypeOK, Balance
  PROVE  /\ Ahead(a, t) = IF N <= V THEN V - N ELSE V - N + W
         /\ N > V => t = Wrap(a + (N - V)) /\ Ahead(t, a) = N - V
  BY Bounds, Sizes DEF SemTypeOK, Balance, Ahead, Wrap
-----------------------------------------------------------------------------
LEMMA SemInitHolds == SemInit => SemInv
<1> SUFFICES ASSUME SemInit PROVE SemInv
  OBVIOUS
<1>1. Spinning = {} /\ Holding = {} /\ Out = {}
  BY DEF SemInit, Spinning, Holding, Out
<1>2. N = 0
  BY <1>1, FS_EmptySet DEF N
<1>3. SemTypeOK
  BY Bounds, Sizes DEF SemInit, SemTypeOK, PCs
<1>4. Balance
  BY <1>2, Bounds DEF SemInit, Balance, Wrap
<1>5. TicketsSpun
  BY <1>2, Bounds DEF TicketsSpun, Gap
<1>6. SpinnersNear /\ TriesNear
  BY <1>1 DEF SemInit, SpinnersNear, TriesNear
<1>7. QED
  BY <1>3, <1>4, <1>5, <1>6 DEF SemInv

SemStep(p) ==
  \/ DrawTicket(p) \/ Admit(p) \/ TryLoadA(p) \/ TryLoadT(p)
  \/ TryRefused(p) \/ TryCas(p) \/ TryCasLost(p) \/ Increment(p)

\* Every step of the semaphore keeps the types of its counters and registers.
LEMMA SemStepType == ASSUME SemTypeOK, NEW p \in Threads, SemStep(p) PROVE SemTypeOK'
<1>1. Bump(t) \in 0 .. W - 1 /\ Bump(a) \in 0 .. W - 1 /\ 0 \in 0 .. W - 1
  BY BumpType, WAssumption DEF SemTypeOK
<1>2. ASSUME NEW from, NEW to \in PCs, NEW r \in 0 .. W - 1, Goto(p, from, to, r)
      PROVE  pc' \in [Threads -> PCs] /\ reg' \in [Threads -> 0 .. W - 1]
  BY <1>2 DEF Goto, SemTypeOK
<1>3. reg[p] \in 0 .. W - 1 /\ t \in 0 .. W - 1 /\ a \in 0 .. W - 1
  BY DEF SemTypeOK
<1>4. {"idle", "spin", "try_t", "try_cas", "held"} \subseteq PCs
  BY DEF PCs
<1>5. CASE DrawTicket(p)
  BY <1>1, <1>2, <1>3, <1>4, <1>5 DEF DrawTicket, SemTypeOK
<1>6. CASE Admit(p)
  BY <1>1, <1>2, <1>3, <1>4, <1>6 DEF Admit, SemTypeOK
<1>7. CASE TryLoadA(p)
  BY <1>1, <1>2, <1>3, <1>4, <1>7 DEF TryLoadA, SemTypeOK
<1>8. CASE TryLoadT(p)
  BY <1>1, <1>2, <1>3, <1>4, <1>8 DEF TryLoadT, SemTypeOK
<1>9. CASE TryRefused(p)
  BY <1>1, <1>2, <1>3, <1>4, <1>9 DEF TryRefused, SemTypeOK
<1>10. CASE TryCas(p)
  BY <1>1, <1>2, <1>3, <1>4, <1>10 DEF TryCas, SemTypeOK
<1>11. CASE TryCasLost(p)
  BY <1>1, <1>2, <1>3, <1>4, <1>11 DEF TryCasLost, SemTypeOK
<1>12. CASE Increment(p)
  BY <1>1, <1>2, <1>3, <1>4, <1>12 DEF Increment, SemTypeOK
<1>13. QED
  BY <1>5, <1>6, <1>7, <1>8, <1>9, <1>10, <1>11, <1>12 DEF SemStep

LEMMA SemStutterType == ASSUME SemTypeOK, UNCHANGED semVars PROVE SemTypeOK'
  BY DEF SemTypeOK, semVars

\* What a step does to the three sets, when it moves one thread.
LEMMA Moved ==
  ASSUME SemTypeOK, NEW p \in Threads, NEW to, pc' = [pc EXCEPT ![p] = to]
  PROVE  /\ Spinning' = IF to = "spin" THEN Spinning \cup {p} ELSE Spinning \ {p}
         /\ Holding' = IF to = "held" THEN Holding \cup {p} ELSE Holding \ {p}
         /\ Out' = IF to \in {"spin", "held"} THEN Out \cup {p} ELSE Out \ {p}
<1>1. pc'[p] = to /\ \A q \in Threads \ {p} : pc'[q] = pc[q]
  BY DEF SemTypeOK
<1>2. QED
  BY <1>1 DEF Spinning, Holding, Out

\* One unit more or less is out.
LEMMA OneMore ==
  ASSUME NEW p \in Threads, p \notin Out, Out' = Out \cup {p} PROVE N' = N + 1
  BY Sizes, Counted, FS_AddElement DEF N

LEMMA OneLess ==
  ASSUME NEW p \in Out, Out' = Out \ {p} PROVE N' = N - 1
  BY Sizes, Counted, FS_RemoveElement DEF N

\* The bound on the units out holds after a step, too.
LEMMA BoundsNext == ASSUME SemTypeOK' PROVE N' \in Nat /\ MaxLag + N' <= Wnd
<1>1. Out' \in SUBSET Threads
  BY DEF Out, Spinning, Holding
<1>2. QED
  BY <1>1, Counted, Bounds, Sizes, WindowAssumption DEF N

\* decrement(): the ticket drawn is the last of those not reached, or it is
\* reached at once.
LEMMA DrawKeeps == ASSUME SemInv, NEW p \in Threads, DrawTicket(p) PROVE SemInv'
<1> USE DEF SemInv
<1>1. SemTypeOK'
  BY SemStepType DEF SemStep
<1>2. /\ pc[p] = "idle" /\ pc' = [pc EXCEPT ![p] = "spin"]
      /\ reg' = [reg EXCEPT ![p] = t]
      /\ a' = a /\ t' = Wrap(t + 1)
  BY BumpIsWrap DEF DrawTicket, Goto, SemTypeOK
<1>3. p \notin Out /\ p \notin Spinning
  BY <1>2 DEF Out, Spinning, Holding
<1>4. Spinning' = Spinning \cup {p} /\ Out' = Out \cup {p}
  BY <1>2, Moved
<1>5. N' = N + 1
  BY <1>3, <1>4, OneMore
<1>6. reg'[p] = t /\ \A q \in Threads \ {p} : reg'[q] = reg[q] /\ pc'[q] = pc[q]
  BY <1>2 DEF SemTypeOK
<1>7. Balance'
  BY <1>1, <1>2, <1>5, Bounds, BoundsNext, Sizes DEF Balance, Wrap, SemTypeOK
<1>8. Gap' = Gap + 1 /\ Gap \in Int
  BY <1>5, Sizes, Bounds DEF Gap
<1>9. TicketsSpun'
  <2> SUFFICES ASSUME NEW i \in 1 .. Gap + 1
               PROVE  \E q \in Spinning' : reg'[q] = Wrap(a + i)
    BY <1>2, <1>8 DEF TicketsSpun, Wrap
  <2>1. CASE i \in 1 .. Gap
    <3>1. PICK q \in Spinning : reg[q] = Wrap(a + i)
      BY <2>1 DEF TicketsSpun
    <3>2. QED
      BY <1>3, <1>4, <1>6, <3>1 DEF Spinning
  <2>2. CASE i = Gap + 1
    <3>1. N > V /\ i = N - V
      BY <2>2, Sizes, Bounds DEF Gap
    <3>2. t = Wrap(a + i)
      BY <3>1, NextTicket
    <3>3. QED
      BY <1>4, <1>6, <3>2
  <2>3. QED
    BY <1>8, <2>1, <2>2
<1>10. SpinnersNear'
  <2> SUFFICES ASSUME NEW q \in Spinning'
               PROVE  Ahead(a, reg'[q]) <= MaxLag \/ Ahead(reg'[q], a) \in 1 .. Gap + 1
    BY <1>2, <1>8 DEF SpinnersNear, Ahead, Wrap
  <2>1. CASE q = p
    BY <1>6, <2>1, NextTicket, Sizes, Bounds DEF Gap
  <2>2. CASE q # p
    <3>1. q \in Spinning /\ reg'[q] = reg[q]
      BY <1>4, <1>6, <2>2 DEF Spinning
    <3>2. QED
      BY <1>8, <3>1 DEF SpinnersNear
  <2>3. QED
    BY <2>1, <2>2
<1>11. TriesNear'
  BY <1>2, <1>6 DEF TriesNear, Ahead, Wrap
<1>12. QED
  BY <1>1, <1>7, <1>9, <1>10, <1>11

\* A step that leaves both counters and the threads out alone, and makes
\* nobody spin: the registers that matter are as they were.
LEMMA QuietKeeps ==
  ASSUME SemInv, SemTypeOK', a' = a, t' = t, Out' = Out,
         Spinning' \in SUBSET Spinning,
         \A q \in Spinning' : reg'[q] = reg[q],
         \A q \in Spinning \ Spinning' : Ahead(a, reg[q]) <= Wnd,
         \A q \in Threads : pc'[q] \in {"try_t", "try_cas"} => Ahead(a, reg'[q]) <= MaxLag
  PROVE  SemInv'
<1> USE DEF SemInv
<1>1. N' = N /\ Gap' = Gap
  BY DEF N, Gap
<1>2. Balance'
  BY <1>1 DEF Balance, Wrap
<1>3. TicketsSpun'
  <2> SUFFICES ASSUME NEW i \in 1 .. Gap
               PROVE  \E q \in Spinning' : reg'[q] = Wrap(a + i)
    BY <1>1 DEF TicketsSpun, Wrap
  <2>1. PICK q \in Spinning : reg[q] = Wrap(a + i)
    BY DEF TicketsSpun
  <2>2. Ahead(a, reg[q]) > Wnd
    BY <2>1, Bounds, Sizes DEF Gap, Ahead, Wrap, SemTypeOK
  <2>3. q \in Spinning'
    BY <2>2, Bounds DEF Ahead, Wrap, SemTypeOK, Spinning
  <2>4. QED
    BY <2>1, <2>3
<1>4. SpinnersNear'
  BY <1>1 DEF SpinnersNear, Ahead, Wrap
<1>5. TriesNear'
  BY DEF TriesNear, Ahead, Wrap
<1>6. QED
  BY <1>2, <1>3, <1>4, <1>5

\* decrement(): the thread that returns spun on a ticket that is reached.
LEMMA AdmitKeeps == ASSUME SemInv, NEW p \in Threads, Admit(p) PROVE SemInv'
<1> USE DEF SemInv
<1>1. SemTypeOK'
  BY SemStepType DEF SemStep
<1>2. /\ pc[p] = "spin" /\ pc' = [pc EXCEPT ![p] = "held"]
      /\ reg' = reg /\ a' = a /\ t' = t /\ Reached(a, reg[p])
  BY DEF Admit, Goto, SemTypeOK
<1>3. Spinning' = Spinning \ {p} /\ Out' = Out
  <2>1. Spinning' = Spinning \ {p} /\ Out' = Out \cup {p} /\ p \in Out
    BY <1>2, Moved DEF Out, Spinning
  <2>2. QED
    BY <2>1
<1>4. Ahead(a, reg[p]) <= Wnd
  BY <1>2, ReachedIsNear DEF SemTypeOK
<1>5. \A q \in Threads : pc'[q] \in {"try_t", "try_cas"} => pc[q] \in {"try_t", "try_cas"}
  BY <1>2 DEF SemTypeOK
<1>6. QED
  BY <1>1, <1>2, <1>3, <1>4, <1>5, QuietKeeps DEF TriesNear, Spinning

\* A ticket that try_decrement() would be admitted with at once leaves units.
LEMMA TryRoom ==
  ASSUME SemInv, NEW p \in Threads, pc[p] = "try_t", Reached(reg[p], t)
  PROVE  Ahead(a, t) <= MaxLag
<1>1. Ahead(a, reg[p]) <= MaxLag /\ Ahead(reg[p], t) <= Wnd
  BY ReachedIsNear DEF SemInv, SemTypeOK, TriesNear
<1>2. QED
  BY <1>1, NextTicket, Bounds, Sizes DEF SemInv, SemTypeOK, Ahead, Wrap

\* A thread in try_decrement() steps without taking a ticket.
LEMMA TryKeeps ==
  ASSUME SemInv, NEW p \in Threads, TryLoadA(p) \/ TryLoadT(p) \/ TryRefused(p) \/ TryCasLost(p)
  PROVE  SemInv'
<1> USE DEF SemInv
<1>1. SemTypeOK'
  BY SemStepType DEF SemStep
<1>2. PICK to \in {"idle", "try_t", "try_cas"}, r \in 0 .. W - 1 :
        /\ pc[p] \in {"idle", "try_t", "try_cas"} /\ pc' = [pc EXCEPT ![p] = to]
        /\ reg' = [reg EXCEPT ![p] = r]
        /\ a' = a /\ t' = t
        /\ to \in {"try_t", "try_cas"} => Ahead(a, r) <= MaxLag
  <2>1. CASE TryLoadA(p)
    <3>1. Ahead(a, a) <= MaxLag
      BY Bounds DEF SemTypeOK, Ahead, Wrap
    <3>2. QED
      BY <2>1, <3>1 DEF TryLoadA, Goto, SemTypeOK
  <2>2. CASE TryLoadT(p)
    <3>1. Ahead(a, t) <= MaxLag
      BY <2>2, TryRoom DEF TryLoadT, Goto
    <3>2. QED
      BY <2>2, <3>1 DEF TryLoadT, Goto, SemTypeOK
  <2>3. CASE TryRefused(p) \/ TryCasLost(p)
    <3>1. 0 \in 0 .. W - 1 /\ "idle" \notin {"try_t", "try_cas"}
      BY WAssumption
    <3>2. /\ pc[p] \in {"try_t", "try_cas"} /\ pc' = [pc EXCEPT ![p] = "idle"]
          /\ reg' = [reg EXCEPT ![p] = 0] /\ a' = a /\ t' = t
      BY <2>3 DEF TryRefused, TryCasLost, Goto
    <3>3. QED
      BY <3>1, <3>2
  <2>4. QED
    BY <2>1, <2>2, <2>3
<1>3. p \notin Out /\ p \notin Spinning
  BY <1>2 DEF Out, Spinning, Holding
<1>4. Spinning' = Spinning /\ Out' = Out
  <2>1. Spinning' = Spinning \ {p} /\ Out' = Out \ {p}
    BY <1>2, Moved
  <2>2. QED
    BY <1>3, <2>1
<1>5. \A q \in Threads \ {p} : reg'[q] = reg[q] /\ pc'[q] = pc[q]
  BY <1>2 DEF SemTypeOK
<1>6. pc'[p] = to /\ reg'[p] = r
  BY <1>2 DEF SemTypeOK
<1>7. \A q \in Threads : pc'[q] \in {"try_t", "try_cas"} => Ahead(a, reg'[q]) <= MaxLag
  BY <1>2, <1>5, <1>6 DEF TriesNear
<1>8. \A q \in Spinning' : reg'[q] = reg[q]
  BY <1>3, <1>4, <1>5 DEF Spinning
<1>9. QED
  BY <1>1, <1>2, <1>4, <1>7, <1>8, QuietKeeps

\* try_decrement(): nobody drew a ticket since the load, so there is room.
LEMMA CasRoom ==
  ASSUME SemInv, NEW p \in Threads, TryCas(p) PROVE N <= V
<1>1. Ahead(a, t) <= MaxLag
  BY DEF SemInv, TriesNear, TryCas, Goto
<1>2. QED
  BY <1>1, NextTicket, Bounds, Sizes DEF SemInv

LEMMA CasKeeps == ASSUME SemInv, NEW p \in Threads, TryCas(p) PROVE SemInv'
<1> USE DEF SemInv
<1>1. SemTypeOK'
  BY SemStepType DEF SemStep
<1>2. /\ pc[p] = "try_cas" /\ pc' = [pc EXCEPT ![p] = "held"]
      /\ reg' = reg /\ a' = a /\ t' = Wrap(t + 1)
  BY BumpIsWrap DEF TryCas, Goto, SemTypeOK
<1>3. p \notin Out /\ p \notin Spinning
  BY <1>2 DEF Out, Spinning, Holding
<1>4. Spinning' = Spinning \ {p} /\ Out' = Out \cup {p}
  BY <1>2, Moved
<1>5. Spinning' = Spinning
  BY <1>3, <1>4
<1>6. N' = N + 1 /\ N <= V
  BY <1>3, <1>4, OneMore, CasRoom
<1>7. Balance'
  BY <1>1, <1>2, <1>6, Bounds, BoundsNext, Sizes DEF Balance, Wrap, SemTypeOK
<1>8. Gap \in Int /\ Gap < 0 /\ Gap' \in Int /\ Gap' < 1
  BY <1>6, Sizes, Bounds DEF Gap
<1>9. TicketsSpun'
  BY <1>8 DEF TicketsSpun
<1>10. SpinnersNear'
  BY <1>2, <1>5, <1>8 DEF SpinnersNear, Ahead, Wrap
<1>11. TriesNear'
  <2>1. \A q \in Threads : pc'[q] \in {"try_t", "try_cas"} => pc[q] \in {"try_t", "try_cas"}
    BY <1>2 DEF SemTypeOK
  <2>2. QED
    BY <1>2, <2>1 DEF TriesNear, Ahead, Wrap
<1>12. QED
  BY <1>1, <1>7, <1>9, <1>10, <1>11

\* increment(): one ticket more is reached, and nobody who has yet to look
\* falls too far behind.
LEMMA IncrementKeeps == ASSUME SemInv, NEW p \in Threads, Increment(p) PROVE SemInv'
<1> USE DEF SemInv
<1>1. SemTypeOK'
  BY SemStepType DEF SemStep
<1>2. /\ KeepsUp /\ pc[p] = "held" /\ pc' = [pc EXCEPT ![p] = "idle"]
      /\ reg' = [reg EXCEPT ![p] = 0] /\ t' = t /\ a' = Wrap(a + 1)
  BY BumpIsWrap DEF Increment, Goto, SemTypeOK
<1>3. p \in Out /\ p \notin Spinning
  BY <1>2 DEF Out, Spinning, Holding
<1>4. Spinning' = Spinning \ {p} /\ Out' = Out \ {p}
  BY <1>2, Moved, "idle" \notin {"spin", "held"}
<1>5. Spinning' = Spinning
  BY <1>3, <1>4
<1>6. N' = N - 1 /\ N' \in Nat
  BY <1>1, <1>3, <1>4, OneLess, BoundsNext
<1>7. Balance'
  BY <1>1, <1>2, <1>6, Bounds, Sizes DEF Balance, Wrap, SemTypeOK
<1>8. Gap' = Gap - 1 /\ Gap \in Int
  BY <1>6, Sizes, Bounds DEF Gap
<1>9. \A q \in Threads \ {p} : reg'[q] = reg[q] /\ pc'[q] = pc[q]
  BY <1>2 DEF SemTypeOK
<1>10. \A q \in Threads : pc'[q] \in {"spin", "try_t", "try_cas"} => q # p /\ pc[q] = pc'[q]
  BY <1>2, <1>9 DEF SemTypeOK
<1>11. ASSUME NEW q \in Threads, pc[q] \in {"spin", "try_t", "try_cas"},
              Ahead(a, reg[q]) <= MaxLag
       PROVE  Ahead(Wrap(a + 1), reg[q]) <= MaxLag
  <2>1. Ahead(a, reg[q]) <= Wnd
    BY <1>11, Bounds, Sizes DEF Ahead, Wrap, SemTypeOK
  <2>2. Ahead(a, reg[q]) < MaxLag
    BY <1>2, <1>11, <2>1, ReachedIsNear DEF KeepsUp, SemTypeOK
  <2>3. QED
    BY <2>2, Bounds, Sizes DEF Ahead, Wrap, SemTypeOK
<1>12. TicketsSpun'
  <2> SUFFICES ASSUME NEW i \in 1 .. Gap - 1
               PROVE  \E q \in Spinning : reg'[q] = Wrap(Wrap(a + 1) + i)
    BY <1>2, <1>5, <1>8 DEF TicketsSpun, Wrap
  <2>1. i + 1 \in 1 .. Gap
    BY <1>8
  <2>2. PICK q \in Spinning : reg[q] = Wrap(a + (i + 1))
    BY <2>1 DEF TicketsSpun
  <2>3. Wrap(Wrap(a + 1) + i) = Wrap(a + (i + 1))
    BY <2>1, Bounds, Sizes DEF Gap, Wrap, SemTypeOK
  <2>4. QED
    BY <1>3, <1>9, <2>2, <2>3 DEF Spinning
<1>13. SpinnersNear'
  <2> SUFFICES ASSUME NEW q \in Spinning
               PROVE  \/ Ahead(Wrap(a + 1), reg[q]) <= MaxLag
                      \/ Ahead(reg[q], Wrap(a + 1)) \in 1 .. Gap - 1
    BY <1>2, <1>3, <1>5, <1>8, <1>9 DEF SpinnersNear, Spinning, Ahead, Wrap
  <2>1. CASE Ahead(a, reg[q]) <= MaxLag
    BY <1>11, <2>1 DEF Spinning
  <2>2. CASE Ahead(reg[q], a) \in 1 .. Gap
    BY <2>2, Bounds, Sizes DEF Gap, Ahead, Wrap, SemTypeOK, Spinning
  <2>3. QED
    BY <2>1, <2>2 DEF SpinnersNear
<1>14. TriesNear'
  <2> SUFFICES ASSUME NEW q \in Threads, pc'[q] \in {"try_t", "try_cas"}
               PROVE  Ahead(Wrap(a + 1), reg'[q]) <= MaxLag
    BY <1>2 DEF TriesNear, Ahead, Wrap
  <2>1. pc[q] \in {"try_t", "try_cas"} /\ reg'[q] = reg[q]
    BY <1>9, <1>10
  <2>2. QED
    BY <1>11, <2>1 DEF TriesNear
<1>15. QED
  BY <1>1, <1>7, <1>12, <1>13, <1>14

LEMMA SemStutterKeeps == ASSUME SemInv, UNCHANGED semVars PROVE SemInv'
<1>1. SemTypeOK' /\ UNCHANGED <<t, a, pc, reg>>
  BY SemStutterType DEF SemInv, semVars
<1>2. Spinning' = Spinning /\ Out' = Out
  BY <1>1 DEF Spinning, Holding, Out
<1>3. QED
  BY <1>1, <1>2, QuietKeeps DEF SemInv, TriesNear

LEMMA SemInvariance == SemSpec => []SemInv
<1>1. SemInv /\ [SemNext]_semVars => SemInv'
  BY DrawKeeps, AdmitKeeps, TryKeeps, CasKeeps, IncrementKeeps, SemStutterKeeps
     DEF SemNext, TryStep
<1>2. QED
  BY <1>1, SemInitHolds, PTL DEF SemSpec
-----------------------------------------------------------------------------
\* Type correctness of the counters and registers.
THEOREM SemTypeCorrect == SemSpec => []SemTypeOK
<1>1. SemInv => SemTypeOK
  BY DEF SemInv
<1>2. QED
  BY <1>1, SemInvariance, PTL

\* a_ and t_ differ by the units that are out: none is lost and none is made.
THEOREM UnitsCorrect == SemSpec => []UnitsConserved
<1>1. SemInv => UnitsConserved
  BY Conserved DEF SemInv
<1>2. QED
  BY <1>1, SemInvariance, PTL

\* One thread at least spins on each of the Gap tickets that are not reached.
LEMMA SpinnersFillGap == ASSUME SemInv, Gap >= 1 PROVE Gap <= Cardinality(Spinning)
<1> DEFINE f == [i \in 1 .. Gap |-> CHOOSE q \in Spinning : reg[q] = Wrap(a + i)]
<1>1. Gap \in Nat
  BY Sizes, Bounds DEF Gap
<1>2. \A i \in 1 .. Gap : f[i] \in Spinning /\ reg[f[i]] = Wrap(a + i)
  BY DEF SemInv, TicketsSpun
<1>3. ASSUME NEW i \in 1 .. Gap, NEW j \in 1 .. Gap, f[i] = f[j] PROVE i = j
  <2>1. Wrap(a + i) = Wrap(a + j)
    BY <1>2, <1>3
  <2>2. QED
    BY <2>1, Bounds, Sizes DEF Gap, Wrap, SemInv, SemTypeOK
<1>4. f \in Injection(1 .. Gap, Spinning)
  <2>1. f \in [1 .. Gap -> Spinning]
    BY <1>2
  <2>2. IsInjective(f)
    BY <1>3 DEF IsInjective
  <2>3. QED
    BY <2>1, <2>2 DEF Injection
<1>5. IsFiniteSet(Spinning)
  BY Counted DEF Spinning
<1>6. Cardinality(1 .. Gap) <= Cardinality(Spinning)
  BY <1>4, <1>5, FS_Injection
<1>7. Cardinality(1 .. Gap) = Gap
  BY <1>1, FS_Interval
<1>8. QED
  BY <1>6, <1>7

\* Never more than V + 1 threads hold.
LEMMA HoldersFit == ASSUME SemInv PROVE Cardinality(Holding) <= V + 1
<1>1. /\ IsFiniteSet(Spinning) /\ IsFiniteSet(Holding)
      /\ Cardinality(Spinning) \in Nat /\ Cardinality(Holding) \in Nat
  BY Counted DEF Spinning, Holding
<1>2. Spinning \cap Holding = {}
  BY DEF Spinning, Holding
<1>3. N = Cardinality(Spinning) + Cardinality(Holding)
  BY <1>1, <1>2, FS_Union, FS_EmptySet DEF N, Out
<1>4. CASE Gap >= 1
  BY <1>1, <1>3, <1>4, SpinnersFillGap, Bounds DEF Gap
<1>5. CASE ~ Gap >= 1
  BY <1>1, <1>3, <1>5, Bounds DEF Gap
<1>6. QED
  BY <1>4, <1>5

\* semaphore(V) never lets more than V + 1 threads in, however long it runs
\* and however the counters wrap: one more than its constructor is asked for.
THEOREM CapacityHolds == SemSpec => [](Cardinality(Holding) <= V + 1)
<1>1. SemInv => Cardinality(Holding) <= V + 1
  BY HoldersFit
<1>2. QED
  BY <1>1, SemInvariance, PTL

\* Who spins on a ticket not later than a reached one is admitted too.
LEMMA Passed ==
  ASSUME SemInv, NEW k \in 0 .. W - 1, Ahead(a, k) <= MaxLag,
         NEW p \in Spinning, Reached(k, reg[p])
  PROVE  Reached(a, reg[p])
<1>1. reg[p] \in 0 .. W - 1 /\ a \in 0 .. W - 1
  BY DEF SemInv, SemTypeOK, Spinning
<1>2. Ahead(k, reg[p]) <= Wnd
  BY <1>1, ReachedIsNear
<1>3. CASE Ahead(a, reg[p]) <= MaxLag
  <2>1. Ahead(a, reg[p]) <= Wnd
    BY <1>1, <1>3, Bounds, Sizes DEF Ahead, Wrap
  <2>2. QED
    BY <1>1, <2>1, ReachedIsNear
<1>4. CASE Ahead(reg[p], a) \in 1 .. Gap
  \* The ticket is ahead of a_, which the other is not: too far for the window.
  <2>1. FALSE
    BY <1>1, <1>2, <1>4, Bounds, Sizes DEF Gap, Ahead, Wrap
  <2>2. QED
    BY <2>1
<1>5. QED
  BY <1>3, <1>4 DEF SemInv, SpinnersNear

NoBargingStep ==
  \A q \in Threads :
    (pc[q] # "held" /\ pc'[q] = "held") =>
      \A p \in Spinning : Reached(reg'[q], reg[p]) => Reached(a, reg[p])

LEMMA StepInOrder == ASSUME SemInv, [SemNext]_semVars PROVE NoBargingStep
<1> SUFFICES ASSUME NEW q \in Threads, pc[q] # "held", pc'[q] = "held",
                    NEW p \in Spinning, Reached(reg'[q], reg[p])
             PROVE  Reached(a, reg[p])
  BY DEF NoBargingStep
<1>1. ASSUME NEW x \in Threads,
             \/ DrawTicket(x) \/ TryLoadA(x) \/ TryLoadT(x) \/ TryRefused(x)
             \/ TryCasLost(x) \/ Increment(x)
      PROVE  FALSE
  BY <1>1 DEF DrawTicket, TryLoadA, TryLoadT, TryRefused, TryCasLost, Increment, Goto,
     SemInv, SemTypeOK
<1>2. PICK x \in Threads : Admit(x) \/ TryCas(x)
  BY <1>1 DEF SemNext, TryStep, semVars
<1>3. x = q /\ reg' = reg /\ reg[q] \in 0 .. W - 1
  BY <1>2 DEF Admit, TryCas, Goto, SemInv, SemTypeOK
<1>4. Ahead(a, reg[q]) <= MaxLag
  <2>1. CASE Admit(q)
    <3>1. q \in Spinning /\ Ahead(a, reg[q]) <= Wnd
      BY <1>3, <2>1, ReachedIsNear DEF Admit, Goto, Spinning, SemInv, SemTypeOK
    <3>2. CASE Ahead(reg[q], a) \in 1 .. Gap
      BY <1>3, <3>1, <3>2, Bounds, Sizes DEF Gap, Ahead, Wrap, SemInv, SemTypeOK
    <3>3. QED
      BY <3>1, <3>2 DEF SemInv, SpinnersNear
  <2>2. CASE TryCas(q)
    BY <2>2 DEF TryCas, Goto, SemInv, TriesNear
  <2>3. QED
    BY <1>2, <1>3, <2>1, <2>2
<1>5. QED
  BY <1>3, <1>4, Passed

\* Tickets are first come, first served: nobody returns with a unit past a
\* thread whose earlier ticket is not reached, whether by decrement() or by
\* try_decrement().
THEOREM InOrder == SemSpec => NoBarging
<1>1. SemInv /\ [SemNext]_semVars =>
        [\A q \in Threads :
           (pc[q] # "held" /\ pc'[q] = "held") =>
             \A p \in Spinning : Reached(reg'[q], reg[p]) => Reached(a, reg[p])]_semVars
  BY StepInOrder DEF NoBargingStep
<1>2. QED
  BY <1>1, SemInvariance, PTL DEF SemSpec, NoBarging
-----------------------------------------------------------------------------
LEMMA HoldersFitNext == SemInv' => (Cardinality(Holding) <= V + 1)'
<1>1. SemInv => Cardinality(Holding) <= V + 1
  BY HoldersFit
<1>2. QED
  BY <1>1, PTL

\* A thread that gets a unit found room for it.
LEMMA FoundRoom ==
  ASSUME SemInv', NEW p \in Threads, p \notin Holding, Holding' = Holding \cup {p}
  PROVE  Cardinality(Holding) < V + 1
<1>1. Cardinality(Holding') <= V + 1
  BY HoldersFitNext
<1>2. Cardinality(Holding) \in Nat /\ IsFiniteSet(Holding)
  BY Counted DEF Holding
<1>3. Cardinality(Holding') = Cardinality(Holding) + 1
  BY <1>2, FS_AddElement
<1>4. QED
  BY <1>1, <1>2, <1>3, Bounds

\* Every step of the semaphore is a step of CountingSemaphore, or none.
LEMMA StepRefines ==
  ASSUME SemInv, SemInv', [SemNext]_semVars
  PROVE  [Counting!Next]_<<Spinning, Holding>>
<1> USE DEF SemInv
<1>1. CASE UNCHANGED semVars
  BY <1>1 DEF semVars, Spinning, Holding
<1>2. ASSUME NEW p \in Threads, DrawTicket(p) PROVE Counting!Wait(p)
  <2>1. pc[p] = "idle" /\ pc' = [pc EXCEPT ![p] = "spin"] /\ "spin" # "held"
    BY <1>2 DEF DrawTicket, Goto
  <2>2. p \notin Spinning /\ p \notin Holding
    BY <2>1 DEF Spinning, Holding
  <2>3. Spinning' = Spinning \cup {p} /\ Holding' = Holding \ {p}
    BY <2>1, Moved
  <2>4. QED
    BY <2>2, <2>3 DEF Counting!Wait
<1>3. ASSUME NEW p \in Threads, Admit(p) PROVE Counting!Grant(p)
  <2>1. pc[p] = "spin" /\ pc' = [pc EXCEPT ![p] = "held"] /\ "held" # "spin"
    BY <1>3 DEF Admit, Goto
  <2>2. p \in Spinning /\ p \notin Holding
    BY <2>1 DEF Spinning, Holding
  <2>3. Spinning' = Spinning \ {p} /\ Holding' = Holding \cup {p}
    BY <2>1, Moved
  <2>4. Cardinality(Holding) < V + 1
    BY <2>2, <2>3, FoundRoom
  <2>5. QED
    BY <2>2, <2>3, <2>4 DEF Counting!Grant, Counting!Room, Cardinality,
       Counting!Cardinality
<1>4. ASSUME NEW p \in Threads, TryCas(p) PROVE Counting!GrantNow(p)
  <2>1. pc[p] = "try_cas" /\ pc' = [pc EXCEPT ![p] = "held"] /\ "held" # "spin"
    BY <1>4 DEF TryCas, Goto
  <2>2. p \notin Spinning /\ p \notin Holding
    BY <2>1 DEF Spinning, Holding
  <2>3. Spinning' = Spinning \ {p} /\ Holding' = Holding \cup {p}
    BY <2>1, Moved
  <2>4. Cardinality(Holding) < V + 1
    BY <2>2, <2>3, FoundRoom
  <2>5. QED
    BY <2>2, <2>3, <2>4 DEF Counting!GrantNow, Counting!Room, Cardinality,
       Counting!Cardinality
<1>5. ASSUME NEW p \in Threads,
             TryLoadA(p) \/ TryLoadT(p) \/ TryRefused(p) \/ TryCasLost(p)
      PROVE  Spinning' = Spinning /\ Holding' = Holding
  <2>1. PICK to \in {"idle", "try_t", "try_cas"} :
          pc[p] \in {"idle", "try_t", "try_cas"} /\ pc' = [pc EXCEPT ![p] = to]
    BY <1>5 DEF TryLoadA, TryLoadT, TryRefused, TryCasLost, Goto
  <2>2. Spinning' = Spinning \ {p} /\ Holding' = Holding \ {p}
    BY <2>1, Moved
  <2>3. QED
    BY <2>1, <2>2 DEF Spinning, Holding
<1>6. ASSUME NEW p \in Threads, Increment(p) PROVE Counting!Release(p)
  <2>1. pc[p] = "held" /\ pc' = [pc EXCEPT ![p] = "idle"] /\ "idle" \notin {"spin", "held"}
    BY <1>6 DEF Increment, Goto
  <2>2. p \in Holding /\ p \notin Spinning
    BY <2>1 DEF Spinning, Holding
  <2>3. Spinning' = Spinning \ {p} /\ Holding' = Holding \ {p}
    BY <2>1, Moved
  <2>4. QED
    BY <2>2, <2>3 DEF Counting!Release
<1>7. QED
  BY <1>1, <1>2, <1>3, <1>4, <1>5, <1>6 DEF SemNext, TryStep, Counting!Next

\* The ticket semaphore implements a counting semaphore of capacity V + 1:
\* the safety part of ImplementsCounting.
THEOREM RefinesCounting ==
  SemSpec => Counting!Init /\ [][Counting!Next]_<<Spinning, Holding>>
<1>1. SemInit => Counting!Init
  BY DEF SemInit, Counting!Init, Spinning, Holding
<1>2. SemInv /\ SemInv' /\ [SemNext]_semVars => [Counting!Next]_<<Spinning, Holding>>
  BY StepRefines
<1>3. QED
  BY <1>1, <1>2, SemInvariance, PTL DEF SemSpec

-----------------------------------------------------------------------------
(* std::mutex                                                              *)

LEMMA SemInitType == SemInit => SemTypeOK
  BY SemInitHolds DEF SemInv

\* A step of the mutex keeps every type.
LEMMA MutexStepType == TypeOK /\ [Next]_mutexVars => TypeOK'
<1> SUFFICES ASSUME TypeOK, [Next]_mutexVars PROVE TypeOK'
  OBVIOUS
<1>1. SemTypeOK /\ owner \in Threads \cup {NoOwner} /\ st \in [Threads -> States]
  BY DEF TypeOK
<1>2. ASSUME NEW p \in Threads, NEW from, NEW to \in States, Move(p, from, to)
      PROVE  st' \in [Threads -> States]
  BY <1>1, <1>2 DEF Move
<1>3. {"out", "locking", "tagging", "locked", "posting", "halted"} \subseteq States
  BY DEF States
<1>4. CASE UNCHANGED mutexVars
  BY <1>1, <1>4, SemStutterType DEF mutexVars, TypeOK
<1>5. ASSUME NEW p \in Threads, LockEnter(p) PROVE TypeOK'
  BY <1>1, <1>2, <1>3, <1>5, SemStepType DEF SemStep, LockEnter, TypeOK
<1>6. ASSUME NEW p \in Threads, LockAdmitted(p) PROVE TypeOK'
  BY <1>1, <1>2, <1>3, <1>6, SemStepType DEF SemStep, LockAdmitted, TypeOK
<1>7. ASSUME NEW p \in Threads, TryLockEnter(p) PROVE TypeOK'
  BY <1>1, <1>2, <1>3, <1>7, SemStepType DEF SemStep, TryLockEnter, TypeOK
<1>8. ASSUME NEW p \in Threads, TryLockLoad(p) PROVE TypeOK'
  BY <1>1, <1>8, SemStepType DEF SemStep, TryLockLoad, TypeOK
<1>9. ASSUME NEW p \in Threads, TryLockAdmitted(p) PROVE TypeOK'
  BY <1>1, <1>2, <1>3, <1>9, SemStepType DEF SemStep, TryLockAdmitted, TypeOK
<1>10. ASSUME NEW p \in Threads, TryLockFails(p) PROVE TypeOK'
  BY <1>1, <1>2, <1>3, <1>10, SemStepType DEF SemStep, TryLockFails, TypeOK
<1>11. ASSUME NEW p \in Threads, SwapTag(p) PROVE TypeOK'
  BY <1>1, <1>2, <1>3, <1>11, SemStutterType DEF SwapTag, TypeOK
<1>12. ASSUME NEW p \in Threads, ClearTag(p) PROVE TypeOK'
  BY <1>1, <1>2, <1>3, <1>12, SemStutterType DEF ClearTag, TypeOK
<1>13. ASSUME NEW p \in Threads, Post(p) PROVE TypeOK'
  BY <1>1, <1>2, <1>3, <1>13, SemStepType DEF SemStep, Post, TypeOK
<1>14. QED
  BY <1>4, <1>5, <1>6, <1>7, <1>8, <1>9, <1>10, <1>11, <1>12, <1>13 DEF Next

\* Type correctness of the mutex: its tag, its threads and the semaphore in it.
THEOREM TypeCorrect == Spec => []TypeOK
<1>1. Init => TypeOK
  BY SemInitType DEF Init, TypeOK, States
<1>2. QED
  BY <1>1, MutexStepType, PTL DEF Spec

\* Why the tag protects: while a thread owns the mutex the tag is set, by
\* that thread or by one that stopped right after, and nobody gets past a
\* set tag.
TagGuards == Locked # {} => owner # NoOwner

\* A step keeps mutual exclusion: the swap of the owner tag decides.
LEMMA MutexStepExclusive ==
  TypeOK /\ MutualExclusion /\ TagGuards /\ [Next]_mutexVars
    => (MutualExclusion /\ TagGuards)'
<1> SUFFICES ASSUME TypeOK, MutualExclusion, TagGuards, [Next]_mutexVars
             PROVE  (MutualExclusion /\ TagGuards)'
  OBVIOUS
<1> USE DEF TypeOK, MutualExclusion, TagGuards, Locked
<1>1. ASSUME UNCHANGED owner, \A p \in Threads : st'[p] = "locked" => st[p] = "locked"
      PROVE  (MutualExclusion /\ TagGuards)'
  BY <1>1
<1>2. CASE UNCHANGED mutexVars
  BY <1>1, <1>2 DEF mutexVars
<1>3. ASSUME NEW p \in Threads, LockEnter(p) PROVE (MutualExclusion /\ TagGuards)'
  BY <1>1, <1>3 DEF LockEnter, Move
<1>4. ASSUME NEW p \in Threads, LockAdmitted(p) PROVE (MutualExclusion /\ TagGuards)'
  BY <1>1, <1>4 DEF LockAdmitted, Move
<1>5. ASSUME NEW p \in Threads, TryLockEnter(p) PROVE (MutualExclusion /\ TagGuards)'
  BY <1>1, <1>5 DEF TryLockEnter, Move
<1>6. ASSUME NEW p \in Threads, TryLockLoad(p) PROVE (MutualExclusion /\ TagGuards)'
  BY <1>1, <1>6 DEF TryLockLoad
<1>7. ASSUME NEW p \in Threads, TryLockAdmitted(p) PROVE (MutualExclusion /\ TagGuards)'
  BY <1>1, <1>7 DEF TryLockAdmitted, Move
<1>8. ASSUME NEW p \in Threads, TryLockFails(p) PROVE (MutualExclusion /\ TagGuards)'
  BY <1>1, <1>8 DEF TryLockFails, Move
<1>9. ASSUME NEW p \in Threads, SwapTag(p) PROVE (MutualExclusion /\ TagGuards)'
  <2>1. owner' = p /\ p # NoOwner
    BY <1>9, NoOwnerAssumption DEF SwapTag
  <2>2. CASE owner = NoOwner
    BY <1>9, <2>1, <2>2 DEF SwapTag, Move
  <2>3. CASE owner # NoOwner
    BY <1>9, <2>1, <2>3 DEF SwapTag, Move
  <2>4. QED
    BY <2>2, <2>3
<1>10. ASSUME NEW p \in Threads, ClearTag(p) PROVE (MutualExclusion /\ TagGuards)'
  BY <1>10 DEF ClearTag, Move
<1>11. ASSUME NEW p \in Threads, Post(p) PROVE (MutualExclusion /\ TagGuards)'
  BY <1>1, <1>11 DEF Post, Move
<1>12. QED
  BY <1>2, <1>3, <1>4, <1>5, <1>6, <1>7, <1>8, <1>9, <1>10, <1>11 DEF Next

\* Mutual exclusion holds for any number of threads, although the semaphore
\* underneath admits two at once.
THEOREM Exclusion == Spec => []MutualExclusion
<1>1. Init => MutualExclusion /\ TagGuards
  BY DEF Init, MutualExclusion, TagGuards, Locked
<1>2. QED
  BY <1>1, MutexStepExclusive, TypeCorrect, PTL DEF Spec

\* Nobody who has stopped goes on, and until somebody stops a step keeps the
\* tag exact.
LEMMA MutexStepTag ==
  TypeOK /\ MutualExclusion /\ TagIsExact /\ [Next]_mutexVars => TagIsExact'
<1> SUFFICES ASSUME TypeOK, MutualExclusion, TagIsExact, [Next]_mutexVars,
                    \A p \in Threads : st'[p] # "halted"
             PROVE  /\ \A p \in Locked' : owner' = p
                    /\ Locked' = {} => owner' = NoOwner
  BY DEF TagIsExact
<1> USE DEF TypeOK, Locked
<1>1. CASE /\ UNCHANGED owner
           /\ \A p \in Threads : /\ st'[p] = "locked" <=> st[p] = "locked"
                                 /\ st[p] = "halted" => st'[p] = "halted"
  BY <1>1 DEF TagIsExact
<1>2. ASSUME NEW p \in Threads, SwapTag(p)
      PROVE  (\A q \in Locked' : owner' = q) /\ (Locked' = {} => owner' = NoOwner)
  <2>1. owner = NoOwner /\ owner' = p /\ st' = [st EXCEPT ![p] = "locked"]
    BY <1>2 DEF SwapTag, Move
  <2>2. \A q \in Threads : st[q] # "halted"
    BY <1>2, <2>1 DEF SwapTag, Move
  <2>3. Locked = {}
    BY <2>1, <2>2, NoOwnerAssumption DEF TagIsExact
  <2>4. QED
    BY <2>1, <2>3
<1>3. ASSUME NEW p \in Threads, ClearTag(p)
      PROVE  (\A q \in Locked' : owner' = q) /\ (Locked' = {} => owner' = NoOwner)
  <2>1. st[p] = "locked" /\ st' = [st EXCEPT ![p] = "posting"] /\ owner' = NoOwner
    BY <1>3 DEF ClearTag, Move
  <2>2. Locked' = {}
    BY <2>1 DEF MutualExclusion
  <2>3. QED
    BY <2>1, <2>2
<1>4. ASSUME NEW p \in Threads,
             \/ LockEnter(p) \/ LockAdmitted(p) \/ TryLockEnter(p) \/ TryLockLoad(p)
             \/ TryLockAdmitted(p) \/ TryLockFails(p) \/ Post(p)
      PROVE  /\ UNCHANGED owner
             /\ \A q \in Threads : /\ st'[q] = "locked" <=> st[q] = "locked"
                                   /\ st[q] = "halted" => st'[q] = "halted"
  BY <1>4 DEF LockEnter, LockAdmitted, TryLockEnter, TryLockLoad, TryLockAdmitted,
     TryLockFails, Post, Move
<1>5. QED
  BY <1>1, <1>2, <1>3, <1>4 DEF Next, mutexVars

\* Until the first thread stops in an assertion the tag names the thread that
\* has the mutex, and is clear when no thread has it.
THEOREM TagCorrect == Spec => []TagIsExact
<1>1. Init => TagIsExact
  BY DEF Init, TagIsExact, Locked
<1>2. QED
  BY <1>1, MutexStepTag, TypeCorrect, Exclusion, PTL DEF Spec

-----------------------------------------------------------------------------
(* std::recursive_mutex: its steps are those of std::mutex, whose lemmas   *)
(* are cited here, and steps on the counters.                              *)

\* A mutex that is free has no count left over for its next owner.
FreeIsZero == owner = NoOwner => recurs = 0

\* A thread that does not have the mutex has given back every lock, and one
\* on its way out of unlock() still has the mutex but no lock.
DepthsEnd ==
  /\ \A p \in Threads : st[p] \notin {"locked", "halted"} => depth[p] = 0
  /\ \A p \in leaving : st[p] = "locked" /\ depth[p] = 0

IInv ==
  /\ RecTypeOK
  /\ MutualExclusion
  /\ TagGuards
  /\ CountIsDepth
  /\ FreeIsZero
  /\ DepthsEnd

\* recurs_ does not wrap on a value within its range.
LEMMA ModSmall == ASSUME NEW x \in 0 .. R - 1 PROVE x % R = x
  BY RAssumption, SMTT(30)

LEMMA InitHolds == RecInit => IInv
<1> SUFFICES ASSUME RecInit PROVE IInv
  OBVIOUS
<1>1. Init /\ recurs = 0 /\ depth = [p \in Threads |-> 0] /\ leaving = {}
  BY DEF RecInit
<1>2. Locked = {} /\ owner = NoOwner
  BY <1>1 DEF Init, Locked
<1>3. TypeOK
  BY <1>1, SemInitType DEF Init, TypeOK, States
<1>4. RecTypeOK
  BY <1>1, <1>3, RAssumption DEF RecTypeOK
<1>5. QED
  BY <1>1, <1>2, <1>4 DEF IInv, MutualExclusion, TagGuards, CountIsDepth,
     FreeIsZero, DepthsEnd

\* What std::mutex does below the counters keeps what it guarantees.
LEMMA MutexKeeps ==
  ASSUME IInv, [Next]_mutexVars PROVE (TypeOK /\ MutualExclusion /\ TagGuards)'
<1>1. TypeOK /\ MutualExclusion /\ TagGuards
  BY DEF IInv, RecTypeOK
<1>2. QED
  BY <1>1, MutexStepType, MutexStepExclusive

\* A thread that gets the mutex finds the count at zero, and has none itself.
LEMMA ContendKeeps == ASSUME IInv, NEW p \in Threads, Contend(p) PROVE IInv'
<1>1. (TypeOK /\ MutualExclusion /\ TagGuards)'
  BY MutexKeeps DEF Contend, Next
<1>2. UNCHANGED <<recurs, depth, leaving>>
  BY DEF Contend, counters
<1>3. RecTypeOK'
  BY <1>1, <1>2 DEF IInv, RecTypeOK
<1>4. CASE SwapTag(p)
  <2>1. /\ st[p] = "tagging"
        /\ st' = [st EXCEPT ![p] = IF owner = NoOwner THEN "locked" ELSE "halted"]
        /\ owner' = p
    BY <1>4 DEF SwapTag, Move
  <2>2. owner' # NoOwner
    BY <2>1, NoOwnerAssumption
  <2>3. depth[p] = 0
    BY <2>1 DEF IInv, DepthsEnd
  <2>4. CountIsDepth'
    <3> SUFFICES ASSUME NEW q \in Threads, st'[q] = "locked"
                 PROVE  recurs = depth[q]
      BY <1>2 DEF CountIsDepth, Locked
    <3>1. CASE q = p
      <4>1. owner = NoOwner
        BY <2>1, <3>1 DEF IInv, RecTypeOK, TypeOK
      <4>2. QED
        BY <2>3, <3>1, <4>1 DEF IInv, FreeIsZero
    <3>2. CASE q # p
      BY <2>1, <3>2 DEF IInv, RecTypeOK, TypeOK, CountIsDepth, Locked
    <3>3. QED
      BY <3>1, <3>2
  <2>5. DepthsEnd'
    BY <1>2, <2>1, <2>3 DEF IInv, RecTypeOK, TypeOK, DepthsEnd
  <2>6. QED
    BY <1>1, <1>3, <2>2, <2>4, <2>5 DEF IInv, FreeIsZero
<1>5. CASE ~SwapTag(p)
  <2>1. /\ UNCHANGED owner
        /\ \/ \E to \in {"locking", "tagging", "out"} :
                 /\ st[p] \in {"out", "locking"}
                 /\ st' = [st EXCEPT ![p] = to]
           \/ UNCHANGED st
    BY <1>5 DEF Contend, LockEnter, LockAdmitted, TryLockEnter, TryLockLoad,
       TryLockAdmitted, TryLockFails, Move
  <2>2. \A q \in Threads : /\ st'[q] = "locked" <=> st[q] = "locked"
                           /\ st'[q] = "halted" <=> st[q] = "halted"
    BY <2>1 DEF IInv, RecTypeOK, TypeOK
  <2>3. CountIsDepth' /\ FreeIsZero'
    BY <1>2, <2>1, <2>2 DEF IInv, CountIsDepth, FreeIsZero, Locked
  <2>4. DepthsEnd'
    BY <1>2, <2>2 DEF IInv, DepthsEnd, RecTypeOK
  <2>5. QED
    BY <1>1, <1>3, <2>3, <2>4 DEF IInv
<1>6. QED
  BY <1>4, <1>5

\* Steps of the thread that has the mutex, which leave the semaphore's types
\* and the tag alone: it goes on, or it stops.
LEMMA OwnerKeeps ==
  ASSUME IInv, NEW p \in Threads, st[p] = "locked", SemTypeOK', owner' = owner,
         \/ UNCHANGED st
         \/ st' = [st EXCEPT ![p] = "halted"],
         recurs' \in 0 .. R - 1,
         \/ UNCHANGED <<depth, leaving>> /\ (UNCHANGED recurs \/ st'[p] = "halted")
         \/ /\ UNCHANGED st
            /\ depth' = [depth EXCEPT ![p] = recurs']
            /\ leaving' = leaving \/ (leaving' = leaving \cup {p} /\ recurs' = 0)
            /\ p \in leaving => recurs' = 0,
         p \in leaving => UNCHANGED st
  PROVE  IInv'
<1> USE DEF IInv, RecTypeOK, TypeOK
<1>1. st' \in [Threads -> States]
  BY DEF States
<1>2. depth' \in [Threads -> 0 .. R - 1] /\ leaving' \subseteq Threads
  OBVIOUS
<1>3. RecTypeOK'
  BY <1>1, <1>2
<1>4. \A q \in Threads : q # p => st'[q] # "locked"
  BY DEF MutualExclusion, Locked
<1>5. owner # NoOwner
  BY DEF TagGuards, Locked
<1>6. MutualExclusion' /\ TagGuards' /\ FreeIsZero'
  BY <1>4, <1>5 DEF MutualExclusion, TagGuards, FreeIsZero, Locked
<1>7. CountIsDepth'
  <2> SUFFICES ASSUME st'[p] = "locked" PROVE recurs' = depth'[p]
    BY <1>4 DEF CountIsDepth, Locked
  <2>1. recurs = depth[p]
    BY DEF CountIsDepth, Locked
  <2>2. QED
    BY <2>1
<1>8. DepthsEnd'
  <2>1. \A q \in Threads : st'[q] \notin {"locked", "halted"} => depth'[q] = 0
    BY DEF DepthsEnd
  <2>2. ASSUME NEW q \in leaving' PROVE st'[q] = "locked" /\ depth'[q] = 0
    <3>1. CASE q # p
      <4>1. q \in leaving
        BY <2>2, <3>1
      <4>2. st[q] = "locked"
        BY <4>1 DEF DepthsEnd
      <4>3. QED
        BY <3>1, <4>2 DEF MutualExclusion, Locked
    <3>2. CASE q = p
      <4>1. CASE p \in leaving
        BY <3>2, <4>1 DEF DepthsEnd
      <4>2. CASE p \notin leaving
        <5>1. depth'[p] = 0
          BY <2>2, <3>2, <4>2
        <5>2. QED
          BY <2>2, <3>2, <4>2, <5>1
      <4>3. QED
        BY <4>1, <4>2
    <3>3. QED
      BY <3>1, <3>2
  <2>3. QED
    BY <2>1, <2>2 DEF DepthsEnd
<1>9. QED
  BY <1>3, <1>6, <1>7, <1>8

LEMMA FirstCountKeeps == ASSUME IInv, NEW p \in Threads, FirstCount(p) PROVE IInv'
<1>1. st[p] = "locked" /\ depth[p] = 0 /\ p \notin leaving
  BY DEF FirstCount
<1>2. recurs = 0
  BY <1>1 DEF IInv, CountIsDepth, Locked
<1>3. 1 \in 0 .. R - 1 /\ 1 % R = 1
  BY RAssumption, ModSmall
<1>4. recurs' = 1 /\ depth' = [depth EXCEPT ![p] = 1] /\ UNCHANGED <<st, leaving>>
  BY <1>2, <1>3 DEF FirstCount
<1>5. SemTypeOK' /\ owner' = owner
  BY SemStutterType DEF FirstCount, IInv, RecTypeOK, TypeOK
<1>6. QED
  BY <1>1, <1>3, <1>4, <1>5, OwnerKeeps

LEMMA CountAgainKeeps == ASSUME IInv, NEW p \in Threads, CountAgain(p) PROVE IInv'
<1>1. st[p] = "locked" /\ depth[p] > 0 /\ recurs = depth[p]
  BY DEF CountAgain, IInv, CountIsDepth, Locked
<1>2. /\ recurs' = recurs + 1 /\ recurs' \in 0 .. R - 1
      /\ depth' = [depth EXCEPT ![p] = recurs']
      /\ UNCHANGED <<st, owner, leaving>>
  BY <1>1, RAssumption DEF CountAgain, mutexVars, IInv, RecTypeOK
<1>3. SemTypeOK'
  BY SemStutterType DEF CountAgain, mutexVars, IInv, RecTypeOK, TypeOK
<1>4. p \notin leaving
  BY <1>1, RAssumption DEF IInv, DepthsEnd
<1>5. QED
  BY <1>1, <1>2, <1>3, <1>4, OwnerKeeps

\* The thread stops in the assertion, the exception or the endless wait.
LEMMA StopKeeps ==
  ASSUME IInv, NEW p \in Threads, RelockStuck(p) \/ TryLockOverflow(p) PROVE IInv'
<1>1. /\ st[p] = "locked" /\ depth[p] > 0
      /\ st' = [st EXCEPT ![p] = "halted"]
      /\ UNCHANGED <<owner, recurs, depth, leaving>>
  BY DEF RelockStuck, TryLockOverflow, counters
<1>2. SemTypeOK'
  BY BumpType, SemStutterType
     DEF RelockStuck, TryLockOverflow, IInv, RecTypeOK, TypeOK, SemTypeOK
<1>3. recurs' \in 0 .. R - 1 /\ p \notin leaving
  BY <1>1, RAssumption DEF IInv, RecTypeOK, DepthsEnd
<1>4. QED
  BY <1>1, <1>2, <1>3, OwnerKeeps

LEMMA UncountKeeps == ASSUME IInv, NEW p \in Threads, Uncount(p) PROVE IInv'
<1>1. st[p] = "locked" /\ depth[p] > 0 /\ recurs = depth[p] /\ recurs \in 0 .. R - 1
  BY DEF Uncount, IInv, RecTypeOK, CountIsDepth, Locked
<1>2. p \notin leaving
  BY <1>1, RAssumption DEF IInv, DepthsEnd
<1>3. SemTypeOK' /\ owner' = owner
  BY SemStutterType DEF Uncount, IInv, RecTypeOK, TypeOK
<1>4. CASE owner = p
  <2>1. recurs - 1 \in 0 .. R - 1 /\ (recurs - 1) % R = recurs - 1
    BY <1>1, RAssumption, ModSmall
  <2>2. /\ recurs' = recurs - 1
        /\ depth' = [depth EXCEPT ![p] = recurs']
        /\ leaving' = leaving \/ (leaving' = leaving \cup {p} /\ recurs' = 0)
        /\ UNCHANGED st
    BY <1>1, <1>4, <2>1 DEF Uncount
  <2>3. QED
    BY <1>1, <1>2, <1>3, <2>1, <2>2, OwnerKeeps
<1>5. CASE owner # p
  BY <1>1, <1>2, <1>3, <1>5, OwnerKeeps DEF Uncount, counters
<1>6. QED
  BY <1>4, <1>5

LEMMA LeaveKeeps == ASSUME IInv, NEW p \in Threads, Leave(p) PROVE IInv'
<1>1. (TypeOK /\ MutualExclusion /\ TagGuards)'
  BY MutexKeeps DEF Leave, Next
<1>2. /\ p \in leaving /\ leaving' = leaving \ {p}
      /\ UNCHANGED <<recurs, depth>>
      /\ st[p] = "locked" /\ depth[p] = 0
      /\ \E to \in {"posting", "halted"} : st' = [st EXCEPT ![p] = to]
  BY DEF Leave, ClearTag, Move, IInv, DepthsEnd
<1>3. recurs = 0
  BY <1>2 DEF IInv, RecTypeOK, CountIsDepth, Locked
<1>4. RecTypeOK'
  BY <1>1, <1>2 DEF IInv, RecTypeOK
<1>5. \A q \in Threads : q # p => st'[q] = st[q] /\ st[q] # "locked"
  BY <1>2 DEF IInv, RecTypeOK, TypeOK, MutualExclusion, Locked
<1>6. st'[p] # "locked"
  BY <1>2 DEF IInv, RecTypeOK, TypeOK
<1>7. CountIsDepth' /\ FreeIsZero'
  BY <1>2, <1>3, <1>5, <1>6 DEF CountIsDepth, FreeIsZero, Locked
<1>8. DepthsEnd'
  BY <1>2, <1>5 DEF IInv, RecTypeOK, DepthsEnd
<1>9. QED
  BY <1>1, <1>4, <1>7, <1>8 DEF IInv

LEMMA RecPostKeeps == ASSUME IInv, NEW p \in Threads, RecPost(p) PROVE IInv'
<1>1. (TypeOK /\ MutualExclusion /\ TagGuards)'
  BY MutexKeeps DEF RecPost, Next
<1>2. /\ UNCHANGED <<owner, recurs, depth, leaving>>
      /\ st[p] = "posting" /\ st' = [st EXCEPT ![p] = "out"]
  BY DEF RecPost, Post, Move, counters
<1>3. \A q \in Threads : /\ st'[q] = "locked" <=> st[q] = "locked"
                         /\ st'[q] = "halted" <=> st[q] = "halted"
  BY <1>2 DEF IInv, RecTypeOK, TypeOK
<1>4. RecTypeOK'
  BY <1>1, <1>2 DEF IInv, RecTypeOK
<1>5. CountIsDepth' /\ FreeIsZero'
  BY <1>2, <1>3 DEF IInv, CountIsDepth, FreeIsZero, Locked
<1>6. DepthsEnd'
  <2>1. \A q \in Threads : st'[q] \notin {"locked", "halted"} => depth'[q] = 0
    BY <1>2, <1>3 DEF IInv, DepthsEnd
  <2>2. \A q \in leaving' : st'[q] = "locked" /\ depth'[q] = 0
    BY <1>2, <1>3 DEF IInv, RecTypeOK, DepthsEnd
  <2>3. QED
    BY <2>1, <2>2 DEF DepthsEnd
<1>7. QED
  BY <1>1, <1>4, <1>5, <1>6 DEF IInv

LEMMA StutterKeeps == ASSUME IInv, UNCHANGED recVars PROVE IInv'
<1>1. (TypeOK /\ MutualExclusion /\ TagGuards)'
  BY MutexKeeps DEF recVars
<1>2. UNCHANGED <<st, owner, recurs, depth, leaving>>
  BY DEF recVars, mutexVars
<1>3. QED
  BY <1>1, <1>2 DEF IInv, RecTypeOK, CountIsDepth, FreeIsZero, DepthsEnd, Locked

LEMMA Invariance == RecSpec => []IInv
<1>1. IInv /\ [RecNext]_recVars => IInv'
  BY ContendKeeps, FirstCountKeeps, CountAgainKeeps, StopKeeps, UncountKeeps,
     LeaveKeeps, RecPostKeeps, StutterKeeps DEF RecNext
<1>2. QED
  BY <1>1, InitHolds, PTL DEF RecSpec

\* Type correctness; in particular recurs_ and every thread's nesting stay
\* within the counter's range.
THEOREM RecTypeCorrect == RecSpec => []RecTypeOK
<1>1. IInv => RecTypeOK
  BY DEF IInv
<1>2. QED
  BY <1>1, Invariance, PTL

\* The recursive mutex excludes, with its counter on top of the tag.
THEOREM RecExclusion == RecSpec => []MutualExclusion
<1>1. IInv => MutualExclusion
  BY DEF IInv
<1>2. QED
  BY <1>1, Invariance, PTL

\* recurs_ is the owner's nesting: lock() and unlock() of a recursive mutex
\* take and give it up at the outermost pair and nowhere else.
THEOREM CountCorrect == RecSpec => []CountIsDepth
<1>1. IInv => CountIsDepth
  BY DEF IInv
<1>2. QED
  BY <1>1, Invariance, PTL

\* mutex.cc's assertion that the first lock() finds recurs_ at zero: FirstCount
\* never takes its failing branch.
THEOREM FirstCountSucceeds ==
  RecSpec => [](\A p \in Threads : st[p] = "locked" /\ depth[p] = 0 => recurs = 0)
<1>1. IInv => \A p \in Threads : st[p] = "locked" /\ depth[p] = 0 => recurs = 0
  BY DEF IInv, CountIsDepth, Locked
<1>2. QED
  BY <1>1, Invariance, PTL

LEMMA RecStepTag == ASSUME IInv, TagIsExact, [RecNext]_recVars PROVE TagIsExact'
<1>1. TypeOK /\ MutualExclusion
  BY DEF IInv, RecTypeOK
<1>2. CASE [Next]_mutexVars
  BY <1>1, <1>2, MutexStepTag
<1>3. ASSUME NEW p \in Threads, owner' = owner, st[p] = "locked",
             UNCHANGED st \/ st' = [st EXCEPT ![p] = "halted"]
      PROVE  TagIsExact'
  BY <1>1, <1>3 DEF TypeOK, TagIsExact, Locked
<1>4. ASSUME NEW p \in Threads, Contend(p) \/ Leave(p) \/ RecPost(p)
      PROVE  [Next]_mutexVars
  BY <1>4 DEF Contend, Leave, RecPost, Next
<1>5. ASSUME NEW p \in Threads,
             \/ FirstCount(p) \/ CountAgain(p) \/ RelockStuck(p) \/ TryLockOverflow(p)
             \/ Uncount(p)
      PROVE  /\ owner' = owner /\ st[p] = "locked"
             /\ UNCHANGED st \/ st' = [st EXCEPT ![p] = "halted"]
  BY <1>5 DEF FirstCount, CountAgain, RelockStuck, TryLockOverflow, Uncount, mutexVars
<1>6. QED
  BY <1>2, <1>3, <1>4, <1>5 DEF RecNext, recVars

\* The tag stays exact with the counter on top.
THEOREM RecTagCorrect == RecSpec => []TagIsExact
<1>1. RecInit => TagIsExact
  BY DEF RecInit, Init, TagIsExact, Locked
<1>2. IInv /\ TagIsExact /\ [RecNext]_recVars => TagIsExact'
  BY RecStepTag
<1>3. QED
  BY <1>1, <1>2, Invariance, PTL DEF RecSpec

\* Who is named by the tag has the mutex or stopped; a thread that has the
\* mutex without the tag lost it to one that stopped; and a thread stopped on
\* a full count, or with another one stopped or left without the tag.
\* The last of these is why StopIsContention is kept: its other witnesses, a
\* thread about to swap or to post, may leave.
Stopped ==
  /\ owner # NoOwner => st[owner] \in {"locked", "halted"}
  /\ \A q \in Locked : owner # q => \E r \in Threads : st[r] = "halted"
  /\ \A p \in Threads : st[p] = "halted" =>
       \/ depth[p] = R - 1
       \/ \E q \in Threads \ {p} : st[q] = "halted" \/ (st[q] = "locked" /\ owner # q)

\* Steps that neither swap nor clear the tag: the thread goes on, or it stops
\* for one of the two reasons.
LEMMA QuietKeepsStopped ==
  ASSUME IInv, Stopped, NEW p \in Threads, UNCHANGED owner, st' \in [Threads -> States],
         \A q \in Threads \ {p} : st'[q] = st[q] /\ depth'[q] = depth[q],
         \/ /\ st[p] # "halted" /\ st'[p] # "halted"
            /\ st[p] = "locked" <=> st'[p] = "locked"
         \/ /\ st[p] = "locked" /\ st'[p] = "halted"
            /\ depth'[p] = R - 1 \/ owner # p
         \/ st[p] = "halted" /\ st'[p] = "halted" /\ depth'[p] = depth[p]
  PROVE  Stopped'
<1> USE DEF IInv, RecTypeOK, TypeOK
<1>1. owner' # NoOwner => st'[owner'] \in {"locked", "halted"}
  BY DEF Stopped
<1>2. ASSUME NEW r \in Threads, st[r] = "halted" PROVE st'[r] = "halted"
  BY <1>2
<1>3. ASSUME NEW q \in Locked', owner' # q PROVE \E r \in Threads : st'[r] = "halted"
  <2>1. q \in Locked
    BY <1>3 DEF Locked
  <2>2. QED
    BY <1>2, <1>3, <2>1 DEF Stopped
<1>4. ASSUME NEW r \in Threads, st'[r] = "halted"
      PROVE  \/ depth'[r] = R - 1
             \/ \E q \in Threads \ {r} : st'[q] = "halted" \/ (st'[q] = "locked" /\ owner' # q)
  <2>1. CASE st[r] = "halted"
    <3>1. depth'[r] = depth[r]
      BY <2>1
    <3>2. \A q \in Threads : (st[q] = "locked" /\ owner # q) =>
             st'[q] = "halted" \/ (st'[q] = "locked" /\ owner' # q)
      OBVIOUS
    <3>3. QED
      BY <1>2, <2>1, <3>1, <3>2 DEF Stopped
  <2>2. CASE st[r] # "halted"
    <3>1. r = p /\ st[p] = "locked" /\ (depth'[p] = R - 1 \/ owner # p)
      BY <1>4, <2>2
    <3>2. CASE depth'[p] = R - 1
      BY <3>1, <3>2
    <3>3. CASE owner # p
      <4>1. PICK q \in Threads : st[q] = "halted"
        BY <3>1, <3>3 DEF Stopped, Locked
      <4>2. q # r /\ st'[q] = "halted"
        BY <1>2, <3>1, <4>1
      <4>3. QED
        BY <4>2
    <3>4. QED
      BY <3>1, <3>2, <3>3
  <2>3. QED
    BY <2>1, <2>2
<1>5. QED
  BY <1>1, <1>3, <1>4 DEF Stopped

LEMMA SwapKeepsStopped ==
  ASSUME IInv, Stopped, NEW p \in Threads, SwapTag(p), UNCHANGED depth PROVE Stopped'
<1> USE DEF IInv, RecTypeOK, TypeOK
<1>1. /\ st[p] = "tagging" /\ owner' = p
      /\ st' = [st EXCEPT ![p] = IF owner = NoOwner THEN "locked" ELSE "halted"]
  BY DEF SwapTag, Move
<1>2. CASE owner = NoOwner
  <2>1. Locked = {}
    BY <1>2 DEF TagGuards
  <2>2. \A r \in Threads : st'[r] = IF r = p THEN "locked" ELSE st[r]
    BY <1>1, <1>2
  <2>3. QED
    BY <1>1, <2>1, <2>2 DEF Stopped, Locked
<1>3. CASE owner # NoOwner
  <2>1. /\ owner \in Threads /\ owner # p /\ st[owner] \in {"locked", "halted"}
        /\ \A r \in Threads : st'[r] = IF r = p THEN "halted" ELSE st[r]
    BY <1>1, <1>3 DEF Stopped
  <2>2. ASSUME NEW r \in Threads, st'[r] = "halted"
        PROVE  \/ depth'[r] = R - 1
               \/ \E q \in Threads \ {r} : st'[q] = "halted" \/ (st'[q] = "locked" /\ owner' # q)
    <3>1. CASE r = p
      BY <1>1, <2>1, <3>1
    <3>2. CASE r # p
      BY <1>1, <2>1, <3>2
    <3>3. QED
      BY <3>1, <3>2
  <2>3. \A q \in Locked' : \E r \in Threads : st'[r] = "halted"
    BY <2>1
  <2>4. QED
    BY <1>1, <2>1, <2>2, <2>3 DEF Stopped
<1>4. QED
  BY <1>2, <1>3

LEMMA ClearKeepsStopped ==
  ASSUME IInv, Stopped, NEW p \in Threads, ClearTag(p), UNCHANGED depth PROVE Stopped'
<1> USE DEF IInv, RecTypeOK, TypeOK
<1>1. /\ st[p] = "locked" /\ owner' = NoOwner
      /\ \A r \in Threads : st'[r] = IF r # p THEN st[r]
                                     ELSE IF owner = p THEN "posting" ELSE "halted"
  BY DEF ClearTag, Move
<1>2. \A q \in Threads : q # p => st[q] # "locked"
  BY <1>1 DEF MutualExclusion, Locked
<1>3. ASSUME NEW r \in Threads, st[r] = "halted"
      PROVE  \/ depth[r] = R - 1
             \/ \E q \in Threads \ {r} : st'[q] = "halted"
  <2>1. CASE owner = p
    BY <1>1, <1>2, <1>3, <2>1 DEF Stopped
  <2>2. CASE owner # p
    BY <1>1, <1>3, <2>2
  <2>3. QED
    BY <2>1, <2>2
<1>4. ASSUME owner # p PROVE \E q \in Threads \ {p} : st'[q] = "halted"
  BY <1>1, <1>4 DEF Stopped, Locked
<1>5. QED
  BY <1>1, <1>2, <1>3, <1>4 DEF Stopped, Locked

LEMMA StepKeepsStopped == ASSUME IInv, Stopped, [RecNext]_recVars PROVE Stopped'
<1> USE DEF IInv, RecTypeOK, TypeOK
<1>1. CASE UNCHANGED recVars
  BY <1>1 DEF recVars, mutexVars, Stopped, Locked
<1>2. ASSUME NEW p \in Threads, Contend(p), ~ SwapTag(p) PROVE Stopped'
  <2>1. PICK to \in {"locking", "tagging", "out"} :
          /\ UNCHANGED <<owner, depth>>
          /\ \/ st[p] \in {"out", "locking"} /\ st' = [st EXCEPT ![p] = to]
             \/ UNCHANGED st /\ st[p] = "locking"
    BY <1>2 DEF Contend, LockEnter, LockAdmitted, TryLockEnter, TryLockLoad,
       TryLockAdmitted, TryLockFails, Move, counters
  <2>2. st' \in [Threads -> States]
    BY <2>1 DEF States
  <2>3. QED
    BY <2>1, <2>2, QuietKeepsStopped
<1>3. ASSUME NEW p \in Threads, Contend(p), SwapTag(p) PROVE Stopped'
  BY <1>3, SwapKeepsStopped DEF Contend, counters
<1>4. ASSUME NEW p \in Threads, FirstCount(p) PROVE Stopped'
  <2>1. recurs = 0 /\ st[p] = "locked"
    BY <1>4 DEF FirstCount, CountIsDepth, Locked
  <2>2. UNCHANGED <<st, owner>> /\ depth' = [depth EXCEPT ![p] = 1]
    BY <1>4, <2>1 DEF FirstCount
  <2>3. QED
    BY <2>1, <2>2, QuietKeepsStopped
<1>5. ASSUME NEW p \in Threads, CountAgain(p) PROVE Stopped'
  <2>1. st[p] = "locked" /\ UNCHANGED <<st, owner>> /\ depth' = [depth EXCEPT ![p] = @ + 1]
    BY <1>5 DEF CountAgain, mutexVars
  <2>2. QED
    BY <2>1, QuietKeepsStopped
<1>6. ASSUME NEW p \in Threads, RelockStuck(p) \/ TryLockOverflow(p) PROVE Stopped'
  <2>1. /\ st[p] = "locked" /\ st' = [st EXCEPT ![p] = "halted"]
        /\ UNCHANGED <<owner, depth>>
        /\ owner # p \/ recurs + 1 = R
    BY <1>6 DEF RelockStuck, TryLockOverflow, counters
  <2>2. recurs = depth[p]
    BY <2>1 DEF CountIsDepth, Locked
  <2>3. st' \in [Threads -> States]
    BY <2>1 DEF States
  <2>4. depth'[p] = R - 1 \/ owner # p
    BY <2>1, <2>2, RAssumption
  <2>5. QED
    BY <2>1, <2>3, <2>4, QuietKeepsStopped
<1>7. ASSUME NEW p \in Threads, Uncount(p) PROVE Stopped'
  <2>1. /\ st[p] = "locked" /\ UNCHANGED owner
        /\ \A q \in Threads \ {p} : depth'[q] = depth[q]
        /\ \/ UNCHANGED st
           \/ st' = [st EXCEPT ![p] = "halted"] /\ owner # p
    BY <1>7 DEF Uncount, counters
  <2>2. st' \in [Threads -> States]
    BY <2>1 DEF States
  <2>3. QED
    BY <2>1, <2>2, QuietKeepsStopped
<1>8. ASSUME NEW p \in Threads, Leave(p) PROVE Stopped'
  BY <1>8, ClearKeepsStopped DEF Leave
<1>9. ASSUME NEW p \in Threads, RecPost(p) PROVE Stopped'
  <2>1. st[p] = "posting" /\ st' = [st EXCEPT ![p] = "out"] /\ UNCHANGED <<owner, depth>>
    BY <1>9 DEF RecPost, Post, Move, counters
  <2>2. st' \in [Threads -> States]
    BY <2>1 DEF States
  <2>3. QED
    BY <2>1, <2>2, QuietKeepsStopped
<1>10. QED
  BY <1>1, <1>2, <1>3, <1>4, <1>5, <1>6, <1>7, <1>8, <1>9 DEF RecNext

\* No thread stops without a reason: a full count, or a second thread that the
\* semaphore admitted and that is stuck or stopped as well.
THEOREM StopsExplained == RecSpec => []StopIsContention
<1>1. RecInit => Stopped
  BY DEF RecInit, Init, Stopped, Locked
<1>2. IInv /\ Stopped /\ [RecNext]_recVars => Stopped'
  BY StepKeepsStopped
<1>3. Stopped => StopIsContention
  BY DEF Stopped, StopIsContention
<1>4. QED
  BY <1>1, <1>2, <1>3, Invariance, PTL DEF RecSpec
=============================================================================
