-------------------------- MODULE TicketSemaphore --------------------------
(***************************************************************************)
(* abi::semaphore (abi/include/abi/semaphore.h, semaphore-inl.h): a        *)
(* counting semaphore built on two wrapping counters.  t is the next       *)
(* ticket to hand out, a the number of units ever made available.          *)
(* decrement() draws a ticket and spins until a has reached it;            *)
(* try_decrement() reads a, then t, and draws a ticket by compare-and-swap *)
(* when that ticket would be admitted at once; increment() adds a unit.    *)
(*                                                                         *)
(* The semaphore has no notion of a holder.  A thread here is a user that  *)
(* follows the pattern of every use in the tree: a unit it obtained is     *)
(* given back by one increment().                                          *)
(***************************************************************************)
EXTENDS SemaphoreWord, FiniteSets

CONSTANTS
  Threads,  \* threads that use the semaphore
  V,        \* the value given to the constructor
  MaxLag    \* units that may be returned while one thread is inside a call

ASSUME ThreadsAssumption == IsFiniteSet(Threads)
ASSUME VAssumption == V \in Nat
\* The window separates "reached" from "not yet reached" only while tickets
\* and units in flight span less than half the range of the word.  With
\* W = 2^32 that takes 2^31 increments during one thread's call, which the
\* code does not prevent: MaxLag states the assumption under which it works.
ASSUME WindowAssumption ==
  MaxLag \in Nat /\ V < MaxLag /\ MaxLag + Cardinality(Threads) <= Wnd

VARIABLES
  t,    \* t_: the next ticket
  a,    \* a_: units made available so far
  pc,   \* where each thread is in the semaphore's code
  reg   \* the thread's one live local: its ticket, a_ticket or t_ticket

semVars == <<t, a, pc, reg>>

\* idle: outside.  spin: in decrement()'s loop.  try_t, try_cas: in
\* try_decrement(), before the load of t_ and before the compare-and-swap.
\* held: the call returned with a unit.
PCs == {"idle", "spin", "try_t", "try_cas", "held"}

SemTypeOK ==
  /\ t \in 0 .. W - 1
  /\ a \in 0 .. W - 1
  /\ pc \in [Threads -> PCs]
  /\ reg \in [Threads -> 0 .. W - 1]

Goto(p, from, to, r) ==
  /\ pc[p] = from
  /\ pc' = [pc EXCEPT ![p] = to]
  /\ reg' = [reg EXCEPT ![p] = r]

SemInit ==
  /\ t = 0
  /\ a = V
  /\ pc = [p \in Threads |-> "idle"]
  /\ reg = [p \in Threads |-> 0]

\* decrement(): ticket = t.fetch_add(1U)
DrawTicket(p) ==
  /\ Goto(p, "idle", "spin", t)
  /\ t' = Bump(t)
  /\ UNCHANGED a

\* decrement(): the loop's condition is false and the call returns.  An
\* iteration whose condition is true changes nothing.
Admit(p) ==
  /\ Goto(p, "spin", "held", reg[p])
  /\ Reached(a, reg[p])
  /\ UNCHANGED <<t, a>>

\* try_decrement(): a_ticket = a.load()
TryLoadA(p) ==
  /\ Goto(p, "idle", "try_t", a)
  /\ UNCHANGED <<t, a>>

\* Mutant of TryLoadT: the availability test is dropped.
TryLoadTUnchecked(p) ==
  /\ Goto(p, "try_t", "try_cas", t)
  /\ UNCHANGED <<t, a>>

\* try_decrement(): t_ticket = t.load(), and the ticket would be admitted.
TryLoadT(p) ==
  /\ Goto(p, "try_t", "try_cas", t)
  /\ Reached(reg[p], t)
  /\ UNCHANGED <<t, a>>

\* try_decrement(): t_ticket = t.load(), and the call returns false.
TryRefused(p) ==
  /\ Goto(p, "try_t", "idle", 0)
  /\ ~ Reached(reg[p], t)
  /\ UNCHANGED <<t, a>>

\* try_decrement(): t.compare_exchange_strong(t_ticket, t_ticket + 1U)
TryCas(p) ==
  /\ t = reg[p]
  /\ Goto(p, "try_cas", "held", reg[p])
  /\ t' = Bump(t)
  /\ UNCHANGED a

\* Mutant of TryCasLost: fetch_add in place of the compare-and-swap.
TryCasLostTakes(p) ==
  /\ t # reg[p]
  /\ Goto(p, "try_cas", "idle", 0)
  /\ t' = Bump(t)
  /\ UNCHANGED a

TryCasLost(p) ==
  /\ t # reg[p]
  /\ Goto(p, "try_cas", "idle", 0)
  /\ UNCHANGED <<t, a>>

\* MaxLag bounds how far a may run ahead of a thread that has yet to look.
KeepsUp ==
  \A q \in Threads :
    (pc[q] \in {"spin", "try_t", "try_cas"} /\ Reached(a, reg[q])) =>
      (a - reg[q]) % W < MaxLag

\* increment(): a.fetch_add(1U)
Increment(p) ==
  /\ KeepsUp
  /\ Goto(p, "held", "idle", 0)
  /\ a' = Bump(a)
  /\ UNCHANGED t

TryStep(p) == TryLoadT(p) \/ TryRefused(p) \/ TryCas(p) \/ TryCasLost(p)

SemNext ==
  \E p \in Threads :
    \/ DrawTicket(p)
    \/ Admit(p)
    \/ TryLoadA(p)
    \/ TryStep(p)
    \/ Increment(p)

\* A thread inside a call is scheduled again, and a unit is given back: every
\* use in the tree brackets bounded work with decrement and increment.
SemFairness ==
  \A p \in Threads :
    WF_semVars(Admit(p)) /\ WF_semVars(TryStep(p)) /\ WF_semVars(Increment(p))

SemSpec == SemInit /\ [][SemNext]_semVars /\ SemFairness
-----------------------------------------------------------------------------
Spinning == {p \in Threads : pc[p] = "spin"}
Holding  == {p \in Threads : pc[p] = "held"}

\* Units are neither lost nor made: the distance from the next ticket to the
\* units available is the initial value less the tickets still out.  A
\* try_decrement() that fails must not consume a ticket, whatever happened
\* between its two loads and its compare-and-swap.
UnitsConserved == a = (t + V - Cardinality(Spinning \cup Holding)) % W

\* Nobody overtakes: when a call returns with a unit, every thread that
\* spins on an earlier ticket is admitted too (it only has to look again).
\* This covers try_decrement() racing a queue of waiters, and wrap-around.
NoBarging ==
  [][\A q \in Threads :
       (pc[q] # "held" /\ pc'[q] = "held") =>
         \A p \in Spinning : Reached(reg'[q], reg[p]) => Reached(a, reg[p])
    ]_semVars

\* A blocked decrement() returns: tickets make the semaphore starvation free.
EventuallyAdmitted == \A p \in Threads : pc[p] = "spin" ~> pc[p] = "held"

\* What the semaphore promises, with the capacity it really has: see
\* CountingSemaphore.  semaphore(V) lets V + 1 threads in, because a ticket
\* equal to a_ counts as reached.
Counting == INSTANCE CountingSemaphore
              WITH Capacity <- V + 1,
                   waiting <- Spinning,
                   holding <- Holding
ImplementsCounting == Counting!Spec
=============================================================================
