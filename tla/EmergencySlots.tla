--------------------------- MODULE EmergencySlots ---------------------------
(***************************************************************************)
(* The emergency storage for exceptions (abi/src/abi_eh.cc): when the heap *)
(* is out of memory an exception is placed in one of a fixed array of      *)
(* slots.  A semaphore limits the threads that use slots, a thread-local   *)
(* counter the slots one thread may have.  An exception may be released by *)
(* any thread, so that counter is decremented by others.                   *)
(*                                                                         *)
(* The semaphore is taken at its word (CountingSemaphore, which            *)
(* TicketSemaphore implements with capacity V + 1); a unit is taken in the *)
(* name of one thread and may be returned by another.                      *)
(***************************************************************************)
EXTENDS Integers, FiniteSets

CONSTANTS
  Threads,
  NSlots,   \* EMERGENCY_SZ
  Limit,    \* the 4U of 'use <= 4U', tested before the new slot is counted
  V,        \* the initial value of emergency_use_threads
  Nobody    \* nullptr

ASSUME ThreadsAssumption == IsFiniteSet(Threads)
ASSUME SlotsAssumption == NSlots \in Nat \ {0}
ASSUME LimitAssumption == Limit \in Nat \ {0} /\ V \in Nat
ASSUME NobodyAssumption == Nobody \notin Threads

Slots == 1 .. NSlots
Capacity == V + 1

VARIABLES
  user,   \* emergency_slot::user_, by slot
  use,    \* thr_emergency_use, by thread
  units,  \* free units of emergency_use_threads
  pc,     \* where each thread is in acquire_ or release_emergency_space()
  at,     \* the slot a scanning thread looks at next
  whose   \* the thread whose slot is being released

vars == <<user, use, units, pc, at, whose>>

\* wait: about to take a unit.  scan: trying the slots in order.  giveup: all
\* were taken.  uncount: a slot is freed, its user's count not yet.  post: the
\* last count is gone, the unit not yet returned.
PCs == {"out", "wait", "scan", "giveup", "uncount", "post"}

TypeOK ==
  /\ user \in [Slots -> Threads \cup {Nobody}]
  /\ use \in [Threads -> 0 .. Limit + 2]
  /\ units \in 0 .. Capacity
  /\ pc \in [Threads -> PCs]
  /\ at \in [Threads -> 1 .. NSlots + 1]
  /\ whose \in [Threads -> Threads \cup {Nobody}]

Init ==
  /\ user = [s \in Slots |-> Nobody]
  /\ use = [p \in Threads |-> 0]
  /\ units = Capacity
  /\ pc = [p \in Threads |-> "out"]
  /\ at = [p \in Threads |-> 1]
  /\ whose = [p \in Threads |-> Nobody]

Goto(p, from, to) == pc[p] = from /\ pc' = [pc EXCEPT ![p] = to]

\* Mutant of Count: a unit for every slot, not for every thread.
CountAlwaysWaits(p) ==
  /\ use' = [use EXCEPT ![p] = @ + 1]
  /\ Goto(p, "out", IF use[p] > Limit THEN "giveup" ELSE "wait")
  /\ UNCHANGED <<user, units, at, whose>>

\* acquire_emergency_space(): use = thr_emergency_use.fetch_add(1U), and the
\* two tests on it.
Count(p) ==
  /\ use' = [use EXCEPT ![p] = @ + 1]
  /\ Goto(p, "out", IF use[p] > Limit THEN "giveup"
                    ELSE IF use[p] = 0 THEN "wait" ELSE "scan")
  /\ UNCHANGED <<user, units, at, whose>>

\* emergency_use_threads.decrement(): may block.
TakeUnit(p) ==
  /\ units > 0
  /\ units' = units - 1
  /\ Goto(p, "wait", "scan")
  /\ UNCHANGED <<user, use, at, whose>>

\* emergency_slot::claim() succeeds and acquire_emergency_space() returns.
Claim(p) ==
  /\ at[p] <= NSlots /\ user[at[p]] = Nobody
  /\ user' = [user EXCEPT ![at[p]] = p]
  /\ Goto(p, "scan", "out")
  /\ at' = [at EXCEPT ![p] = 1]
  /\ UNCHANGED <<use, units, whose>>

\* The loop over the array: the slot is taken, look at the next; after the
\* last, give up.
ScanOn(p) ==
  /\ at[p] <= NSlots /\ user[at[p]] # Nobody
  /\ pc[p] = "scan"
  /\ at' = [at EXCEPT ![p] = @ + 1]
  /\ UNCHANGED <<user, use, units, pc, whose>>

ScanEnds(p) ==
  /\ at[p] = NSlots + 1
  /\ Goto(p, "scan", "giveup")
  /\ at' = [at EXCEPT ![p] = 1]
  /\ UNCHANGED <<user, use, units, whose>>

\* Mutant of GiveUp: the failing call never returns the unit.
GiveUpKeepsUnit(p) ==
  /\ use' = [use EXCEPT ![p] = @ - 1]
  /\ Goto(p, "giveup", "out")
  /\ UNCHANGED <<user, units, at, whose>>

\* acquire_emergency_space(): undo the count; the last one returns the unit.
GiveUp(p) ==
  /\ use' = [use EXCEPT ![p] = @ - 1]
  /\ Goto(p, "giveup", IF use[p] = 1 THEN "post" ELSE "out")
  /\ UNCHANGED <<user, units, at, whose>>

\* emergency_slot::release() by thread p: user = user_.exchange(nullptr).
FreeSlot(p) ==
  \E s \in Slots :
    /\ user[s] # Nobody
    /\ user' = [user EXCEPT ![s] = Nobody]
    /\ whose' = [whose EXCEPT ![p] = user[s]]
    /\ Goto(p, "out", "uncount")
    /\ UNCHANGED <<use, units, at>>

\* Mutant of Uncount: the releasing thread's own counter is decremented.
UncountOwn(p) ==
  /\ use' = [use EXCEPT ![p] = @ - 1]
  /\ Goto(p, "uncount", IF use[p] = 1 THEN "post" ELSE "out")
  /\ whose' = [whose EXCEPT ![p] = Nobody]
  /\ UNCHANGED <<user, units, at>>

\* emergency_slot::release(): user->fetch_sub(1U) == 1U
Uncount(p) ==
  /\ Goto(p, "uncount", IF use[whose[p]] = 1 THEN "post" ELSE "out")
  /\ use' = [use EXCEPT ![whose[p]] = @ - 1]
  /\ whose' = [whose EXCEPT ![p] = Nobody]
  /\ UNCHANGED <<user, units, at>>

\* emergency_use_threads.increment()
ReturnUnit(p) ==
  /\ units' = units + 1
  /\ Goto(p, "post", "out")
  /\ UNCHANGED <<user, use, at, whose>>

Next ==
  \E p \in Threads :
    \/ Count(p)
    \/ TakeUnit(p)
    \/ Claim(p)
    \/ ScanOn(p)
    \/ ScanEnds(p)
    \/ GiveUp(p)
    \/ FreeSlot(p)
    \/ Uncount(p)
    \/ ReturnUnit(p)

Spec == Init /\ [][Next]_vars
-----------------------------------------------------------------------------
Holders(p) == {s \in Slots : user[s] = p}
Late(p) == {q \in Threads : whose[q] = p}
Users == {p \in Threads : use[p] > 0 /\ pc[p] # "wait"}
Posting == {p \in Threads : pc[p] = "post"}

\* The thread-local counter, decremented by whoever releases the exception,
\* always counts the thread's slots, its call in progress and the releases
\* that have freed a slot and not yet counted it off.
CounterExact ==
  \A p \in Threads :
    use[p] = Cardinality(Holders(p))
             + (IF pc[p] \in {"wait", "scan", "giveup"} THEN 1 ELSE 0)
             + Cardinality(Late(p))

\* A unit of the semaphore is out exactly for each thread whose counter is
\* above zero (and that is past the semaphore), and for each unit on its way
\* back: none is lost or returned twice when a release by another thread
\* races the thread's next acquire.
UnitsExact ==
  Capacity - units = Cardinality(Users) + Cardinality(Posting)

\* Nobody waits for the semaphore with a slot in hand: a thread blocks in
\* acquire_emergency_space() only when none of its slots is in use or still
\* to be counted off, and threads that hold units never block, so that they
\* cannot all wait for one another.  That rests on a counter which releases
\* by other threads lower late.
NoHoldAndWait ==
  \A p \in Threads : pc[p] = "wait" => Holders(p) = {} /\ Late(p) = {}
=============================================================================
