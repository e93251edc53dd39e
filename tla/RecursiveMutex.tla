--------------------------- MODULE RecursiveMutex ---------------------------
(***************************************************************************)
(* std::recursive_mutex (abi/src/mutex.cc): the steps of std::mutex with a *)
(* plain counter, recurs_, that the owner alone touches.  A call by a      *)
(* thread that is not the owner goes through the semaphore and the tag as  *)
(* in Mutex, then counts; unlock() uncounts first and gives the mutex up   *)
(* when the count reaches zero.                                            *)
(***************************************************************************)
EXTENDS Mutex

CONSTANT R  \* number of values of recurs_, an unsigned int

ASSUME RAssumption == R \in Nat /\ R >= 2

VARIABLES
  recurs,  \* recurs_
  depth,   \* locks each thread has been granted and not given back
  leaving  \* threads in unlock() whose count reached zero

recVars == <<mutexVars, recurs, depth, leaving>>
counters == <<recurs, depth, leaving>>

RecTypeOK ==
  /\ TypeOK
  /\ recurs \in 0 .. R - 1
  /\ depth \in [Threads -> 0 .. R - 1]
  /\ leaving \subseteq Threads

RecInit ==
  /\ Init
  /\ recurs = 0
  /\ depth = [p \in Threads |-> 0]
  /\ leaving = {}

\* lock(), try_lock() by a thread that is not the owner, up to the tag.
Contend(p) ==
  /\ \/ LockEnter(p)
     \/ LockAdmitted(p)
     \/ TryLockEnter(p)
     \/ TryLockLoad(p)
     \/ TryLockAdmitted(p)
     \/ TryLockFails(p)
     \/ SwapTag(p)
  /\ UNCHANGED counters

\* old_recurs = recurs_++; assert_msg(old_recurs == 0, "Mutex corrupted.")
FirstCount(p) ==
  /\ st[p] = "locked" /\ depth[p] = 0 /\ p \notin leaving
  /\ recurs' = (recurs + 1) % R
  /\ IF recurs = 0
       THEN depth' = [depth EXCEPT ![p] = 1] /\ UNCHANGED st
       ELSE st' = [st EXCEPT ![p] = "halted"] /\ UNCHANGED depth
  /\ UNCHANGED <<semVars, owner, leaving>>

\* Mutants of CountAgain: no overflow check; the count is forgotten.
CountAgainUnchecked(p) ==
  /\ st[p] = "locked" /\ depth[p] > 0
  /\ owner = p
  /\ recurs' = (recurs + 1) % R
  /\ depth' = [depth EXCEPT ![p] = @ + 1]
  /\ UNCHANGED <<mutexVars, leaving>>
CountAgainForgets(p) ==
  /\ st[p] = "locked" /\ depth[p] > 0
  /\ owner = p
  /\ recurs + 1 < R
  /\ depth' = [depth EXCEPT ![p] = @ + 1]
  /\ UNCHANGED <<mutexVars, recurs, leaving>>

\* lock(), try_lock() by the owner: count once more.
CountAgain(p) ==
  /\ st[p] = "locked" /\ depth[p] > 0
  /\ owner = p
  /\ recurs + 1 < R
  /\ recurs' = recurs + 1
  /\ depth' = [depth EXCEPT ![p] = @ + 1]
  /\ UNCHANGED <<mutexVars, leaving>>

\* lock() by an owner whose tag was taken by a thread that then failed its
\* assertion: the call draws a second ticket, and since neither of the two
\* will post, it spins for ever.  (try_lock() returns false.)
RelockStuck(p) ==
  /\ st[p] = "locked" /\ depth[p] > 0
  /\ owner # p
  /\ t' = Bump(t)
  /\ st' = [st EXCEPT ![p] = "halted"]
  /\ UNCHANGED <<a, pc, reg, owner, counters>>

\* try_lock() by the owner when the count is full: it throws, but is declared
\* noexcept, so the program terminates.  lock() throws and nothing changes.
TryLockOverflow(p) ==
  /\ st[p] = "locked" /\ depth[p] > 0
  /\ owner = p
  /\ recurs + 1 = R
  /\ st' = [st EXCEPT ![p] = "halted"]
  /\ UNCHANGED <<semVars, owner, counters>>

\* unlock(): assert(owner_tag_ == self); --recurs_ == 0 decides.
Uncount(p) ==
  /\ st[p] = "locked" /\ depth[p] > 0
  /\ IF owner = p
       THEN /\ recurs' = (recurs - 1) % R
            /\ depth' = [depth EXCEPT ![p] = @ - 1]
            /\ leaving' = IF recurs' = 0 THEN leaving \cup {p} ELSE leaving
            /\ UNCHANGED st
       ELSE /\ st' = [st EXCEPT ![p] = "halted"]
            /\ UNCHANGED counters
  /\ UNCHANGED <<semVars, owner>>

\* unlock(): the rest is mutex::unlock().
Leave(p) ==
  /\ p \in leaving
  /\ ClearTag(p)
  /\ leaving' = leaving \ {p}
  /\ UNCHANGED <<recurs, depth>>

RecPost(p) == Post(p) /\ UNCHANGED counters

RecNext ==
  \E p \in Threads :
    \/ Contend(p)
    \/ FirstCount(p)
    \/ CountAgain(p)
    \/ RelockStuck(p)
    \/ TryLockOverflow(p)
    \/ Uncount(p)
    \/ Leave(p)
    \/ RecPost(p)

RecSpec == RecInit /\ [][RecNext]_recVars
-----------------------------------------------------------------------------
\* The owner's nesting is what recurs_ says, from the lock it was granted,
\* which must not find a count left over by the owner before it, to the last
\* unlock: an early or a late release of the mutex would show as a difference.
\* Threads stopped by an assertion no longer count.
CountIsDepth == \A p \in Locked : recurs = depth[p]

\* A stop is never spurious: a thread halts only on a full count, or because
\* the semaphore admitted a second thread while another one had the mutex,
\* and that other one still owns it, has the tag yet to swap or to post, or
\* halted as well.
StopIsContention ==
  \A p \in Threads : st[p] = "halted" =>
    \/ depth[p] = R - 1
    \/ \E q \in Threads \ {p} : st[q] \in {"tagging", "locked", "posting", "halted"}
=============================================================================
