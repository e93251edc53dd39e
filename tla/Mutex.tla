------------------------------- MODULE Mutex -------------------------------
(***************************************************************************)
(* std::mutex (abi/src/mutex.cc, abi/include/mutex): the ticket semaphore  *)
(* impl_, constructed with V = 1, and an atomic owner tag that every       *)
(* call swaps and asserts about.  A failed assert_msg() calls panic(),     *)
(* which spins: the thread that failed makes no further step, the others   *)
(* go on.                                                                  *)
(*                                                                         *)
(* The callers are unique_locks: they lock when they do not own the mutex  *)
(* and unlock when they do (unique_lock throws before it calls otherwise). *)
(***************************************************************************)
EXTENDS TicketSemaphore

CONSTANT NoOwner  \* nullptr

ASSUME NoOwnerAssumption == NoOwner \notin Threads

VARIABLES
  owner,  \* owner_tag_
  st      \* where each thread is in mutex.cc

mutexVars == <<semVars, owner, st>>

\* out: not owning.  tagging: the semaphore let the call in, the tag is not
\* swapped yet.  locked: lock() or try_lock() returned.  posting: in unlock(),
\* the tag is cleared, the semaphore not yet incremented.  halted: panicked.
States == {"out", "locking", "tagging", "locked", "posting", "halted"}

TypeOK ==
  /\ SemTypeOK
  /\ owner \in Threads \cup {NoOwner}
  /\ st \in [Threads -> States]

Init ==
  /\ SemInit
  /\ owner = NoOwner
  /\ st = [p \in Threads |-> "out"]

Move(p, from, to) == st[p] = from /\ st' = [st EXCEPT ![p] = to]

\* lock(): not the owner, so on to impl_.decrement().  (The owner gets
\* resource_deadlock_would_occur and nothing changes.)
LockEnter(p) ==
  /\ owner # p
  /\ Move(p, "out", "locking")
  /\ DrawTicket(p)
  /\ UNCHANGED owner

LockAdmitted(p) ==
  /\ Move(p, "locking", "tagging")
  /\ Admit(p)
  /\ UNCHANGED owner

\* try_lock(): asserts that the caller is not the owner, then
\* impl_.try_decrement(); false leaves the mutex alone.
TryLockEnter(p) ==
  /\ owner # p
  /\ Move(p, "out", "locking")
  /\ TryLoadA(p)
  /\ UNCHANGED owner

TryLockLoad(p) ==
  /\ st[p] = "locking"
  /\ TryLoadT(p)
  /\ UNCHANGED <<owner, st>>

TryLockAdmitted(p) ==
  /\ Move(p, "locking", "tagging")
  /\ TryCas(p)
  /\ UNCHANGED owner

TryLockFails(p) ==
  /\ Move(p, "locking", "out")
  /\ TryRefused(p) \/ TryCasLost(p)
  /\ UNCHANGED owner

\* Mutants of SwapTag: the assertion is compiled out; the tag is not written.
SwapTagUnchecked(p) ==
  /\ Move(p, "tagging", "locked")
  /\ owner' = p
  /\ UNCHANGED semVars
SwapTagReads(p) ==
  /\ Move(p, "tagging", IF owner = NoOwner THEN "locked" ELSE "halted")
  /\ UNCHANGED <<semVars, owner>>

\* lock(), try_lock(): prev_owner = owner_tag_.exchange(self);
\* assert_msg(prev_owner == nullptr, "Mutex corrupted.")
SwapTag(p) ==
  /\ Move(p, "tagging", IF owner = NoOwner THEN "locked" ELSE "halted")
  /\ owner' = p
  /\ UNCHANGED semVars

\* Mutant of ClearTag: the tag stays.
ClearTagForgets(p) ==
  /\ Move(p, "locked", IF owner = p THEN "posting" ELSE "halted")
  /\ UNCHANGED <<semVars, owner>>

\* unlock(): prev_owner = owner_tag_.exchange(nullptr), asserted to be self.
ClearTag(p) ==
  /\ Move(p, "locked", IF owner = p THEN "posting" ELSE "halted")
  /\ owner' = NoOwner
  /\ UNCHANGED semVars

\* unlock(): impl_.increment()
Post(p) ==
  /\ Move(p, "posting", "out")
  /\ Increment(p)
  /\ UNCHANGED owner

Next ==
  \E p \in Threads :
    \/ LockEnter(p)
    \/ LockAdmitted(p)
    \/ TryLockEnter(p)
    \/ TryLockLoad(p)
    \/ TryLockAdmitted(p)
    \/ TryLockFails(p)
    \/ SwapTag(p)
    \/ ClearTag(p)
    \/ Post(p)

Spec == Init /\ [][Next]_mutexVars
-----------------------------------------------------------------------------
Locked == {p \in Threads : st[p] = "locked"}

\* Mutual exclusion: of the threads whose lock() or try_lock() has returned
\* and that have not begun unlock(), there is at most one.  The semaphore
\* lets two threads in at once, so this rests on the owner tag alone: the
\* second one must find the tag set and stop.
MutualExclusion == \A p, q \in Locked : p = q

\* Until the first panic the tag is exact: it names the thread that owns the
\* mutex, and is clear when no thread does.
TagIsExact ==
  (\A p \in Threads : st[p] # "halted") =>
    /\ \A p \in Locked : owner = p
    /\ Locked = {} => owner = NoOwner

\* "Mutex corrupted." (mutex.cc:26) and "mutex::unlock: current thread does
\* not hold this lock" (mutex.cc:43), the assertions of lock() and unlock():
\* callers that pair lock() with unlock() never fail them.
AssertionsHold == \A p \in Threads : st[p] # "halted"
=============================================================================
