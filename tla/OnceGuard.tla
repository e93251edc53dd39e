----------------------------- MODULE OnceGuard -----------------------------
(***************************************************************************)
(* Initialisation that happens once: std::call_once (abi/include/          *)
(* mutex-inl.h) over the Itanium guard functions __cxa_guard_acquire,      *)
(* __cxa_guard_release and __cxa_guard_abort (abi/src/abi_linker.cc).  The *)
(* guard is one byte, mark, that says "initialised", and a spin lock, mtx. *)
(* call_once() looks at mark without the lock first.                       *)
(***************************************************************************)
EXTENDS Integers, FiniteSets

CONSTANT Threads

VARIABLES
  mark,    \* impl_t::mark, the guard's first byte
  mtx,     \* impl_t::mtx, 0 or 1
  pc,      \* where each caller is in call_once()
  object   \* what the callable initialises: "raw", "partial" or "built"

vars == <<mark, mtx, pc, object>>

\* out: not in call_once().  spin: in the acquire loop.  check: mtx taken, mark
\* to be read.  skip: mark was set, mtx to be given back.  run: func() runs.
\* commit: func() returned.  unlock: mark is set, mtx to be given back.
\* abort: func() threw.
PCs == {"out", "spin", "check", "skip", "run", "commit", "unlock", "abort"}

TypeOK ==
  /\ mark \in {0, 1}
  /\ mtx \in {0, 1}
  /\ pc \in [Threads -> PCs]
  /\ object \in {"raw", "partial", "built"}

Init ==
  /\ mark = 0 /\ mtx = 0
  /\ pc = [p \in Threads |-> "out"]
  /\ object = "raw"

Goto(p, from, to) == pc[p] = from /\ pc' = [pc EXCEPT ![p] = to]

\* call_once(): if (*done) return, without a change; else construct the lock.
Enter(p) ==
  /\ mark = 0
  /\ Goto(p, "out", "spin")
  /\ UNCHANGED <<mark, mtx, object>>

\* Mutant of Acquire: the lock is not tested.
AcquireAlways(p) ==
  /\ mtx' = 1
  /\ Goto(p, "spin", "check")
  /\ UNCHANGED <<mark, object>>

\* __cxa_guard_acquire(): the compare-and-swap from 0 to 1 succeeds.  One that
\* fails, spuriously or not, changes nothing.
Acquire(p) ==
  /\ mtx = 0 /\ mtx' = 1
  /\ Goto(p, "spin", "check")
  /\ UNCHANGED <<mark, object>>

\* Mutant of Check: the mark is not looked at again under the lock.
CheckNot(p) ==
  /\ Goto(p, "check", "run")
  /\ object' = "partial"
  /\ UNCHANGED <<mark, mtx>>

\* __cxa_guard_acquire(): read mark under the lock.  When it is clear the
\* caller keeps the lock and func() starts.
Check(p) ==
  /\ IF mark = 1
       THEN Goto(p, "check", "skip") /\ UNCHANGED object
       ELSE Goto(p, "check", "run") /\ object' = "partial"
  /\ UNCHANGED <<mark, mtx>>

\* Mutant of Skip: the early exit keeps the lock.
SkipKeeps(p) ==
  /\ Goto(p, "skip", "out")
  /\ UNCHANGED <<mark, mtx, object>>

\* __cxa_guard_acquire(): lock.store(0); call_once() returns.
Skip(p) ==
  /\ Goto(p, "skip", "out")
  /\ mtx' = 0
  /\ UNCHANGED <<mark, object>>

\* func() returns and lck.commit() sets succes_.
RunReturns(p) ==
  /\ Goto(p, "run", "commit")
  /\ object' = "built"
  /\ UNCHANGED <<mark, mtx>>

\* func() throws; what it had constructed is undone.
RunThrows(p) ==
  /\ Goto(p, "run", "abort")
  /\ object' = "raw"
  /\ UNCHANGED <<mark, mtx>>

\* __cxa_guard_release(): the mark is set before the lock is opened.
SetMark(p) ==
  /\ Goto(p, "commit", "unlock")
  /\ mark' = 1
  /\ UNCHANGED <<mtx, object>>

Unlock(p) ==
  /\ Goto(p, "unlock", "out")
  /\ mtx' = 0
  /\ UNCHANGED <<mark, object>>

\* Mutant of Abort: a failed initialisation is marked as done.
AbortMarks(p) ==
  /\ Goto(p, "abort", "out")
  /\ mtx' = 0 /\ mark' = 1
  /\ UNCHANGED object

\* __cxa_guard_abort(): open the lock; the exception leaves call_once().
Abort(p) ==
  /\ Goto(p, "abort", "out")
  /\ mtx' = 0
  /\ UNCHANGED <<mark, object>>

Inside(p) ==
  \/ Acquire(p)
  \/ Check(p)
  \/ Skip(p)
  \/ RunReturns(p) \/ RunThrows(p)
  \/ SetMark(p)
  \/ Unlock(p)
  \/ Abort(p)

Next == \E p \in Threads : Enter(p) \/ Inside(p)

\* A caller inside is scheduled again and func() ends.  The spin lock is not
\* fair, so a caller gets it only in the absence of others (weak fairness).
Spec == Init /\ [][Next]_vars /\ \A p \in Threads : WF_vars(Inside(p))
-----------------------------------------------------------------------------
\* The object is built once: no call of func() starts on, or undoes, what an
\* earlier one has completed.
BuiltForGood == [][object = "built" => object' = "built"]_vars

\* Only one caller runs func() at a time, and the lock word is set exactly
\* while one caller is between its compare-and-swap and its store.
InCritical == {p \in Threads : pc[p] \notin {"out", "spin"}}
OneInside == Cardinality(InCritical) = mtx

\* Whoever sees the mark can use the object: this is what lets the fast path
\* of call_once() return, and a caller that waited return, without running
\* func().  It must survive func() throwing while others wait.
MarkMeansBuilt == mark = 1 => object = "built"

\* Once somebody has succeeded every waiting caller returns, although the
\* lock is a bare compare-and-swap loop.
EverybodyReturns ==
  \A p \in Threads : (mark = 1 /\ pc[p] # "out") ~> pc[p] = "out"
=============================================================================
