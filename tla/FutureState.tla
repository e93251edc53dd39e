---------------------------- MODULE FutureState ----------------------------
(***************************************************************************)
(* std::impl::future_state (abi/include/stdimpl/future_state-inl.h), the   *)
(* object that a promise and its futures share, with the promise, future   *)
(* and shared_future handles that call it (abi/include/future-inl.h).      *)
(* state_ and refcnt_ are atomics; lck_ is a spin lock around the writers. *)
(* Kind says which constructor made the object: for a promise, or for a    *)
(* deferred function that the first waiter runs.                           *)
(*                                                                         *)
(* Handles belong to one thread each, except the promise, which threads    *)
(* may call concurrently as long as it exists.                             *)
(***************************************************************************)
EXTENDS Integers, FiniteSets

CONSTANT Threads

ASSUME ThreadsAssumption == IsFiniteSet(Threads)

VARIABLES
  kind,     \* "promise" or "deferred"
  state,    \* state_
  lck,      \* lck_
  shared,   \* shared_
  refcnt,   \* refcnt_
  stored,   \* what is constructed in storage_: "none", "value" or "exc"
  alive,    \* the object has not been destroyed
  promise,  \* the promise exists and refers to the object
  handle,   \* the future each thread has: "none", "future" or "shared"
  pc,       \* where each thread is
  job,      \* what a writer sets: the outcome, and whether it becomes ready
  runs      \* calls of deferred_fn_ so far

object  == <<kind, state, lck, shared, refcnt, stored, alive>>
vars    == <<object, promise, handle, pc, job, runs>>

Outcomes == {"value", "exc"}
Ready(o)       == IF o = "value" THEN "ready_value" ELSE "ready_exc"
Initialized(o) == IF o = "value" THEN "initialized_value" ELSE "initialized_exc"

States ==
  {"uninitialized", "uninitialized_deferred", "initialized_value", "initialized_exc",
   "ready_value", "ready_exc"}
IsReady == state \in {"ready_value", "ready_exc"}

\* acquire: in get_future().  lock .. unlock: in set_value() and its kin.
\* invoke: deferred_fn_ runs.  wait: the loop of wait().  use: it returned.
\* release: the handle is gone, its reference not yet.  destroy: the last
\* reference is gone, the destructor to be run.
PCs == {"idle", "acquire", "lock", "check", "publish", "unlock", "invoke", "wait", "use",
        "release", "destroy"}
Jobs == [out : Outcomes, ready : BOOLEAN]
NoJob == [out |-> "value", ready |-> TRUE]

TypeOK ==
  /\ kind \in {"promise", "deferred"}
  /\ state \in States
  /\ lck \in BOOLEAN /\ shared \in BOOLEAN /\ alive \in BOOLEAN /\ promise \in BOOLEAN
  /\ refcnt \in Nat
  /\ stored \in {"none"} \cup Outcomes
  /\ handle \in [Threads -> {"none", "future", "shared"}]
  /\ pc \in [Threads -> PCs]
  /\ job \in [Threads -> Jobs]
  /\ runs \in Nat

\* promise(): the object, unshared, with one reference.  async(): the object,
\* marked shared, in the hands of one future.  lck_, and a promise's shared_,
\* have no initialiser (future_state.h:66): any value may be found there.
Init ==
  /\ lck \in BOOLEAN
  /\ refcnt = 1 /\ stored = "none" /\ alive = TRUE /\ runs = 0
  /\ pc = [p \in Threads |-> "idle"]
  /\ job = [p \in Threads |-> NoJob]
  /\ \/ /\ kind = "promise" /\ state = "uninitialized"
        /\ shared \in BOOLEAN /\ promise = TRUE
        /\ handle = [p \in Threads |-> "none"]
     \/ /\ kind = "deferred" /\ state = "uninitialized_deferred"
        /\ shared = TRUE /\ promise = FALSE
        /\ \E o \in Threads :
             handle = [p \in Threads |-> IF p = o THEN "future" ELSE "none"]

Goto(p, from, to) == pc[p] = from /\ pc' = [pc EXCEPT ![p] = to]
Object(st, lk, rc, sd) == state' = st /\ lck' = lk /\ refcnt' = rc /\ stored' = sd
Rest == UNCHANGED <<kind, shared, alive, promise, handle, job, runs>>
-----------------------------------------------------------------------------
\* promise::get_future(): mark_shared(); throws if it was marked already.
GetFuture(p) ==
  /\ promise /\ handle[p] = "none"
  /\ Goto(p, "idle", IF shared THEN "idle" ELSE "acquire")
  /\ shared' = TRUE
  /\ UNCHANGED <<kind, state, lck, refcnt, stored, alive, promise, handle, job, runs>>

\* promise::get_future(): acquire(state_), and the future is returned.
Acquire(p) ==
  /\ Goto(p, "acquire", "idle")
  /\ handle' = [handle EXCEPT ![p] = "future"]
  /\ refcnt' = refcnt + 1
  /\ UNCHANGED <<kind, state, lck, shared, stored, alive, promise, job, runs>>

\* future::share(): the reference moves to a shared_future.
Share(p) ==
  /\ handle[p] = "future" /\ pc[p] = "idle"
  /\ handle' = [handle EXCEPT ![p] = "shared"]
  /\ UNCHANGED <<object, promise, pc, job, runs>>

\* Mutant of Copy: without acquire().
CopyQuietly(p) ==
  /\ handle[p] = "none" /\ pc[p] = "idle"
  /\ \E q \in Threads : handle[q] = "shared"
  /\ handle' = [handle EXCEPT ![p] = "shared"]
  /\ UNCHANGED <<object, promise, pc, job, runs>>

\* shared_future(const shared_future&): a copy of another thread's.
Copy(p) ==
  /\ handle[p] = "none" /\ pc[p] = "idle"
  /\ \E q \in Threads : handle[q] = "shared"
  /\ handle' = [handle EXCEPT ![p] = "shared"]
  /\ refcnt' = refcnt + 1
  /\ UNCHANGED <<kind, state, lck, shared, stored, alive, promise, pc, job, runs>>

\* ~future(), ~shared_future(): give the handle up, then release().
Drop(p) ==
  /\ handle[p] # "none"
  /\ Goto(p, "idle", "release")
  /\ handle' = [handle EXCEPT ![p] = "none"]
  /\ UNCHANGED <<object, promise, job, runs>>

InPromise == {p \in Threads : kind = "promise" /\
                              pc[p] \in {"acquire", "lock", "check", "publish", "unlock"}}

\* ~promise(), by whoever owns it, when no thread is in a call of it.  It does
\* not store broken_promise.
DropPromise(p) ==
  /\ promise /\ InPromise = {}
  /\ Goto(p, "idle", "release")
  /\ promise' = FALSE
  /\ UNCHANGED <<object, handle, job, runs>>

\* Mutant of Release: off by one, the last but one destroys.
ReleaseEarly(p) ==
  /\ Goto(p, "release", IF refcnt <= 2 THEN "destroy" ELSE "idle")
  /\ Object(state, lck, refcnt - 1, stored) /\ Rest

\* release(): fetch_sub, and the last one goes on to destructor_.
Release(p) ==
  /\ Goto(p, "release", IF refcnt = 1 THEN "destroy" ELSE "idle")
  /\ Object(state, lck, refcnt - 1, stored) /\ Rest

\* ~future_state(): destroys what state_ says is in storage_.
Destroy(p) ==
  /\ Goto(p, "destroy", "idle")
  /\ alive' = FALSE
  /\ stored' = CASE state \in {"initialized_value", "ready_value"} /\ stored = "value" -> "none"
                 [] state \in {"initialized_exc", "ready_exc"} /\ stored = "exc" -> "none"
                 [] OTHER -> stored
  /\ UNCHANGED <<kind, state, lck, shared, refcnt, promise, handle, job, runs>>
-----------------------------------------------------------------------------
\* promise::set_value(), set_exception() and their _at_thread_exit forms.
SetBegin(p) ==
  /\ promise
  /\ Goto(p, "idle", "lock")
  /\ \E j \in Jobs : job' = [job EXCEPT ![p] = j]
  /\ UNCHANGED <<object, promise, handle, runs>>

\* lock(): the compare-and-swap succeeds.
Lock(p) ==
  /\ ~ lck
  /\ Goto(p, "lock", "check")
  /\ Object(state, TRUE, refcnt, stored) /\ Rest

\* Mutant of Check: without ensure_uninitialized().
CheckNot(p) ==
  /\ Goto(p, "check", "publish")
  /\ Object(state, lck, refcnt, job[p].out) /\ Rest

\* assign_value_(), assign_exc_(): ensure_uninitialized(), then construct the
\* outcome in storage_.  Otherwise promise_already_satisfied is thrown, and
\* the unique_lock unlocks on the way out.
Check(p) ==
  /\ IF state = "uninitialized"
       THEN Goto(p, "check", "publish") /\ Object(state, lck, refcnt, job[p].out)
       ELSE Goto(p, "check", "unlock") /\ Object(state, lck, refcnt, stored)
  /\ Rest

\* assign_value_(): the constructor of T throws.  A deferred function's caller
\* catches it and stores the exception; a promise's caller gets it.
ConstructThrows(p) ==
  /\ state = "uninitialized" /\ job[p].out = "value"
  /\ Goto(p, "check", IF kind = "deferred" THEN "lock" ELSE "idle")
  /\ lck' = FALSE
  /\ job' = [job EXCEPT ![p] = IF kind = "deferred" THEN [@ EXCEPT !.out = "exc"] ELSE NoJob]
  /\ UNCHANGED <<kind, state, shared, refcnt, stored, alive, promise, handle, runs>>

\* Mutants of Publish: set_exc() publishes a value; ready_ is never reached.
PublishValue(p) ==
  /\ Goto(p, "publish", "unlock")
  /\ Object(Ready("value"), lck, refcnt, stored) /\ Rest
PublishInitialized(p) ==
  /\ Goto(p, "publish", "unlock")
  /\ Object(Initialized(job[p].out), lck, refcnt, stored) /\ Rest

\* set_ready_val(), set_ready_exc(), set_initialized_val(), ..._exc().
Publish(p) ==
  /\ Goto(p, "publish", "unlock")
  /\ Object(IF job[p].ready THEN Ready(job[p].out) ELSE Initialized(job[p].out),
            lck, refcnt, stored)
  /\ Rest

\* ~unique_lock(): unlock().  The runner of a deferred function goes on to
\* wait for what it has set.
Unlock(p) ==
  /\ Goto(p, "unlock", IF kind = "deferred" THEN "wait" ELSE "idle")
  /\ lck' = FALSE
  /\ job' = [job EXCEPT ![p] = NoJob]
  /\ UNCHANGED <<kind, state, shared, refcnt, stored, alive, promise, handle, runs>>
-----------------------------------------------------------------------------
\* Mutant of Wait: the state is loaded and left; no compare-and-swap.
WaitLoads(p) ==
  /\ handle[p] # "none"
  /\ IF state = "uninitialized_deferred"
       THEN Goto(p, "idle", "invoke") /\ runs' = runs + 1
       ELSE Goto(p, "idle", "wait") /\ runs' = runs
  /\ UNCHANGED <<object, promise, handle, job>>

\* wait(), get(): start_deferred(), by compare-and-swap.
Wait(p) ==
  /\ handle[p] # "none"
  /\ IF state = "uninitialized_deferred"
       THEN /\ Goto(p, "idle", "invoke")
            /\ state' = "uninitialized"
            /\ runs' = runs + 1
       ELSE Goto(p, "idle", "wait") /\ UNCHANGED <<state, runs>>
  /\ UNCHANGED <<kind, lck, shared, refcnt, stored, alive, promise, handle, job>>

\* invoke_deferred_(): the function returns, or throws and is caught.
Invoke(p) ==
  /\ Goto(p, "invoke", "lock")
  /\ \E o \in Outcomes : job' = [job EXCEPT ![p] = [out |-> o, ready |-> TRUE]]
  /\ UNCHANGED <<object, promise, handle, runs>>

WaitEnds(p) ==
  /\ IsReady
  /\ Goto(p, "wait", "use")
  /\ UNCHANGED <<object, promise, handle, job, runs>>

\* wait() returned; get() of a shared_future refers to the outcome, get() of a
\* future that holds an exception rethrows it.  The handle stays.
Used(p) ==
  /\ Goto(p, "use", "idle")
  /\ UNCHANGED <<object, promise, handle, job, runs>>

\* future::get(): the value is moved out, the handle given up.
GetValue(p) ==
  /\ handle[p] = "future" /\ state = "ready_value"
  /\ Goto(p, "use", "release")
  /\ handle' = [handle EXCEPT ![p] = "none"]
  /\ UNCHANGED <<object, promise, job, runs>>

\* The steps of a call in progress; the others begin a call.
Continue(p) ==
  \/ Acquire(p)
  \/ Release(p)
  \/ Destroy(p)
  \/ Lock(p)
  \/ Check(p)
  \/ ConstructThrows(p)
  \/ Publish(p)
  \/ Unlock(p)
  \/ Invoke(p)
  \/ WaitEnds(p)
  \/ Used(p)
  \/ GetValue(p)

Next ==
  \E p \in Threads :
    \/ GetFuture(p)
    \/ Share(p)
    \/ Copy(p)
    \/ Drop(p)
    \/ DropPromise(p)
    \/ SetBegin(p)
    \/ Wait(p)
    \/ Continue(p)

\* A thread in a call is scheduled again, and a deferred function ends.
Spec == Init /\ [][Next]_vars /\ \A p \in Threads : WF_vars(Continue(p))
-----------------------------------------------------------------------------
HasHandle == {p \in Threads : handle[p] # "none"}
Releasing == {p \in Threads : pc[p] = "release"}
Destroying == {p \in Threads : pc[p] = "destroy"}
Writing   == {p \in Threads : pc[p] \in {"check", "publish", "unlock"}}

\* refcnt_ is the number of handles, counting those whose release() is yet to
\* come: handles that are made, shared, copied and dropped by many threads
\* neither leak the object nor free it early.
RefcntExact ==
  refcnt = Cardinality(HasHandle) + Cardinality(Releasing) + (IF promise THEN 1 ELSE 0)

\* Nobody is inside a call, waits or has a handle once the last reference is
\* gone; the writer still has to unlock after its waiter has seen the result.
NoUseAfterDestroy ==
  (~ alive \/ Destroying # {}) =>
    /\ ~ promise
    /\ \A p \in Threads : handle[p] = "none" /\ pc[p] \in {"idle", "destroy"}
    /\ Cardinality(Destroying) = (IF alive THEN 1 ELSE 0)

\* What a waiter or the destructor finds in storage_ is what state_ says, and
\* destruction leaves nothing behind.
StorageMatches ==
  /\ (alive /\ IsReady) => state = Ready(stored)
  /\ ~ alive => stored = "none"

\* The outcome is set once: a second set_value(), a concurrent one, or one
\* that races set_exception(), changes neither state_ nor storage_.
SetOnce ==
  [][(IsReady /\ alive') => UNCHANGED <<state, stored>>]_vars

\* Of all the threads that wait on copies of a deferred future one runs it.
DeferredOnce == runs <= 1

\* lck_ was true before anybody locked it.
LockGarbage == lck /\ Writing = {}

\* Every thread that waits for a deferred function returns, whichever thread
\* runs it and whether it returns or throws, unless lck_ started out locked.
DeferredWaitEnds ==
  \A p \in Threads :
    (kind = "deferred" /\ pc[p] = "wait") ~> (pc[p] # "wait" \/ LockGarbage)
=============================================================================
