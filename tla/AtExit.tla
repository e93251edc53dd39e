------------------------------- MODULE AtExit -------------------------------
(***************************************************************************)
(* atexit(), at_quick_exit(), exit() and quick_exit() (abi/src/            *)
(* cstdlib.cc).  A handler goes on a linked stack when there is memory for *)
(* a node, and into a static array when there is none and the stack is     *)
(* empty.  resolve() pops the stack, then scans the array from its last    *)
(* slot down, and gives fn_lock back around every handler it calls, so     *)
(* that handlers and other threads register more; after a handler of the   *)
(* array it starts over.  exit() then runs the destructors of CxaAtExit,   *)
(* still under fn_lock.  exit() ends in _config::exit(), which spins: the  *)
(* other threads go on.                                                    *)
(*                                                                         *)
(* fn_lock and highlander are semaphores of one unit, and such a semaphore *)
(* admits two threads (SemaphoreWord).  So two threads may work on the     *)
(* handlers at once, and two may exit: met and Exiting tell.  Who has the  *)
(* lock reads in one step and stores in another.  Once two have met, nodes *)
(* are freed while the other thread reads them, which is not followed: the *)
(* properties say what holds as long as they have not.                     *)
(*                                                                         *)
(* Handlers are named by the order in which they were accepted.            *)
(***************************************************************************)
EXTENDS CxaAtExit

CONSTANTS
  FnCount,      \* fn_count: slots of the array
  FnLockUnits,  \* what fn_lock is constructed with; it admits one thread more
  Highlanders,  \* what highlander is constructed with; it admits one more
  MaxHandlers   \* bound: handlers accepted in a behaviour

ASSUME AtExitAssumption ==
  /\ FnCount \in Nat \ {0}
  /\ FnLockUnits \in Nat \ {0}
  /\ Highlanders \in Nat \ {0}
  /\ MaxHandlers \in Nat

VARIABLES
  stack,       \* the nodes from fn_stack::head_ on
  array,       \* fn_array; 0 is an empty slot
  accepted,    \* what is known of each handler accepted so far
  ran,         \* handlers called, in order
  inside,      \* threads that have fn_lock
  met,         \* history: two threads have had fn_lock at once
  pc,          \* where each thread is in exit()
  quick,       \* resolve()'s argument
  slot,        \* resolve()'s f; FnCount while it empties the stack
  push,        \* where each thread is in push(), and the handler's kind
  saw,         \* the stack as pop() or push() read it from head_
  found        \* what was read of the array: by push() its first empty slot,
               \* by resolve() the handler at f

handlerVars == <<stack, array, accepted, ran>>
lockVars == <<inside, met>>
localVars == <<pc, quick, slot, push, saw, found>>
vars == <<cxaVars, handlerVars, lockVars, localVars>>

NoPush == [at |-> "none", quick |-> FALSE]

\* main: not in exit().  lock, skipped, called: before it takes fn_lock, at
\* first or again after a handler of the other kind or its own.  pop, scan,
\* ending, dtors: under the lock.  running: in a handler.
PCs == {"main", "lock", "pop", "scan", "running", "skipped", "called",
        "ending", "dtors", "done"}

Init ==
  /\ CxaInit
  /\ stack = <<>>
  /\ array = [i \in 0 .. FnCount - 1 |-> 0]
  /\ accepted = <<>>
  /\ ran = <<>>
  /\ inside = {}
  /\ met = FALSE
  /\ pc = [p \in Threads |-> "main"]
  /\ quick = [p \in Threads |-> FALSE]
  /\ slot = [p \in Threads |-> FnCount]
  /\ push = [p \in Threads |-> NoPush]
  /\ saw = [p \in Threads |-> <<>>]
  /\ found = [p \in Threads |-> 0]

Goto(p, from, to) == pc[p] = from /\ pc' = [pc EXCEPT ![p] = to]

\* semlock's constructor, the end of do_unlocked(): fn_lock.decrement()
Enter(p) ==
  /\ p \notin inside
  /\ Cardinality(inside) <= FnLockUnits
  /\ inside' = inside \cup {p}
  /\ met' = (met \/ inside # {})

LeaveLock(p) == inside' = inside \ {p} /\ UNCHANGED met

Exiting == {p \in Threads : pc[p] # "main"}

\* A thread that may call a library function: in the program, or in a handler.
CanCall(p) ==
  /\ pc[p] \in {"main", "running"} /\ push[p] = NoPush
  /\ todo[p] = <<>> /\ call[p] = NoCall

FreeSlots == {i \in DOMAIN array : array[i] = 0}
FirstEmpty == IF FreeSlots = {} THEN FnCount ELSE Min(FreeSlots)
-----------------------------------------------------------------------------
\* atexit(), at_quick_exit(): push() has got a node from the heap, or not.
PushBegin(p, q, at) ==
  /\ CanCall(p)
  /\ Len(accepted) + Cardinality({r \in Threads : push[r] # NoPush}) < MaxHandlers
  /\ push' = [push EXCEPT ![p] = [at |-> at, quick |-> q]]
  /\ UNCHANGED <<cxaVars, handlerVars, lockVars, pc, quick, slot, saw, found>>

\* push() takes the lock and reads head_, and the array when it has no node.
PushLock(p) ==
  /\ push[p] # NoPush
  /\ Enter(p)
  /\ saw' = [saw EXCEPT ![p] = stack]
  /\ found' = [found EXCEPT ![p] = IF push[p].at = "array" THEN FirstEmpty ELSE 0]
  /\ UNCHANGED <<cxaVars, handlerVars, pc, quick, slot, push>>

\* A handler accepted before exit() was called, or by a handler that exit()
\* runs, has to run; what other threads register meanwhile need not.
Accept(p) ==
  accepted' = Append(accepted,
                     [quick |-> push[p].quick,
                      owed  |-> Exiting = {} \/ pc[p] = "running"])

PushDone(p) ==
  /\ p \in inside
  /\ LeaveLock(p)
  /\ push' = [push EXCEPT ![p] = NoPush]
  /\ saw' = [saw EXCEPT ![p] = <<>>]
  /\ found' = [found EXCEPT ![p] = 0]
  /\ UNCHANGED <<cxaVars, ran, pc, quick, slot>>

\* fn_stack::push(): e->tail_ = head_; head_ = e
PushNode(p) ==
  /\ push[p].at = "stack"
  /\ Accept(p)
  /\ stack' = <<Len(accepted')>> \o saw[p]
  /\ PushDone(p)
  /\ UNCHANGED array

\* Mutant of PushSlot: the test of the stack is dropped.
PushSlotUntested(p) ==
  /\ push[p].at = "array"
  /\ IF found[p] # FnCount
       THEN /\ Accept(p)
            /\ array' = [array EXCEPT ![found[p]] = Len(accepted')]
       ELSE UNCHANGED <<accepted, array>>
  /\ PushDone(p)
  /\ UNCHANGED stack

\* push(): without a node, the first empty slot; ENOMEM when there is none or
\* when the stack has nodes.
PushSlot(p) ==
  /\ push[p].at = "array"
  /\ IF saw[p] = <<>> /\ found[p] # FnCount
       THEN /\ Accept(p)
            /\ array' = [array EXCEPT ![found[p]] = Len(accepted')]
       ELSE UNCHANGED <<accepted, array>>
  /\ PushDone(p)
  /\ UNCHANGED stack
-----------------------------------------------------------------------------
\* exit(), quick_exit(): highlander.decrement().  Nothing increments it: who is
\* not among the first stays here for ever.
Exit(p, q) ==
  /\ CanCall(p)
  /\ Cardinality(Exiting) <= Highlanders
  /\ Goto(p, "main", "lock")
  /\ quick' = [quick EXCEPT ![p] = q]
  /\ UNCHANGED <<cxaVars, handlerVars, lockVars, slot, push, saw, found>>

\* fn_stack::pop(): h = head_
LockFirst(p) ==
  /\ Goto(p, "lock", "pop")
  /\ Enter(p)
  /\ saw' = [saw EXCEPT ![p] = stack]
  /\ UNCHANGED <<cxaVars, handlerVars, quick, slot, push, found>>

\* The stack is empty: on to the array, from its end.
PopEmpty(p) ==
  /\ saw[p] = <<>>
  /\ Goto(p, "pop", "scan")
  /\ slot' = [slot EXCEPT ![p] = FnCount - 1]
  /\ found' = [found EXCEPT ![p] = array[FnCount - 1]]
  /\ UNCHANGED <<cxaVars, handlerVars, lockVars, quick, push, saw>>

\* do_unlocked(), fn_type::resolve(): the lock is given back, a handler of
\* the right kind is called, one of the other kind dropped.
Dispatch(p, h, from) ==
  /\ pc[p] = from
  /\ LeaveLock(p)
  /\ IF h # 0 /\ accepted[h].quick = quick[p]
       THEN pc' = [pc EXCEPT ![p] = "running"] /\ ran' = Append(ran, h)
       ELSE pc' = [pc EXCEPT ![p] = "skipped"] /\ UNCHANGED ran

\* pop(): head_ = h->tail_
PopNode(p) ==
  /\ saw[p] # <<>>
  /\ Dispatch(p, Head(saw[p]), "pop")
  /\ stack' = Tail(saw[p])
  /\ slot' = [slot EXCEPT ![p] = FnCount]
  /\ saw' = [saw EXCEPT ![p] = <<>>]
  /\ UNCHANGED <<cxaVars, array, accepted, quick, push, found>>

\* Mutant of TakeSlot: the slot keeps its handler.
TakeSlotKeeps(p) ==
  /\ Dispatch(p, found[p], "scan")
  /\ found' = [found EXCEPT ![p] = 0]
  /\ UNCHANGED <<cxaVars, stack, array, accepted, quick, slot, push, saw>>

\* fn = *f; *f = fn_type().  The lock is given back for empty slots too.
TakeSlot(p) ==
  /\ Dispatch(p, found[p], "scan")
  /\ array' = [array EXCEPT ![slot[p]] = 0]
  /\ found' = [found EXCEPT ![p] = 0]
  /\ UNCHANGED <<cxaVars, stack, accepted, quick, slot, push, saw>>

Return(p) ==
  /\ pc[p] = "running" /\ CanCall(p)
  /\ Goto(p, "running", "called")
  /\ UNCHANGED <<cxaVars, handlerVars, lockVars, quick, slot, push, saw, found>>

\* Mutants of ResumeAt: the scan goes on after a handler it called; it starts
\* over after an empty slot too.
ResumeAtNext(k, called) ==
  CASE k = FnCount -> <<"pop", FnCount>>
    [] k = 0       -> <<"ending", FnCount>>
    [] OTHER       -> <<"scan", k - 1>>
ResumeAtStart(k, called) ==
  IF k = 0 /\ ~ called THEN <<"ending", FnCount>> ELSE <<"pop", FnCount>>

\* Where resolve() goes on after the handler it found at slot k: on with the
\* stack; back to the stack if a handler of the array was called; else to the
\* slot below, until there is none.
ResumeAt(k, called) ==
  CASE k = FnCount \/ called -> <<"pop", FnCount>>
    [] k = 0 /\ ~ called     -> <<"ending", FnCount>>
    [] OTHER                 -> <<"scan", k - 1>>

\* do_unlocked() ends.
Resume(p) ==
  /\ pc[p] \in {"skipped", "called"}
  /\ Enter(p)
  /\ LET next == ResumeAt(slot[p], pc[p] = "called")
     IN /\ pc' = [pc EXCEPT ![p] = next[1]]
        /\ slot' = [slot EXCEPT ![p] = next[2]]
        /\ saw' = [saw EXCEPT ![p] = IF next[1] = "pop" THEN stack ELSE <<>>]
        /\ found' = [found EXCEPT ![p] = IF next[1] = "scan" THEN array[next[2]] ELSE 0]
  /\ UNCHANGED <<cxaVars, handlerVars, quick, push>>

\* quick_exit() is through, its lock given back.
EndQuick(p) ==
  /\ quick[p]
  /\ Goto(p, "ending", "done")
  /\ LeaveLock(p)
  /\ UNCHANGED <<cxaVars, handlerVars, quick, slot, push, saw, found>>

\* exit() calls __cxa_finalize_0() before lck goes out of scope.
EndExit(p) ==
  /\ ~ quick[p]
  /\ Goto(p, "ending", "dtors")
  /\ Finalize0Lock(p)
  /\ UNCHANGED <<rtdt, dsoOf, todo, destroyed>>
  /\ UNCHANGED <<handlerVars, lockVars, quick, slot, push, saw, found>>

EndDtors(p) ==
  /\ todo[p] = <<>> /\ call[p] = NoCall
  /\ Goto(p, "dtors", "done")
  /\ LeaveLock(p)
  /\ UNCHANGED <<cxaVars, handlerVars, quick, slot, push, saw, found>>

LeaveAtExit == UNCHANGED <<handlerVars, lockVars, localVars>>

\* Static objects are built and shared objects go, in the program or in a
\* handler.
CallCxa(p, dso) ==
  /\ CanCall(p)
  /\ RegisterLock(p, dso) \/ FinalizeDsoLock(p, dso)
  /\ UNCHANGED <<rtdt, dsoOf, todo, destroyed>> /\ LeaveAtExit
GoOnInCxa(p) == (Register(p) \/ Finalize(p) \/ RunDtor(p)) /\ LeaveAtExit

\* The steps of a call that has begun.
Continue(p) ==
  \/ PushLock(p) \/ PushNode(p) \/ PushSlot(p)
  \/ LockFirst(p) \/ PopEmpty(p) \/ PopNode(p) \/ TakeSlot(p)
  \/ Return(p) \/ Resume(p)
  \/ EndQuick(p) \/ EndExit(p) \/ EndDtors(p) \/ GoOnInCxa(p)

Next ==
  \E p \in Threads :
    \/ Continue(p)
    \/ \E q \in BOOLEAN : Exit(p, q) \/ \E at \in {"stack", "array"} : PushBegin(p, q, at)
    \/ \E dso \in Dsos : CallCxa(p, dso)

\* A thread in a call is scheduled again, and handlers and destructors return.
\* fn_lock and rtdt_spl hand out tickets: who waits for one gets it once those
\* before have left (EventuallyAdmitted of TicketSemaphore).
Fairness ==
  \A p \in Threads :
    /\ WF_vars(Continue(p))
    /\ SF_vars(PushLock(p) \/ LockFirst(p) \/ Resume(p) \/ EndExit(p))

Spec == Init /\ [][Next]_vars /\ Fairness
-----------------------------------------------------------------------------
Pending == (ToSet(stack) \cup {array[i] : i \in DOMAIN array}) \ {0}

\* As long as no two threads had fn_lock at once, no handler is called twice or
\* is still registered after it was called, although push() and pop() are reads
\* followed by writes, the scan gives the lock back between a slot and the
\* next, and two threads may be in exit().
CalledOnce ==
  ~ met =>
    /\ \A i, j \in DOMAIN ran : ran[i] = ran[j] => i = j
    /\ ToSet(ran) \cap Pending = {}

\* highlander has let in one thread or none: "Only once ever will this be
\* invoked" (cstdlib.cc:126).
OneExits == \A p, r \in Exiting : p = r

\* When the one thread that called exit() has finished, every handler of its
\* kind that was accepted before, or by a handler it ran, has been called, were
\* it in a slot the scan had already passed.
AllCalled ==
  ~ met /\ OneExits =>
    \A p \in Threads :
      pc[p] = "done" =>
        \A h \in DOMAIN accepted :
          accepted[h].owed /\ accepted[h].quick = quick[p] => h \in ToSet(ran)

\* It calls handlers in the reverse order of registration: of those that have
\* to run, the one taken to be called next is the latest that is left, although
\* the stack and the array are not one list.
LatestFirst ==
  [][~ met /\ OneExits =>
       \A p \in Threads :
         LET Owed(h) == accepted[h].owed /\ accepted[h].quick = quick[p]
         IN ran' # ran /\ pc[p] # "running" /\ pc'[p] = "running" /\ Owed(Last(ran')) =>
              \A h \in Pending' : Owed(h) => h < Last(ran')
    ]_vars

\* exit() ends, although it starts over whenever a handler of the array ran,
\* unless two threads meet in a lock.
ExitEnds == \A p \in Threads : pc[p] = "lock" ~> pc[p] = "done" \/ met \/ clash
=============================================================================
