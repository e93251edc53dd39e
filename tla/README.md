# A TLA+ verification of ilias_os

ilias_os is a C++11 operating system under construction: a boot loader, a
freestanding C and C++ runtime that the loader and the kernel share, page
tables for two x86 architectures, and a virtual memory system that is being
written. All paths below are relative to `src/proper/`.

The code has few tests and, apart from comments and assertions, no
documentation. What it has is concurrency written by hand: spin locks over
modular counters, guards around static variables, storage for exceptions that
must work when memory has run out, futures, a heap that drops its lock half-way,
at-exit lists that drop theirs around every handler, the counts of `shared_ptr`.
Those parts, with the page tables, are what this project models.

- [1. The system](#1-the-system)
- [2. The modules and the code](#2-the-modules-and-the-code)
- [3. What the runs show](#3-what-the-runs-show)
- [4. Bounds](#4-bounds)
- [5. Fairness](#5-fairness)
- [6. What is proved](#6-what-is-proved)
- [7. Disagreements found in the code](#7-disagreements-found-in-the-code)
- [8. What is not modelled](#8-what-is-not-modelled)
- [9. Plan](#9-plan)
- [10. Running it](#10-running-it)

## 1. The system

### Components, state, operations

| Component | State | Operations | Used by |
|---|---|---|---|
| `abi::semaphore` (`abi/include/abi/semaphore*.h`) | ticket counter `t_`, admission counter `a_`, both wrapping words | `decrement`, `try_decrement`, `increment` | every lock below |
| `std::mutex` (`abi/src/mutex.cc`) | the semaphore `impl_{1U}`, owner tag | `lock`, `try_lock`, `unlock` | pmap, vm, cyptr, sys |
| `std::recursive_mutex` (`abi/src/mutex.cc`) | the same and `recurs_` | `lock`, `try_lock`, `unlock` | library |
| guards, `call_once` (`abi/src/abi_linker.cc`, `abi/include/mutex-inl.h`) | two bytes: lock and mark | acquire, release, abort | static locals, the loader's pmap |
| emergency exception storage (`abi/src/abi_eh.cc`) | a semaphore of 16U, slots with their users, a count per thread | allocate, free | `__cxa_allocate_exception` when malloc fails |
| `global_heap` (`abi/src/abi_ext_heap.cc`) | headers in a chain, free list, used set, a lock | `malloc`, `free`, `resize` | everything |
| future state (`abi/include/stdimpl/future_state*.h`) | state, lock, reference count, storage | set, wait, get, copy, share, drop | `promise`, `future`, `async` |
| page tables (`pmap/src/pmap_i386.cc`, `pmap_amd64.cc`) | tables in page frames | map, unmap, reduce, flush, destroy | loader, vm |
| loader page allocator (`loader/include/loader/page-inl.h`) | free frames | allocate, deallocate | page tables |
| reverse map (`pmap/include/ilias/pmap/rmap*.h`) | per page, the places that map it | (de)register, unmap, reduce | vm pages |
| at-exit handlers (`abi/src/cstdlib.cc`, `abi_linker.cc`) | a stack, an array, a lock, a table of destructors | register, resolve, finalize | `exit`, static and shared objects |
| `shared_ptr` ownership (`abi/include/stdimpl/shared_ptr_ownership*.h`) | strong and weak counts | acquire, release, lock | library |
| vm pages, allocator, cache (`vm/src/vm_page*.cc`) | flags with a busy bit, lists, zones | busy lock, flags, move between zones | vm maps |
| vm maps (`vm/src/vm_anon.cc`, `vm_cow.cc`, `vm_vmmap.cc`) | entries, maps | fault, copy, share, release | kernel |
| cycle-collecting pointers (`cyptr/`) | generations, edges, counts | link, mark and sweep | nothing yet |

The remaining parts (library, mathematics, cryptography, name utilities,
processor instructions, loader `main`) keep no state that outlives a call or
that several threads share; `PROJECT.json` lists them with the reason.

### How they interact

- Calls. The mutex is the semaphore and a tag; the heap, the exception storage
  and the at-exit lists each hold a semaphore. `call_once` is the guard that the
  compiler emits for static variables. Page tables call the page allocator
  and, while they fail, undo what they took.
- Shared memory. All of the above are called by several threads, and the
  atomic words are the only communication. There is no scheduler yet to
  block on: every wait is a loop that reads an atomic.
- Locks held across calls. `exit` runs the destructors of static objects with
  the handlers' lock held, and gives it back around each handler.
- Callbacks. `call_once` runs the caller's function, which may throw, under the
  guard; the heap calls `heap_malloc` with its lock released; a deferred
  future runs its function in whichever thread waits first.
- Hardware. The processor writes accessed and dirty flags into page table entries.

A failed assertion (`assert_msg`) panics: it prints and spins, in the thread
that failed. Assertions are enabled in the builds of the tree. Threads other than
the one that panics go on, and so they do in the models.

### What is hard

1. Interleaving. Each access of an atomic is a step; what was read may be
   stale when it is used (`try_decrement`, the owner tag, `call_once`'s
   unlocked look at the mark, `wait`'s copy of the state, the heap around
   `heap_malloc`).
2. Arithmetic at a boundary: counters that wrap, a window of half the range, an
   unsigned difference, a recursion count at its maximum, a skip count.
3. One step of several failing: an initialiser that throws, an exception slot
   that is not there after the counts were raised, a second table for which no
   frame is left.
4. References: the last one may be dropped by any of several parties.
5. Progress: spinning threads must come through once what they wait for is done.

The list of hazards in `PROJECT.json` has each at its line with the properties
aimed at it, or why none is.

### What makes each component correct

| Component | Correct means |
|---|---|
| semaphore | units are neither made nor lost; first come, first served; a free unit is taken by whoever waits; everyone is served; in short, a counting semaphore |
| mutex | one owner; the tag says who; an assertion fails only for a thread that came while it was owned |
| recursive_mutex | the count is the owner's nesting, and zero for the next owner |
| guard | one thread runs the initialiser; it completes once; the mark means it did; whoever waits returns |
| exception storage | counts and units account for every slot and every call half-way; nobody waits for a unit while having slots |
| heap | blocks are disjoint, inside memory given to it and aligned as their callers asked; headers tile it; room is not forgotten; what is freed joins up again |
| at-exit handlers | one thread exits; each handler owed runs once, the latest first; each destructor is in the table, taken, or run; `exit` ends |
| `shared_ptr` | both counts are exact at every step; the object lives as long as its owners, the block as long as anything refers to it; each is destroyed once |
| future state | references are exact, nobody touches a destroyed object, it is set once, a deferred function runs once |
| page tables | they translate as the last calls asked, and a range that is unmapped takes its pages and no others; frames are neither leaked nor shared; marks of the processor are kept |

## 2. The modules and the code

| Module | Extends | Models |
|---|---|---|
| `SemaphoreWord` | | arithmetic on the words of the semaphore: wrap, difference, window |
| `TicketSemaphore` | `SemaphoreWord` | `abi::semaphore` |
| `CountingSemaphore` | | abstract: a set of holders, at most V + 1 |
| `Mutex` | `TicketSemaphore` | `std::mutex` |
| `RecursiveMutex` | `Mutex` | `std::recursive_mutex` |
| `OnceGuard` | | `__cxa_guard_*` and `std::call_once` |
| `EmergencySlots` | | the emergency storage of exceptions |
| `HeapOps` | | the heap's algorithms as operators on a record |
| `GlobalHeap` | `HeapOps` | the heap's calls, by several threads |
| `Allocator` | | abstract: disjoint blocks in memory given to it, each aligned as it was asked for |
| `FutureState` | | `std::impl::future_state` and its handles |
| `PageTable` | | the i386 page tables, the loader's page allocator, the processor |
| `AddressSpace` | | abstract: a function from virtual pages to page and rights, and the range that is being unmapped |
| `CxaAtExit` | | the table of destructors of `__cxa_atexit` |
| `AtExit` | `CxaAtExit` | `atexit`, `at_quick_exit`, `exit`, `quick_exit`, and who calls the table |
| `SharedPtrOwnership` | | the counts of `shared_ptr` and `weak_ptr` |
| `MutexProof` | `RecursiveMutex` (so `Mutex`, `TicketSemaphore`) | theorems about the semaphore, the mutex and the recursive mutex |
| `OnceGuardProof`, `EmergencySlotsProof`, `GlobalHeapProof`, `FutureStateProof`, `PageTableProof`, `AtExitProof` | the module named | theorems about it |
| `SharedPtrProof` | `SharedPtrOwnership` | theorems about it |
| `MC*` | one each | constants for TLC |

Actions have the name of the function or of the atomic access they model; `pc`
(or `st`) says where a thread is in a call. The definitions that model code are mapped
to their lines in `PROJECT.json`. Some definitions come in pairs: `Admit` is
the code, and a definition before it with the same parameters
(`TryLoadTUnchecked`, `ReleaseEarly`) is the code with a slip that could be
made in it. Those are part of no specification; each shows that a property
would notice.

**TicketSemaphore.** `decrement` is `DrawTicket` (the `fetch_add` on `t_`) and
`Admit` (the load of `a_` that ends the loop); the loads that do not end it
change nothing. `try_decrement` is `TryLoadA`, then `TryLoadT` or
`TryRefused`, then `TryCas`, or `TryCasLost`, which
returns false as well: there is no retry. `increment` is one
`fetch_add`. The words have W values instead of 2^32, the window stays half of
them. `reg` is the local variable that holds a value between two accesses. The
module implements `CountingSemaphore`, with capacity **V + 1** for a semaphore constructed
with V: `decrement` spins while `a - ticket > wnd`, which lets the ticket equal to
`a` in. Everything built on the semaphore has to live with that capacity.

**Mutex.** `lock` is the semaphore's `decrement` and then the exchange of the tag
(`SwapTag`); the assertion that the tag was empty is a disjunct that halts the
thread. `unlock` is the exchange back (`ClearTag`) with its assertion, and
`increment` (`Post`). `lock` by the owner leaves by the
`resource_deadlock_would_occur` exit before it. The actions are conjoined with those of the
semaphore, so nothing is assumed of it. Callers are `unique_lock`s: a thread
unlocks what it locked.

**RecursiveMutex.** The mutex's actions with the count; nested calls neither touch
the semaphore nor the tag. R is the greatest value of `recurs_`. `depth` is a
history variable: the calls that the thread has returned from and not undone.
`leaving` are the threads between the last decrement of the count and the exchange
of the tag. The run of this module is the run of the mutex as well: with
`depth` never above one its steps on the semaphore and the tag are those of `Mutex`.

**OnceGuard.** The guard's byte lock (`mtx`) and mark (`mark`), the fast path of
`call_once` that reads the mark without the lock, `Check` under the lock,
`RunReturns` and `RunThrows`, release and abort. `object` is history: what
the initialiser has done.

**EmergencySlots.** The thread-local count is raised before its limit is tested
(`Count`), then a unit of the semaphore, then the scan over the slots, with the
way back when none is left (`GiveUp`). A slot is freed by whoever finds
its user in it, then `Uncount`, then the unit. `Late` of a thread are the releases of its
slots, by others, that have not lowered its count yet; `Posting` are the units on the way back. The semaphore is taken as the abstract one, of
capacity V + 1, which `TicketSemaphore` is shown to implement. Threads are the ones of the
program; exceptions may be handed from one to another.

**HeapOps, GlobalHeap.** `heap` is a record of the headers by address (`seg`: root, used, bytes
used, bytes free), the chain (`chain_`), the free list (`free_`) and the used set. The operators are
`align`, `try_claim_` with its two attempts (`ClaimDirectly`; `ClaimBySplit`, which is `try_split`),
`allocate_from_free_` (`FirstFit`), `release` and `pred_merge` (`Freed`), `resize`, and the linking of a
new root (`WithArena`). Memory is measured in small units: a header takes `Mas` = 6 and is aligned
to `MemAlign` = 2 where amd64 has 56 and 8. `allocate` is `Allocate` under the
lock, `HeapMalloc` or `HeapMallocFails` without it, `AllocateAgain`
under it; `free` and `resize` are one step each, because all they do is under
the lock. The lock is a semaphore of 1U, which admits two (section 7):
GlobalHeap describes the heap with a lock that excludes, which is what the
code means, and what it has as long as two threads do not meet there. The module
implements `Allocator`: a block handed out is inside memory of the heap,
disjoint from all others and starts at a multiple of the alignment that its own
caller asked for, and no other call changes a block. `live` keeps with each block
what its caller asked for and got; the heap itself does not remember it.

**FutureState.** The object is one record of variables; handles belong to threads;
the promise is shared. The setters are `SetBegin`, `Lock`, `Check` (the state
under the lock), `Publish` (construction, then the state) and `Unlock`.
`wait` is a loop of `WaitLoads`; for a deferred object the first thread that locks
runs the function (`Invoke`). `Release` drops a reference and `Destroy` is the last
one's. `lck_` and `shared_` have no initialiser in the code
(`future_state.h:66`): `Init` leaves them open, and properties about progress
are about the storage that happened to be zero.

**PageTable.** `Frames` is what the loader's allocator holds before the first map: the
whole pages of the ranges that the firmware reports, clipped and less the
loader's own (`RangePages`, `LoaderPages`). The tables of three levels with `NPdpe`, `NPdp` and `NPte` entries, in the
frames that the allocator gave for them, and the processor that sets accessed and dirty
flags (`CpuReads`, `CpuWrites`). `marks` is what was passed on to the page. The class has no lock, and its
callers are taken to exclude each other (section 8); the processor is not held off by a lock. `Map`, `MapFails`
(no frame for the second table: the first is given back) and `Destroy` are one step. `unmap` and
`reduce_permission` read the flags of an entry (`pmap_i386.cc:460`, 265), pass them on, and store the entry afterwards
(465, 275): `UnmapRead` and `UnmapClear` for each page, `ReduceRead` and `ReduceStore`, with the processor between
them. `call` is the call under way and what it has read. `flush_accessed_dirty` is one step because it takes the
flags with one atomic operation, `fetch_and` in `clear_ad_flags` (`x86_shared-inl.h:416`), the only
one of the class. `reduce_permission` is modelled with `update_ad` true and false; false is the default of the interface
(`pmap_i386.h:34`). `UnmapBegin` takes n pages and works out which of them the
loops of the code visit, which consume the count in skips for absent entries (`Skip`, `Visited`). Its
ranges lie within one table (`InOneTable`), as those of the callers in the tree do, which ask for one page
(`rmap-inl.h:82`); of ranges that cross a table the promise would not hold (section 7). The module
implements `AddressSpace`, with the rights as the code computes them: `unmap` takes all pages of its range, and no
step takes a page outside it. `Nothing`, what an unmapped page
translates to, is no translation (`NothingAssumption`).

**CxaAtExit, AtExit.** `rtdt` is the table. A call takes `rtdt_spl` and reads the table in one step
(`RegisterLock`, `FinalizeDsoLock`, `Finalize0Lock`), and stores what it makes of it and leaves in another:
`Register` is the rest of `__cxa_atexit`; `Finalize` takes entries out (`Take`, the compaction of the
table included) and `RunDtor` runs what was taken, one by one, without the lock;
a destructor may register another. In `AtExit` a handler goes on `stack`, or into
`array` when there was no node for it and the stack is empty (`PushNode`,
`PushSlot`). `push()` and `pop()` read `head_` and the array when they get the lock (`saw`, `found`) and write
them before they leave. `resolve()` is `PopNode` and `PopEmpty`, `TakeSlot` from the last
slot down, and `Resume`, which takes the lock again and goes on with the stack, the
slot below, or from the start if a handler of the array was called (`ResumeAt`).
`Dispatch` gives the lock back for every slot, empty ones too. A handler that runs is a
place where the thread may register handlers and destructors. `accepted` is
history: what kind each handler is, and whether it is `owed`, that is, was accepted before any
`exit` or by a handler that `exit` runs; what other threads register while `exit`
runs need not be called.

`fn_lock`, `rtdt_spl` and `highlander` are semaphores of one unit, and are modelled with what such a semaphore
admits: two threads. Two may be in `exit` at once; two may be in either lock at once, which the history variables
`met` and `clash` record. From there on the code works with nodes that the other thread has freed
(`cstdlib.cc:106`) or on words of the table that the other is moving, finer than the two steps of a
call; that is not followed, and the properties claim nothing of it. What they say up to there rests on no
assumption about the locks, and `OneExits` is the condition for those that two exiting threads break (section 7).

**SharedPtrOwnership.** One ownership block, and every `shared_ptr` and `weak_ptr`
object that may refer to it as a process (`at`). A copy raises `refcount_` and then
`shared_refcount_`, a destructor lowers them in the opposite order; `lock()` is
`LockBegin`, the compare-and-swap loop `TryAcquire`, `TryAgain`, `TryRefused`, and gives back
what it took when the object has expired. The conversion of a `weak_ptr`
takes a strong reference for the cast (`ConvertBegin`; `MoveConvert` when the source is moved from and nothing is counted first), which may become the last.
`self` is the reference that `enable_shared_from_this` has inside the object; it goes in the
middle of the last owner's `release_pointee()` (`RunDestructor`). An assignment or a
`reset()` is a temporary that is constructed, swapped and destroyed, as in the code.

## 3. What the runs show

Sizes are distinct states found by TLC.

| Run | States | Shows |
|---|---|---|
| `semaphore` | 10,704 | With three threads and counters that wrap: `UnitsConserved` (the counters account for every thread that holds or waits), `NoBarging` (a ticket is admitted only after those before it), `EventuallyAdmitted`, `ImplementsCounting` (the abstract semaphore of V + 1 units, its strong fairness included) |
| `mutex_assert` | | `AssertionsHold` is violated (section 7) |
| `recursive_mutex` | 161,168 | `MutualExclusion`; `TagIsExact` (until the first stop the tag names the thread inside); `StopIsContention` (a thread halts only on a full count or because the semaphore let in another one too); `CountIsDepth` (the count is the owner's nesting and is never left over); `RecTypeOK` (nor does it pass its maximum R) |
| `once_guard` | 247 | With four callers: `OneInside`, `MarkMeansBuilt` (the unlocked reader sees a finished object), `BuiltForGood` (no second initialisation), `EverybodyReturns` (once it is built nobody waits on) |
| `emergency` | 18,061 | Four threads over four slots: `CounterExact`, `UnitsExact`: thread counts and units equal slots held and calls under way, also when the scan fails; `NoHoldAndWait` (who waits for a unit has no slot, so that threads that have units never wait for each other). None of them claims the numbers that the comments give (section 7) |
| `heap` | 434,141 | Two threads, two arenas of different size in either order: `Tiled` (headers cover the arenas without gap or overlap), `OnePieceAgain` (with no block left each arena is one free piece), `NothingForgotten` (a header with room behind it for another is on the free list), `ImplementsAllocator` (each block starts at a multiple of the alignment that its call asked for, inside memory, clear of all others) |
| `heap_wide` | | `Connected` is violated with an alignment larger than a header (section 7) |
| `future` | 69,254 | Three threads that set, wait, copy, share and drop: `RefcntExact`, `NoUseAfterDestroy`, `StorageMatches` (the state says what is constructed), `SetOnce`, `DeferredOnce`, `DeferredWaitEnds` |
| `page_table` | 255,840 | Tables that run out of frames, a processor that sets flags between a call's read and its store: `FramesExact` (each frame is free or one table, referred to once), `NoEmptyTables`, `MarksPassedOn` (a flag that a call has read in an entry is with the page when the entry is stored; which flags are lost, and why, is in section 7), `ImplementsAddressSpace` (`unmap` takes every page of its range and no other) |
| `page_table_rights` | | `ParentsPermit` is violated (section 7) |
| `at_exit` | 352,717 | Two threads that register, and of which one or both exit. Until they meet in `fn_lock`: `CalledOnce`; and if one exits, `AllCalled` (also a handler in a slot the scan had passed), `LatestFirst` (over both containers). Until they meet in `rtdt_spl`: `DtorsAccounted` (each destructor is in the table, taken by one thread, or run once), `DtorsReversed`. Until they meet in either: `ExitEnds` (although it starts over) |
| `shared_ptr` | 56,532 | Six pointer objects: `CountsExact`, `PointeeOutlivesOwners`, `BlockOutlivesUsers` |

Every property of a passing run has a mutant: a definition of the model
replaced by one with a plausible slip, under which TLC finds that property
violated. A property that no such slip breaks is not kept.

Deadlock is checked except where the program may stop: all threads of
`mutex_assert` and `recursive_mutex` may have panicked, `heap_wide` likewise;
threads of `at_exit` that have called `exit` spin and the last pointer of `shared_ptr` may be gone;
`once_guard` has nothing left to do after the object is built; the future may be gone,
or wait for a promise that was dropped without a value.

## 4. Bounds

| Constant | Value | Why it is enough |
|---|---|---|
| threads | 2 to 4 | the third waits behind a waiter, overtakes, or is there when two race; the guard's fourth keeps a queue behind a failed initialiser |
| `W` | 16 | counters wrap within a few calls; the window of 8 has room for all threads and `MaxLag` on each side |
| `MaxLag` | 2 | how far others run ahead of a stopped thread. `WindowAssumption` demands that the window has room for it and for all threads. For the code this says that a thread is not stopped between two accesses of one call while 2^31 operations pass |
| `V` | 0 (semaphore), 1 (mutex, emergency) | the smallest at which the capacity V + 1 shows; 1 is what the mutex has |
| `R` | 4 | the maximum of the recursion count, reached and refused |
| `NSlots`, `Limit` | 4, 2 | two threads may have slots, of three each (`Limit` + 1 passes the code's test): scans fail; two more threads wait, and release what others hold |
| heap `Arenas` | two, of 32 and 16 units, with adjacent addresses, handed out in either order | a merge across arenas would show; the larger has room for two blocks with their headers, the smaller for one |
| `Sizes`, `Aligns` | {0, 5}, {1, 4} | zero bytes; a size that is rounded up; no alignment; one above `MemAlign` and below a header, as the code's callers use; `heap_wide` has 8, above a header |
| `MaxAlloc`, `FreeW`, `SizeW` | 60, 256, 1024 | the limit of a request and the widths of the header's fields, above the arenas, so that only differences can wrap |
| `Physmem`, `Base`, `Limit`, `KernelStart`, `KernelEnd` | two ranges in bytes | ends inside pages, clipping at both bounds, and the loader inside the second: frames 1 to 4. The ranges are assumed disjoint |
| tables | 2 x 2 x 2, 4 frames | two entries per table are the least with "one gone, one left"; four frames are fewer than the six tables that a full pmap of that size needs |
| `MapAt`, `TouchAt` | {0, 1, 2, 4}, {0, 1} | two pages of a table, one in the next table, one under the next top entry; marks on two neighbours |
| `MaxUnmap` | 2 | a range that is a whole table, one page of it, and with pages missing in front or behind |
| `FnCount`, `MaxHandlers` | 2, 2 | the scan passes a slot and comes back to it; both handlers may be in the array, on the stack, or one in each |
| `FnLockUnits`, `Highlanders`, `RtdtUnits` | 1, 1, 1 | what the code constructs them with: each admits two threads |
| `TableLen`, `MaxDtors`, `Dsos` | 2, 2, two | a table that is full, and compacted in front and behind |
| `MaxRegistered` | 3 | handlers and destructors together: two of either kind with one of the other |
| `Bounded` (`MCAtExit`, a CONSTRAINT) | | the bound above, and `~ met /\ ~ clash`: the state in which two threads meet is checked and not gone on from, because the properties say nothing of what comes after |
| `Pointers` | 6 | an owner, a copy, a `lock`, a conversion and a converting move in progress, and one to copy from; the proofs are for any number |

The calls' arguments are drawn from these sets at every step, so that sequences
of calls of any length over the finite state are covered. Symmetry under
permutation of threads is used where no liveness is checked.

## 5. Fairness

- `TicketSemaphore`: weak fairness on `Admit`, on the steps of `try_decrement`, and on
  `increment`. A thread in a spin loop or between two instructions is
  running, and the code between `decrement` and `increment` of the locks is bounded.
  `DrawTicket` is not fair: nobody need call. The strong fairness of the abstract
  `Grant` is a consequence of tickets being admitted in order.
- `OnceGuard`: weak fairness on a thread's steps inside, the initialiser's end
  included (a callable that does not end is its caller's problem). The
  compare-and-swap that takes the byte lock is not fair to any one thread;
  `EverybodyReturns` is therefore stated for the time after the object is built, when
  holders only leave.
- `FutureState`: weak fairness on what a thread does once it is in a call. Handles
  need not be used or dropped.
- `AtExit`: weak fairness on the steps of a call that has begun, the return of a handler included: handlers
  and destructors end. Strong fairness on getting `fn_lock` and `rtdt_spl`: they hand out tickets, so that a
  waiter is not passed over for ever (`EventuallyAdmitted`). Nobody need register or exit.
- The others state safety only, and no fairness.

## 6. What is proved

The theorems hold for every value of the constants that the named assumptions of
the modules allow. Those are few: finite sets of threads (or pointers), naturals, and
`WindowAssumption`, which says that nobody is stopped inside a call while half the range
of a word goes by. Eight modules hold the proofs. `PROJECT.json` lists every theorem.

**Semaphore** (`MutexProof`, first part). `UnitsConserved` is not inductive: a stale register of
`try_decrement` could stand for any ticket. `SemInv` adds `TicketsSpun` (each ticket
between those reached and `t_` has a thread that spins for it), `SpinnersNear` (a thread that
spins was passed no more than `MaxLag` ago, or its ticket is one of those) and `TriesNear` (a
value that `try_decrement` has read is no more than `MaxLag` behind). Distances between
counters are those of `Ahead`, a modular difference without `%`: the lemmas about it are where
`WindowAssumption` is used. From `SemInv`:

- **UnitsCorrect** (`UnitsConserved`), **SemTypeCorrect**;
- **CapacityHolds**: at most V + 1 threads are inside. N threads are out, in the queue
  or inside. If N exceeds V + 1, the N - V - 1 tickets after `a_` are not
  reached, and distinct threads spin for them, so that the rest are V + 1. The extra one is the ticket
  equal to `a_`, which the comparison in `decrement` admits;
- **InOrder** (`NoBarging`), and **RefinesCounting**: initial states and steps are those of
  `CountingSemaphore` or stutters, the safety part of `ImplementsCounting`.

**Mutex** (`MutexProof`, second part). **Exclusion**: `MutualExclusion` is not inductive:
it says nothing of the tag, and a thread enters by finding the tag empty. The invariant adds
`TagGuards`: when a thread is inside, the tag is not empty. Whoever empties the tag in `unlock` was inside
and no longer is, whether its assertion holds or halts it; a thread whose assertion in `lock` fails
leaves the tag set. The proof does not use the capacity of the semaphore, and
could not: two threads get through it. **TagCorrect** is `TagIsExact`, **TypeCorrect** the types.

**Recursive mutex** (`MutexProof`, last part). The semaphore and the tag are those of the two proofs above.
`CountIsDepth` needs that the count is zero while the tag is clear (`FreeIsZero`),
and that a thread on its way out has no nesting left (`DepthsEnd`). **CountCorrect**,
**RecExclusion**, **RecTagCorrect**, **RecTypeCorrect**; and **FirstCountSucceeds**: the assertion at
`mutex.cc:67` never fails. **StopsExplained** is `StopIsContention`. The thread that explains a stop
changes: it was inside, and has stopped itself since. The invariant `Stopped` adds that the tag names a
thread inside or a stopped one, that a thread inside whose tag was overwritten has a stopped
thread to show for it, and that what explains a stop is stopped itself or is inside without its tag, so that
it cannot leave otherwise than by stopping.

**Guards** (`OnceGuardProof`). The invariant says that at most one thread is between the two accesses
of the lock byte, and what the object is at each place there (`Stages`).
**Exclusion** (`OneInside`), **MarkIsTrusted** (`MarkMeansBuilt`), **BuiltOnce** (`BuiltForGood`).

**Exception storage** (`EmergencySlotsProof`). Equations between cardinalities: slots of a user, late
releases, threads that use slots. `Discipline` says what a thread at each place owns. A step changes
one element of one or two of these sets; the finite set theorems do the rest.
**CounterCorrect**, **UnitsCorrect**, **WellTyped**, and **NeverHoldAndWait** (`NoHoldAndWait`): a thread that waits
was at zero before its call, and `CounterExact` says that its slots and late releases are zero with it.

**Future state** (`FutureStateProof`). The invariant adds to `RefcntExact` what each call holds
while it lasts (`Calls`), that the object exists while there is a reference (`Lives`), what the storage
is in each state (`Contents`), and who may run the function (`Claims`).
**CountCorrect**, **SafeDestruction**, **StorageCorrect**, **RunsOnce**, **OutcomeOnce**, **WellTyped**.

**shared_ptr** (`SharedPtrProof`). The three properties of the run, with `SourceStays` (an object that is
being copied keeps its place) and `SelfLives`, are inductive together and not alone: that a count is
exact tells the destructor that it is the last; that the last is alone keeps the
count exact. **ExactCounts**, **PointeeLives**, **BlockLives**, **WellTyped**, and
**DocumentedInvariant**: `0 <= shared_refcount_ <= refcount_`, as `shared_ptr_ownership.h:21` says.

**Heap** (`GlobalHeapProof`). The state is four structures that overlap. The invariant takes them apart:

- `Layout`: the headers' addresses D and the ends E of their spans, the roots R and the chain c form a
  `Tiling`: spans do not overlap (`Ordered`), each lies in an arena that is linked (`Housed`), the roots are
  the arenas' bases (`Rooted`), and from one position of the chain to the next either the span ends where the
  next header is, or an arena ends and the next header is a root (`Chained`, `Follows`). Nothing in it is recursive:
  `Follows` relates neighbours. Splitting, merging, linking and obtaining are lemmas about a `Tiling`
  (`TileSplit`, `TileMerge`, `TileArena`, `TileObtain`), without the heap.
- `Headers`: a header that is no root is in use; a header not in use has no bytes in use; what is in use is in the
  used set.
- `Roomy` and `Listed`, the two directions of the free list: what is on it has room for a header or is a root that is
  free; what is not on it has no room to give, and a free root that is not has given its space to a header
  that is no root and begins where its own span ends. That last part is what brings it back when that header is freed.
- `Waiting`: memory that a thread got from `heap_malloc` and has not linked is in no other thread's hands, and no header is in it.

TLC agrees with the whole of it over the states of run `heap`. From it **TiledHolds**, **OnePieceAgainHolds**,
**NothingForgottenHolds** and **RefinesAllocator**: `ImplementsAllocator`, all of it, since neither specification has
fairness. A block carries the alignment of its own request, and `align` is what makes its address a multiple of it. There are two hypotheses. `ArenasFit`: the 32 bits of `bytes_free_` can count
an arena. `NoGaps`: `MemAlign + al <= Mas`, and the header that is split off a fresh root goes right behind the root's own.
Without it `try_split`'s difference wraps (`heap_wide`, section 7). **AlignedMemory** (a lemma)
derives it from what `abi/include/abi/_config.h:39` asks of `heap_malloc`, memory "aligned to alignof(max_align_t)",
when the alignments divide two headers. `heap::malloc(sz)` asks for 16 at most (`abi/src/abi_ext_heap.cc:519`) and
two headers have 112 bytes on amd64. Memory at 8 modulo 16 would make the difference wrap even then.

**Page tables** (`PageTableProof`). For tables of any size (nothing needs 4, 512 and 512), any memory, one call at a time
and a processor that sets flags between its steps. The invariant is `Sound`, and what the call under way has read:

- `Dirs` and `Tabs`: an entry that is present in the top table, or in a table of the second level, refers to a frame
  that is not free, holds a table of the next level, and has an entry itself;
- `Apart`: no two entries refer to one frame, of the same level or not;
- `Covered`: a frame that nothing refers to is free; `Leaves`: the last level refers to pages that callers map.

`FramesExact` counts frames and would not be inductive alone: that a table given back was the only one
to lose its entry takes `Apart`. Steps come in two kinds, stated for tables before and after and not for
the calls: entries along one path are written (`Written`), or entries are cleared with the tables
that this leaves empty (`Cleared`). Each call is shown to be one of them, and says for each page whether its entry was
given, taken or left alone (`Given`, `Taken`). The arithmetic of an index in three parts is needed once: different
pages differ in one of their parts (`PartsApart`). TLC agrees
with the invariant over the states of run `page_table`. From it **FramesExactHolds**, **NoEmptyTablesHolds**,
**MarksPassedOnHolds**: between the read and the store of a call the entry's flags can only grow, and what the call
has read is in `marks` already.

**RefinesAddressSpace** is `ImplementsAddressSpace`, all of it. Its hard step is that `unmap`
of n pages visits the mapped pages of its range and no others. `Visited` gives each table what the count has
left when it is reached, a recursive function on the numbers of the tables. For a range of one table the count is
used up there: where the table is there, its entries from the offset on are the range; where it is missing, or its directory is, the skip
takes off the count no less than what the range has, and no page of it is mapped. `map` and `reduce_permission` need that the flags of an entry stand for the rights asked for and those implied
(`RightsAre`). The flags of the directory entry above play no part in it: a page can be
mapped writable here and not be (`ParentsPermit`, section 7).

**At-exit handlers** (`AtExitProof`). The theorems assume nothing of the units of the semaphores: each admits one thread more
than it has units, whatever these are. The conditions are in the properties and are about the behaviour: that no two threads
have had the lock at once (`met`, `clash`), that one thread is in `exit` (`OneExits`). The invariants are implications
as well (`Apart`, `DueApart`, `CxaApart`): `met` and `clash` never fall back, so that a state without them comes from one without, where
the invariant may be used; and a step that keeps `met` false has let a thread in only where nobody was (`LockAlone`,
`UnlockAlone` for `rtdt_spl`).

`Apart` says that a handler is in one place, the stack, one slot or the list of those called (`Placed`), that whoever is inside
`fn_lock` has read the stack as it still is (`Locked`) and the slot as it still is (`Found`). The reads and writes of
`push()` and `pop()` are steps apart, so this is not for free: **LockDiscipline** states it, **CalledOnceHolds** follows.
Two threads may be in `exit` here.
**AllCalledHolds** and **LatestFirstHolds** need that one is: what is owed stays where it can be found (`Kept`); once the scan of
the array has begun nothing owed is on the stack, nor in a slot
it has passed (`Scanned`); the stack is newer than the array, and what is owed lies in the array in order, without
an empty slot below it (`Ordered`). Two exiting threads break the first of these: each drops the handlers of the other's kind.

**DtorsAccountedHolds** and **DtorsReversedHolds** are about `__cxa_atexit`'s table. `Calls` says that who
has `rtdt_spl` has it alone and has read the table as it still is; so storing it is changing it, and `TakenOut` says
turn by turn what the loop that compacts the table keeps and what it takes. An induction over
those turns would need a theorem with an operator as its parameter; the proofs take the least number of a set
of counterexamples instead (`LeastOf`, `CountUp`).

Model-checked only: all liveness (`EventuallyAdmitted`, `EverybodyReturns`, `DeferredWaitEnds`, `ExitEnds`) and the
fairness in `ImplementsCounting`, which the prover does not do.

## 7. Disagreements found in the code

1. **The semaphore of one admits two** (`mutex_assert`). `mutex` has `impl_{1U}` and
   asserts after `decrement` that the tag is empty, "Mutex corrupted."
   (`abi/src/mutex.cc:26`). `decrement` (`abi/include/abi/semaphore-inl.h:17`) lets the ticket
   equal to `a_` in, so the second caller of `lock` gets past it while the first
   is inside, fails this assertion, and has changed the tag, so that the first
   fails that of `unlock` (line 42). The same capacity, from the same line 17, contradicts what the code says in other places, which
   no run of their own repeats:
   - `abi/src/cstdlib.cc:126`, `highlander{1}`, "Only once ever will this be invoked": two threads are let into `resolve()`. If one is in
     `exit` and the other in `quick_exit`, each pops handlers that are the other's and drops them. `AllCalled` without
     `OneExits` fails, in a trace of 15 states: a handler for `quick_exit` is popped by the thread in `exit`, and `quick_exit` is
     through without it.
   - `abi/src/cstdlib.cc:27`, `fn_lock{1U}`: two threads in `fn_stack::pop()` read one `head_`. `CalledOnce` without `~ met` fails,
     in a trace of 10 states: a handler is called by both. Two pushes lose a handler the same way, and a node is freed under its reader.
   - `abi/src/abi_linker.cc:25`, `rtdt_spl{1U}`: two calls of `__cxa_atexit` fill one slot. `DtorsAccounted` without `~ clash` fails,
     in a trace of 5 states: one of two destructors registered at once is not in the table.
   - `abi/src/abi_ext_heap.cc:97`, the heap's `lock_{1U}`.
2. **try_split's difference** (`heap_wide`). `fp_size - off` at
   `abi/src/abi_ext_heap.cc:215` is unsigned and nothing checks `off <= fp_size`. With
   an alignment larger than a header, and a header on the free list with
   little room, the aligned address is past the room, the difference wraps and
   a header is linked over its neighbour. `pred_merge` asserts what no longer holds (267).
3. **apply forgets the record** (`page_table_rights`). `flags::apply`
   (`pmap/include/ilias/pmap/x86_shared-inl.h:142`) starts from empty flags. Mapping a read-only page
   beside a writable one clears the write right of the directory entry above both; the
   comments at line 116 and at `pmap/src/pmap_i386.cc:277` say that entries above keep
   all rights.

Three more are described and not run as violations; the properties of the passing runs are worded so as not to claim the opposite.

4. **Five exceptions, seventeen threads.** `abi/src/abi_eh.cc:97` tests `use <= 4U` with the value from before the
   call, which lets a thread take a fifth slot, where line 180 says "max allowed by abi is 4"; and line 33's "# threads
   that can use emergency buffers", `{ 16U }`, lets 17 use them. `EmergencySlots` has both as the code
   has them: Limit + 1 slots, V + 1 threads. No property of the run is about these numbers.
5. **Flags lost between read and store.** `unmap` and `reduce_permission` read an entry's accessed and dirty flags
   and store the entry afterwards with a plain assignment (`pmap/src/pmap_i386.cc:460` and 465, 265 and 275). A flag that the
   processor sets in between is in neither the entry nor the page. `flush_accessed_dirty` has an atomic operation for this
   (`x86_shared-inl.h:416`) and the other two do not use it. With `update_ad` false, the default (`pmap_i386.h:34`),
   `reduce_permission` drops all of them: `combine` starts from empty flags (point 3). `MarksPassedOn` names these two losses, and
   that `map` replaces an entry, as the only ones there are.
6. **Ranges across tables.** `unmap_` does not reset `pte_off` when it comes to the next table (`pmap/src/pmap_i386.cc:410`, 451):
   pages of a range stay mapped, and pages behind it go. Without `InOneTable` in `UnmapBegin` the run finds
   `ImplementsAddressSpace` violated. No caller in the tree asks for more than one page.

## 8. What is not modelled

- Memory order: atomics are sequentially consistent in the models. The code
  asks for weaker orders; on x86, where it runs, the exchanges and additions are full fences.
  `shared_ptr` lowers its counts with release order and no acquire before
  the destructor, which only such a machine forgives.
- Threads stopped for 2^31 operations inside a call (see `MaxLag`).
- `packaged_task`, `wait_until`, the thread branch of `async` (compiled out);
  unwinding; the named heaps around `global_heap`, which count and forward.
- Large pages, `kva_map_self`, `push_back`, and the translation cache of the processor. Two calls of one pmap at
  once: nothing in the class excludes them, and `vmmap-inl.h:828` would make them (see the plan).
- What happens in the lists of handlers and in the table of destructors after two threads have met in their
  locks. What a call does under the lock is a read and a write of the whole, not of single words; until two meet
  that is the same.
- `exit` called by a handler (undefined in C and C++), and destructors that call `atexit` while `exit` runs them.
- The heap with two threads in its lock.
- The amd64 page tables: the first `map` of an empty pmap releases a `page_ptr`
  twice (`pmap_amd64.cc:483` and 492) and fails its assertion.
- vm, the reverse map, cycle-collecting pointers: see the plan. vm and parts of cyptr are written
  over `ilias_async`, whose sources are not in the tree. The map's shards (`vmmap_shard`)
  read behind the end of their sets in `get_range`, `map_link_` and `free_list_`.
- Deleters, allocators and aliasing pointers of `shared_ptr`; the `atomic_*` functions for
  it, which do not compile.
- The linked containers. The tree of `linked_set` reads a child that is null in `rotate_`, does not repair
  the neighbours in `node_swap_`, and unlinks a red node by returning: a model would show what
  reading does.
- The library, mathematics, cryptography: pure functions of their arguments, of the size of a book. They are
  the largest part of the tree by lines and keep no state between calls.

Observations made while reading that no run states:

- `abi/src/mutex.cc:73`: `recursive_mutex::try_lock` is noexcept and throws at the
  greatest count.
- `abi/src/abi_ext_heap.cc:366`: freeing a root header leaves it in the used set.
- `abi/include/abi/ext/list-inl.h:57`: `list::empty` is inverted, so that `clear` does nothing to a list
  with elements. The heap tests and clears none.
- `abi/include/memory-inl.h:1140`: an assertion with the inverse of its condition. Line 1336: moving an empty `weak_ptr` of another
  type dereferences its ownership, which is null; `MoveConvert` moves from pointers that refer to the block.
- `abi/src/cstdlib.cc:153`: `exit` calls `__cxa_finalize_0` with `fn_lock` held; a destructor
  that calls `atexit` waits for its own thread unless it is let in as the second one. What is registered while
  it runs (`abi/src/abi_linker.cc:96`) stays in the table.
- `abi/include/abi/ext/hash_set-inl.h:85`: `link_back` into an empty bucket before a used one
  does not enter the element. The heap uses `link_front`.
- `abi/include/stdimpl/future_state-inl.h:397`: invoking a task whose promise was set terminates.
- `pmap/src/pmap_i386.cc:514`: one entry's flags are credited to a whole table of pages, also in
  the model (`Credited`).
- `pmap/src/pmap_amd64.cc:522` and 688: skips that do not match the span of an absent
  entry; flags credited to the table's frame.
- `vm/src/vm_page_cache.cc:225`, 295, 319 and `vm/src/vm_page_alloc.cc:309`, 364: operations that
  fail their own assertions or look in the wrong list.
- `vm/src/vm_page_unbusy_future.cc:62`: `start` calls itself.
- `cyptr/src/ilias_cyptr_impl_generation.cc:105`, 378, 600, 679: a held lock taken again;
  counts lowered and not raised.

## 9. Plan

Done: semaphore, mutex, recursive mutex, guard, exception storage, heap, future state, i386 page
tables, at-exit handlers, `shared_ptr`; the abstract specifications `CountingSemaphore`,
`Allocator`, `AddressSpace`; the theorems of section 6.

Next, in this order:

1. `PageFlags`: the flags word with the busy bit, `try_lock`, `page_busy_lock`, and
   `page_list` (`vm/src/vm_page.cc:155` to 355); then `AnonEntry` over it (assign, fault, release_urgent).
2. `PageTableSteps`: the calls of the i386 pmap split at their reads, two threads under
   the shared token of `vmmap-inl.h:828`; the reverse map registered with them. It implements
   `PageTable` as long as one thread calls.
3. `CyptrBackground`: the queue, `enqueue` and `disable_background`; time stamps.
4. `HashBuckets`: the bucket array of `hash_set` against a set, over bounded inputs.
5. `PageCache`, `PageAlloc`: as far as their assertions let them run.

Every safety and action property of the passing runs has its theorem. Those to come belong to the modules
above: that `PageTableSteps` implements `PageTable` when one thread calls, for any tables, is the first.

## 10. Running it

    tlc -workers 2 -config MCRecursiveMutex.cfg MCRecursiveMutex
    tlapm MutexProof.tla

`PROJECT.json` lists module, configuration and properties of each run. The longest,
`heap`, `page_table` and `at_exit`, take two to three minutes each with two workers.
