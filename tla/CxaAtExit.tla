----------------------------- MODULE CxaAtExit -----------------------------
(***************************************************************************)
(* The table of destructors of static objects, rtdt (abi/src/              *)
(* abi_linker.cc): __cxa_atexit() appends, __cxa_finalize() and            *)
(* __cxa_finalize_dso() take the entries of one function or one shared     *)
(* object out and run them, __cxa_finalize_0() takes everything.  A call   *)
(* works on the table under rtdt_spl and runs what it took afterwards, one *)
(* destructor at a time, without the lock.                                 *)
(*                                                                         *)
(* rtdt_spl is constructed with one unit, which is not exclusion: such a   *)
(* semaphore admits two threads (SemaphoreWord).  A call reads the table   *)
(* when it gets the lock and stores it when it leaves; clash remembers     *)
(* that two were between the two at once.  What the code does to the table *)
(* then is a race of single words, finer than these two steps, and the     *)
(* properties claim nothing of it.                                         *)
(*                                                                         *)
(* Entries are named by the order in which the table accepted them.        *)
(***************************************************************************)
EXTENDS Integers, SequencesExt

CONSTANTS
  Threads,
  Dsos,       \* what entries are selected by: dso_handle, or the function
  TableLen,   \* RTDT_LEN
  RtdtUnits,  \* what rtdt_spl is constructed with; it admits one thread more
  MaxDtors    \* bound: destructors registered in a behaviour

ASSUME TableAssumption ==
  TableLen \in Nat /\ RtdtUnits \in Nat \ {0} /\ MaxDtors \in Nat

VARIABLES
  rtdt,       \* the first rtdt_len entries of rtdt
  dsoOf,      \* the shared object of each entry ever accepted
  todo,       \* entries each thread has taken out and not run yet, next first
  destroyed,  \* entries that were run, in order
  call,       \* the call each thread has rtdt_spl for, the table as it read it
  clash       \* history: two threads have had rtdt_spl at once

cxaVars == <<rtdt, dsoOf, todo, destroyed, call, clash>>

NoCall == [does |-> "none", dsos |-> {}, seen |-> <<>>]

CxaInit ==
  /\ rtdt = <<>>
  /\ dsoOf = <<>>
  /\ todo = [p \in Threads |-> <<>>]
  /\ destroyed = <<>>
  /\ call = [p \in Threads |-> NoCall]
  /\ clash = FALSE

Holders == {p \in Threads : call[p] # NoCall}

\* semlock lck{ rtdt_spl }
Lock(p, does, dsos) ==
  /\ call[p] = NoCall
  /\ Cardinality(Holders) <= RtdtUnits
  /\ call' = [call EXCEPT ![p] = [does |-> does, dsos |-> dsos, seen |-> rtdt]]
  /\ clash' = (clash \/ Holders # {})

Unlock(p) == call' = [call EXCEPT ![p] = NoCall] /\ UNCHANGED clash

\* __cxa_atexit() gets the lock.
RegisterLock(p, dso) ==
  /\ Len(dsoOf) + Cardinality({r \in Threads : call[r].does = "add"}) < MaxDtors
  /\ Lock(p, "add", {dso})

\* A full table refuses and changes nothing.
Register(p) ==
  /\ call[p].does = "add"
  /\ IF Len(call[p].seen) = TableLen
       THEN UNCHANGED <<rtdt, dsoOf>>
       ELSE \E dso \in call[p].dsos :
              /\ dsoOf' = Append(dsoOf, dso)
              /\ rtdt' = Append(call[p].seen, Len(dsoOf'))
  /\ Unlock(p)
  /\ UNCHANGED <<todo, destroyed>>

\* The loop over the table, from its end: the entry at i, if it is in S, is put
\* behind those taken so far, and the entries after it move back by one.
TakenOut(table, S) ==
  LET n == Len(table)
      After[k \in 0 .. n] ==
        IF k = 0 THEN [left |-> table, out |-> <<>>]
        ELSE LET i == n - k + 1
             IN  IF table[i] \in S
                   THEN [left |-> RemoveAt(After[k - 1].left, i),
                         out  |-> Append(After[k - 1].out, table[i])]
                   ELSE After[k - 1]
  IN  After[n]

\* Mutants of Take: the gap left by an entry is closed over its neighbour;
\* what was taken is run in the order of registration.
TakeClosesTwice(p, S) ==
  LET rest == TakenOut(call[p].seen, S).left
  IN /\ rtdt' = IF Len(rest) < Len(rtdt) /\ rest # <<>> THEN Front(rest) ELSE rest
     /\ todo' = [todo EXCEPT ![p] = TakenOut(call[p].seen, S).out]
TakeInOrder(p, S) ==
  /\ rtdt' = TakenOut(call[p].seen, S).left
  /\ todo' = [todo EXCEPT ![p] = Reverse(TakenOut(call[p].seen, S).out)]

\* The entries of S leave the table and are to be run, the latest first.
Take(p, S) ==
  /\ rtdt' = TakenOut(call[p].seen, S).left
  /\ todo' = [todo EXCEPT ![p] = TakenOut(call[p].seen, S).out]

\* __cxa_finalize_dso(dso), __cxa_finalize(fn), where there is something to
\* take: without, the table stays as it is.  __cxa_finalize_0().
FinalizeDsoLock(p, dso) ==
  /\ todo[p] = <<>>
  /\ \E d \in ToSet(rtdt) : dsoOf[d] = dso
  /\ Lock(p, "take", {dso})
Finalize0Lock(p) == todo[p] = <<>> /\ Lock(p, "take", Dsos)

Finalize(p) ==
  /\ call[p].does = "take"
  /\ Take(p, {d \in DOMAIN dsoOf : dsoOf[d] \in call[p].dsos})
  /\ Unlock(p)
  /\ UNCHANGED <<dsoOf, destroyed>>

\* (*elem->fn)(elem->arg)
RunDtor(p) ==
  /\ call[p] = NoCall /\ todo[p] # <<>>
  /\ destroyed' = Append(destroyed, Head(todo[p]))
  /\ todo' = [todo EXCEPT ![p] = Tail(@)]
  /\ UNCHANGED <<rtdt, dsoOf>>
  /\ \/ UNCHANGED <<call, clash>>
     \/ \E dso \in Dsos : RegisterLock(p, dso)  \* it builds a static object itself
-----------------------------------------------------------------------------
\* As long as no two threads had rtdt_spl at once, every destructor that was
\* registered is in one place: still in the table, taken by one thread, or run.
\* The compaction of the table drops none, and none is taken by two threads
\* that finalise while a third registers.
DtorsAccounted ==
  ~ clash =>
    \A d \in DOMAIN dsoOf :
      (IF d \in ToSet(rtdt) THEN 1 ELSE 0)
        + Cardinality({i \in DOMAIN destroyed : destroyed[i] = d})
        + Cardinality({p \in Threads : d \in ToSet(todo[p])}) = 1

\* Under the same condition, destructors run in the reverse order of
\* registration: when a thread runs one, none that was registered later is left
\* of those it has taken.
DtorsReversed ==
  [][~ clash =>
       \A p \in Threads :
         destroyed' # destroyed /\ todo'[p] # todo[p] =>
           \A d \in ToSet(todo'[p]) : d < Last(destroyed')
    ]_cxaVars
=============================================================================
