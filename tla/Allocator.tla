----------------------------- MODULE Allocator -----------------------------
(***************************************************************************)
(* What a memory allocator promises: the blocks in use never overlap, lie  *)
(* within memory it was given, and start at a multiple of the alignment    *)
(* each of them was asked for with.                                        *)
(***************************************************************************)
EXTENDS Integers

CONSTANTS Arenas, Sizes, Aligns

VARIABLES
  blocks,  \* blocks in use: where, and the size and alignment asked for
  memory   \* arenas obtained so far

absVars == <<blocks, memory>>

Init == blocks = {} /\ memory = {}

Inside(b, a) == a[1] <= b.ptr /\ b.ptr + b.size <= a[1] + a[2]
Apart(b, c)  == b.ptr + b.size <= c.ptr \/ c.ptr + c.size <= b.ptr

\* A block of no bytes still has an address of its own.
CanHold(others, b) ==
  /\ \E a \in memory : Inside(b, a)
  /\ \A c \in others : Apart(b, c) /\ b.ptr # c.ptr

Obtain == \E a \in Arenas \ memory : memory' = memory \cup {a} /\ UNCHANGED blocks

Allocate ==
  /\ UNCHANGED memory
  /\ \E b \in blocks' \ blocks :
       /\ blocks' = blocks \cup {b}
       /\ b.size \in Sizes /\ b.al \in Aligns
       /\ b.ptr % b.al = 0
       /\ CanHold(blocks, b)

Free == UNCHANGED memory /\ \E b \in blocks : blocks' = blocks \ {b}

\* A block is resized where it is.
Resize ==
  /\ UNCHANGED memory
  /\ \E b \in blocks, n \in Sizes :
       LET c == [b EXCEPT !.size = n]
       IN  /\ CanHold(blocks \ {b}, c)
           /\ blocks' = (blocks \ {b}) \cup {c}

Next == Obtain \/ Allocate \/ Free \/ Resize

Spec == Init /\ [][Next]_absVars
=============================================================================
