--------------------------- MODULE SemaphoreWord ---------------------------
(***************************************************************************)
(* The unsigned arithmetic of abi/semaphore: both counters of the ticket   *)
(* semaphore are uint32_t and wrap, and "the counter has reached ticket k" *)
(* is decided by an unsigned difference compared with half the range.      *)
(* W is the number of values of the word: 2^32 in the code.                *)
(***************************************************************************)
EXTENDS Integers

CONSTANT W

ASSUME WAssumption == W \in Nat /\ W >= 2

\* numeric_limits<uint32_t>::max() / 2U
Wnd == (W - 1) \div 2

\* fetch_add(1U) on a wrapping word.
Bump(x) == (x + 1) % W

\* Mutants of Reached: equality instead of a window; one ticket more.
ReachedExactly(x, k) == x = k
ReachedEarly(x, k) == (x + 1 - k) % W <= Wnd

\* The negation of the spin condition  a.load() - ticket > wnd.
Reached(x, k) == (x - k) % W <= Wnd
=============================================================================
