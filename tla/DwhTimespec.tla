---------------------------- MODULE DwhTimespec -----------------------------
(***************************************************************************)
(* timespec_elapsed, the subtraction of two clock values with a carry      *)
(* between nanoseconds and seconds, which also rewrites its argument y.    *)
(***************************************************************************)
EXTENDS Integers

CONSTANTS
  Nano,     \* 1000000000
  Seconds   \* the seconds of the clock values

ASSUME TimespecAssumption == Nano \in Nat \ {0, 1} /\ Seconds \subseteq Nat

(* What clock_gettime may return. *)
Timespecs == [tv_sec : Seconds, tv_nsec : 0 .. Nano - 1]

VARIABLES
  x, y,     \* the arguments
  y0,       \* y before the call
  elapsed,  \* *result
  negative, \* the return value
  called

timespecVars == <<x, y, y0, elapsed, negative, called>>

Zero == [tv_sec |-> 0, tv_nsec |-> 0]

TimespecInit ==
  /\ x \in Timespecs /\ y \in Timespecs
  /\ y0 = y /\ elapsed = Zero /\ negative = FALSE /\ called = FALSE

(* The two ifs that perform the carry by updating y. *)
BorrowExactly(a, b) ==
  IF a.tv_nsec < b.tv_nsec
  THEN LET n == (b.tv_nsec - a.tv_nsec) \div Nano IN
       [tv_sec |-> b.tv_sec + n, tv_nsec |-> b.tv_nsec - Nano * n]
  ELSE b

Borrow(a, b) ==
  IF a.tv_nsec < b.tv_nsec
  THEN LET n == (b.tv_nsec - a.tv_nsec) \div Nano + 1 IN
       [tv_sec |-> b.tv_sec + n, tv_nsec |-> b.tv_nsec - Nano * n]
  ELSE b

GiveBack(a, b) ==
  IF a.tv_nsec - b.tv_nsec > Nano
  THEN LET n == (a.tv_nsec - b.tv_nsec) \div Nano IN
       [tv_sec |-> b.tv_sec - n, tv_nsec |-> b.tv_nsec + Nano * n]
  ELSE b

timespec_elapsed ==
  /\ ~called
  /\ LET b == GiveBack(x, Borrow(x, y)) IN
       /\ y' = b
       /\ elapsed' = [tv_sec |-> x.tv_sec - b.tv_sec, tv_nsec |-> x.tv_nsec - b.tv_nsec]
       /\ negative' = (x.tv_sec < b.tv_sec)
  /\ called' = TRUE
  /\ UNCHANGED <<x, y0>>

-----------------------------------------------------------------------------
Instant(t) == t.tv_sec * Nano + t.tv_nsec

(* The result is the exact difference, its nanoseconds are between zero and *)
(* a second, and the function says that it is negative just when x is       *)
(* before y; y, rewritten by the carry, still means the same instant.       *)
ElapsedExact ==
  called =>
    /\ Instant(elapsed) = Instant(x) - Instant(y0)
    /\ elapsed.tv_nsec \in 0 .. Nano - 1
    /\ negative <=> Instant(x) < Instant(y0)
    /\ Instant(y) = Instant(y0)
=============================================================================
