------------------------------ MODULE DwhScale ------------------------------
(***************************************************************************)
(* doubleToScale and doubleToDecimalScale: a value is divided by 1024 or   *)
(* 1000 until it is below that, and each division moves the scale letter   *)
(* on.  A negative decimal value is multiplied instead.                    *)
(*                                                                         *)
(* The double *x is kept exactly, as the original value and the number of  *)
(* divisions (k > 0) or multiplications (k < 0) done to it.                *)
(***************************************************************************)
EXTENDS Integers

CONSTANTS
  Base,    \* 1024 or 1000
  Values   \* the values to scale

ASSUME ScaleAssumption ==
  /\ Base \in Nat \ {0, 1} /\ \A n \in 1 .. 8 : Base ^ n \in Nat
  /\ Values \subseteq Int

VARIABLES
  fn,      \* "binary" doubleToScale, "decimal" doubleToDecimalScale
  orig, k, \* *x is orig / Base^k
  scale, result,
  done     \* the function has returned

scaleVars == <<fn, orig, k, scale, result, done>>

(* The switch statements: the letter after a letter, where there is a case. *)
After(f) ==
  CASE f = "binary" ->
         [none |-> "K", K |-> "M", M |-> "G", G |-> "T", T |-> "P", P |-> "E", E |-> "Z"]
    [] f = "decimal" ->
         [none |-> "k", K |-> "M", M |-> "G", G |-> "T", T |-> "P", P |-> "E", E |-> "Z"]

Below == [none |-> "m", m |-> "u", u |-> "n", n |-> "p", p |-> "f"]

ScaleInit ==
  /\ fn \in {"binary", "decimal"}
  /\ orig \in Values
  /\ k = 0 /\ scale = "none" /\ result = TRUE /\ done = FALSE

(* The tests of the while loops. *)
StrictlyTooLarge == orig >= 0 /\ orig > Base ^ (k + 1)

TooLarge == orig >= 0 /\ orig >= Base ^ (k + 1)

MoreUp == TooLarge /\ scale # "Z" /\ result

MoreDown == fn = "decimal" /\ orig < 0 /\ scale # "f" /\ result

(* One division; without a case for the letter x is put back and the        *)
(* function gives up.                                                       *)
Divide ==
  /\ ~done /\ MoreUp
  /\ IF scale \in DOMAIN After(fn)
     THEN k' = k + 1 /\ scale' = After(fn)[scale] /\ UNCHANGED result
     ELSE k' = 0 /\ scale' = "none" /\ result' = FALSE
  /\ UNCHANGED <<fn, orig, done>>

Multiply ==
  /\ ~done /\ MoreDown
  /\ k' = k - 1 /\ scale' = Below[scale]
  /\ UNCHANGED <<fn, orig, result, done>>

Return ==
  /\ ~done
  /\ IF orig >= 0 THEN ~MoreUp ELSE ~MoreDown
  /\ done' = TRUE
  /\ UNCHANGED <<fn, orig, k, scale, result>>

ScaleNext == Divide \/ Multiply \/ Return

ScaleSpec == ScaleInit /\ [][ScaleNext]_scaleVars

-----------------------------------------------------------------------------
Letters == <<"K", "M", "G", "T", "P", "E", "Z">>

(* The power of the base that a letter stands for. *)
Power ==
  [none |-> 0, k |-> 1, K |-> 1, M |-> 2, G |-> 3, T |-> 4, P |-> 5, E |-> 6, Z |-> 7,
   m |-> -1, u |-> -2, n |-> -3, p |-> -4, f |-> -5]

(* The value that is returned and its letter stand for the value given. *)
LetterMatches == done => k = Power[scale]

(* The value comes with the letter of the largest power of the base that is *)
(* not larger than it: what is shown is at least one when there is a        *)
(* letter, and below the base unless there is no letter above Z.            *)
InRange(f) ==
  done /\ fn = f /\ orig >= 0 =>
    /\ result
    /\ k > 0 => orig >= Base ^ k
    /\ orig < Base ^ (k + 1) \/ scale = "Z"

(* Neither doubleToScale nor doubleToDecimalScale hands a letter to the     *)
(* report that its divisions and multiplications did not earn, also when it *)
(* gives up half way, and doubleToScale brings every value into the range.  *)
FiguresScaled == LetterMatches /\ InRange("binary")

(* dwh.cpp:502: "Given a double, modify it to the decimal range (0...1000)  *)
(* and return the scale multiplier (...n, u, m, k, M, G, ...)".             *)
DecimalInRange == InRange("decimal")
=============================================================================
