---------------------------- MODULE MCDwhNumbers ----------------------------
(* The sequential parts of dwh for TLC.  main has a few seconds to run: the *)
(* loop comes below, to and beyond them, and MaxTime leaves room for that.  *)
(* The numbers of a transfer have every value of rand() on a machine scaled *)
(* down so that the products of RAND_MAX keep their relation to the word    *)
(* (RAND_MAX^2 * 4 is Word, the default file is 3 * RAND_MAX).  Figures:    *)
(* with base two the values around the powers up to 2^9 pass every letter   *)
(* and go beyond the last.  Times: with seconds of three parts every order  *)
(* of the parts occurs.                                                     *)
EXTENDS DwhNumbers

AroundPowers == {-1, 0} \cup {2 ^ n + d : n \in 1 .. 9, d \in {-1, 0, 1}}
=============================================================================
