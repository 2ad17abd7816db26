----------------------------- MODULE MCDwhMain ------------------------------
(* The configurations give maxruntime a few seconds: the loop needs to come *)
(* below, to and beyond it, and MaxTime leaves room for that.               *)
EXTENDS DwhMain
=============================================================================
