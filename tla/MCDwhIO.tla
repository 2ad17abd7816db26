------------------------------ MODULE MCDwhIO -------------------------------
(* Three workers and two I/O threads: two requests can be in the hands of   *)
(* I/O threads while a third is on a queue.  Two workers are enough to show *)
(* what EndIOTasks overlooks.                                               *)
EXTENDS DwhIO

CONSTANTS w1, w2, w3, t1, t2

TwoWorkers == {w1, w2}
ThreeWorkers == {w1, w2, w3}
TwoIOThreads == {t1, t2}
=============================================================================
