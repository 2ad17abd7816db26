---------------------------- MODULE MCDwhShared -----------------------------
(* What the threads share, for TLC.  Memory: three workers that cannot all  *)
(* have the largest buffer.  Queues: four nodes, enough for a node between  *)
(* two others on the done queue while another node waits elsewhere.         *)
(* Regions: two threads, and a file in which regions of one and two bytes   *)
(* overlap, touch or lie apart.                                             *)
EXTENDS DwhShared
=============================================================================
