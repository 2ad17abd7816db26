---------------------------- MODULE MCDwhThreads ----------------------------
(* The bound MaxStarts leaves room for one or two restarts after the first  *)
(* minthreads threads; see the configurations for the sizes.                *)
EXTENDS DwhThreads
=============================================================================
