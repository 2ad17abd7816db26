----------------------------- MODULE MCDwhScale -----------------------------
(* DwhScale for TLC: with base two small values need several letters.       *)
EXTENDS DwhScale
=============================================================================
