----------------------------- MODULE MCDwhData ------------------------------
(* DwhData for TLC: the machine is scaled down so that the products of      *)
(* RAND_MAX keep their relation to the word (RAND_MAX^2 * 4 is Word, the    *)
(* default file is 3 * RAND_MAX) and every value of rand() is tried.        *)
EXTENDS DwhData
=============================================================================
