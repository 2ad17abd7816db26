------------------------------- MODULE Totals -------------------------------
(***************************************************************************)
(* The total of a function into the naturals, as the size of a set: entry  *)
(* t of f contributes the pairs <<t, 1>> .. <<t, f[t]>>.  Stating a sum    *)
(* this way keeps it within reach of the finite-set theorems: no recursion *)
(* is needed to define it and no induction to reason about it.             *)
(***************************************************************************)
EXTENDS Naturals, FiniteSets

UnitsOf(f) == UNION {{t} \X (1 .. f[t]) : t \in DOMAIN f}

Total(f) == Cardinality(UnitsOf(f))
=============================================================================
