----------------------------- MODULE DlparProofs ------------------------------
(***************************************************************************)
(* Proofs about Dlpar, for every profile, every list of tests in the order *)
(* of the class and any number of jobs.  First what the computed lists of  *)
(* quantities come to, then what a plan of commands comes to, then the     *)
(* inductive invariant: one part per thing that has to be remembered       *)
(* between the start of a test, its commands and the tests after it.       *)
(***************************************************************************)
EXTENDS Dlpar, FiniteSetTheorems, WellFoundedInduction, TLAPS

-----------------------------------------------------------------------------
(* Totals.  They do not depend on the order or the names of the entries,   *)
(* only on what they are: for lists of quantities, first and rest,         *)
(* reversal, and two lists in turn.                                        *)

(* The units of one entry number f[t]. *)
LEMMA EntryUnits ==
  ASSUME NEW t, NEW n \in Nat
  PROVE  /\ IsFiniteSet({t} \X (1 .. n))
         /\ Cardinality({t} \X (1 .. n)) = n
<1>1. IsFiniteSet({t}) /\ Cardinality({t}) = 1
  BY FS_Singleton
<1>2. IsFiniteSet(1 .. n) /\ Cardinality(1 .. n) = n
  BY FS_Interval
<1>3. /\ IsFiniteSet({t} \X (1 .. n))
      /\ Cardinality({t} \X (1 .. n)) = Cardinality({t}) * Cardinality(1 .. n)
  BY <1>1, <1>2, FS_Product
<1> QED
  BY <1>1, <1>2, <1>3

(* The units of a function with a finite domain are finitely many. *)
LEMMA UnitsFinite ==
  ASSUME NEW S, IsFiniteSet(S), NEW f \in [S -> Nat]
  PROVE  IsFiniteSet(UnitsOf(f)) /\ Total(f) \in Nat
<1> DEFINE parts == {{t} \X (1 .. f[t]) : t \in S}
           part == [t \in S |-> {t} \X (1 .. f[t])]
<1>1. part \in Surjection(S, parts)
  BY DEF Surjection
<1>2. IsFiniteSet(parts)
  BY <1>1, FS_Surjection
<1>3. \A T \in parts : IsFiniteSet(T)
  <2>1. \A t \in S : f[t] \in Nat
    OBVIOUS
  <2>2. \A t \in S : IsFiniteSet({t} \X (1 .. f[t]))
    BY <2>1, EntryUnits
  <2> QED
    BY <2>2
<1>4. IsFiniteSet(UNION parts)
  BY <1>2, <1>3, FS_UNION
<1>5. UnitsOf(f) = UNION parts
  BY DEF UnitsOf
<1> QED
  BY <1>4, <1>5, FS_CardinalityType DEF Total

(* Changing one entry changes the total by the difference. *)
LEMMA TotalUpdate ==
  ASSUME NEW S, IsFiniteSet(S), NEW f \in [S -> Nat], NEW g \in [S -> Nat],
         NEW t \in S, \A s \in S \ {t} : g[s] = f[s]
  PROVE  Total(g) + f[t] = Total(f) + g[t]
<1> DEFINE rest == UNION {{s} \X (1 .. f[s]) : s \in S \ {t}}
           old == {t} \X (1 .. f[t])
           new == {t} \X (1 .. g[t])
<1>1. UnitsOf(f) = rest \cup old
  BY DEF UnitsOf
<1>2. UnitsOf(g) = rest \cup new
  <2>1. rest = UNION {{s} \X (1 .. g[s]) : s \in S \ {t}}
    OBVIOUS
  <2> QED
    BY <2>1 DEF UnitsOf
<1>3. rest \cap old = {} /\ rest \cap new = {}
  OBVIOUS
<1>4. IsFiniteSet(rest)
  <2>1. IsFiniteSet(UnitsOf(f)) /\ rest \subseteq UnitsOf(f)
    BY <1>1, UnitsFinite
  <2> QED
    BY <2>1, FS_Subset
<1>5. /\ IsFiniteSet(old) /\ Cardinality(old) = f[t]
      /\ IsFiniteSet(new) /\ Cardinality(new) = g[t]
  BY EntryUnits
<1>6. Cardinality(rest) \in Nat
  BY <1>4, FS_CardinalityType
<1>7. Total(f) = Cardinality(rest) + f[t]
  <2>1. Cardinality(rest \cup old)
          = Cardinality(rest) + Cardinality(old) - Cardinality(rest \cap old)
    BY <1>4, <1>5, FS_Union
  <2> HIDE DEF rest, old
  <2> QED
    BY <1>1, <1>3, <1>5, <1>6, <2>1, FS_EmptySet DEF Total
<1>8. Total(g) = Cardinality(rest) + g[t]
  <2>1. Cardinality(rest \cup new)
          = Cardinality(rest) + Cardinality(new) - Cardinality(rest \cap new)
    BY <1>4, <1>5, FS_Union
  <2> HIDE DEF rest, new
  <2> QED
    BY <1>2, <1>3, <1>5, <1>6, <2>1, FS_EmptySet DEF Total
<1> HIDE DEF rest
<1> QED
  BY <1>6, <1>7, <1>8

(* The total of the function that is zero everywhere is zero. *)
LEMMA TotalZero ==
  ASSUME NEW S
  PROVE  Total([s \in S |-> 0]) = 0
<1>1. UnitsOf([s \in S |-> 0]) = {}
  BY DEF UnitsOf
<1> QED
  BY <1>1, FS_EmptySet DEF Total

(* The units of f are the pairs of an entry and a number up to its value. *)
LEMMA UnitsAre ==
  ASSUME NEW S, NEW f \in [S -> Nat]
  PROVE  \A u : u \in UnitsOf(f) <=> \E t \in S : \E n \in 1 .. f[t] : u = <<t, n>>
  BY DEF UnitsOf

(* A total does not depend on how the entries are named. *)
LEMMA TotalReindex ==
  ASSUME NEW S, IsFiniteSet(S), NEW f \in [S -> Nat], NEW T, NEW g \in [T -> Nat],
         NEW h \in Bijection(S, T), \A s \in S : f[s] = g[h[s]]
  PROVE  Total(f) = Total(g)
<1> DEFINE move == [u \in UnitsOf(f) |-> <<h[u[1]], u[2]>>]
<1>0. \A t \in S : \A n \in 1 .. f[t] : <<t, n>> \in UnitsOf(f) /\ move[<<t, n>>] = <<h[t], n>>
  BY UnitsAre
<1>1. h \in [S -> T] /\ (\A a, b \in S : h[a] = h[b] => a = b) /\ (\A t \in T : \E s \in S : h[s] = t)
  BY DEF Bijection, Injection, Surjection, IsInjective
<1>2. \A u \in UnitsOf(f) : move[u] \in UnitsOf(g)
  BY <1>0, <1>1, UnitsAre
<1>3. \A u, v \in UnitsOf(f) : move[u] = move[v] => u = v
  BY <1>0, <1>1, UnitsAre
<1>4. \A v \in UnitsOf(g) : \E u \in UnitsOf(f) : move[u] = v
  <2> SUFFICES ASSUME NEW v \in UnitsOf(g)
               PROVE  \E u \in UnitsOf(f) : move[u] = v
    OBVIOUS
  <2>0. PICK t \in T : \E n \in 1 .. g[t] : v = <<t, n>>
    BY UnitsAre
  <2>3. PICK n \in 1 .. g[t] : v = <<t, n>>
    BY <2>0
  <2>1. PICK s \in S : h[s] = t
    BY <1>1
  <2>2. n \in 1 .. f[s]
    BY <2>1
  <2> QED BY <1>0, <2>1, <2>2, <2>3
<1>5. move \in Bijection(UnitsOf(f), UnitsOf(g))
  <2>1. move \in [UnitsOf(f) -> UnitsOf(g)]
    BY <1>2
  <2> HIDE DEF move
  <2> QED BY <2>1, <1>3, <1>4 DEF Bijection, Injection, Surjection, IsInjective
<1>6. IsFiniteSet(UnitsOf(f))
  BY UnitsFinite
<1> QED BY <1>5, <1>6, FS_Bijection DEF ExistsBijection, Total

(* The total of two sets of entries is the sum of their totals. *)
LEMMA TotalSplit ==
  ASSUME NEW A, IsFiniteSet(A), NEW B, IsFiniteSet(B), A \cap B = {},
         NEW f \in [A \cup B -> Nat]
  PROVE  Total(f) = Total([s \in A |-> f[s]]) + Total([s \in B |-> f[s]])
<1> DEFINE fa == [s \in A |-> f[s]]
           fb == [s \in B |-> f[s]]
<1>1. fa \in [A -> Nat] /\ fb \in [B -> Nat]
  OBVIOUS
<1>2. UnitsOf(f) = UnitsOf(fa) \cup UnitsOf(fb)
  BY DEF UnitsOf
<1>3. UnitsOf(fa) \cap UnitsOf(fb) = {}
  BY DEF UnitsOf
<1>4. IsFiniteSet(UnitsOf(fa)) /\ IsFiniteSet(UnitsOf(fb)) /\ Total(fa) \in Nat /\ Total(fb) \in Nat
  BY <1>1, UnitsFinite
<1>5. Cardinality(UnitsOf(fa) \cap UnitsOf(fb)) = 0
  BY <1>3, FS_EmptySet
<1> HIDE DEF fa, fb
<1>6. Cardinality(UnitsOf(f)) = Cardinality(UnitsOf(fa)) + Cardinality(UnitsOf(fb)) - 0
  BY <1>2, <1>4, <1>5, FS_Union
<1> QED BY <1>4, <1>6 DEF Total, fa, fb

(* The total of one entry. *)
LEMMA TotalSingle ==
  ASSUME NEW t, NEW f \in [{t} -> Nat]
  PROVE  Total(f) = f[t]
<1>1. UnitsOf(f) = {t} \X (1 .. f[t])
  BY DEF UnitsOf
<1> QED BY <1>1, EntryUnits DEF Total

(* No entry is above the total. *)
LEMMA TotalEntry ==
  ASSUME NEW S, IsFiniteSet(S), NEW f \in [S -> Nat], NEW t \in S
  PROVE  f[t] <= Total(f)
<1> DEFINE g == [f EXCEPT ![t] = 0]
<1>1. g \in [S -> Nat] /\ g[t] = 0 /\ \A s \in S \ {t} : g[s] = f[s]
  OBVIOUS
<1>2. Total(g) \in Nat /\ Total(f) \in Nat
  BY <1>1, UnitsFinite
<1> HIDE DEF g
<1>3. Total(g) + f[t] = Total(f) + g[t]
  BY <1>1, TotalUpdate
<1> QED BY <1>1, <1>2, <1>3

(* One entry apart. *)
LEMMA TotalDrop ==
  ASSUME NEW S, IsFiniteSet(S), NEW f \in [S -> Nat], NEW t \in S
  PROVE  Total(f) = f[t] + Total([s \in S \ {t} |-> f[s]])
<1> DEFINE R == S \ {t}
           one == [s \in {t} |-> f[s]]
<1>1. IsFiniteSet({t}) /\ IsFiniteSet(R)
  BY FS_Singleton, FS_RemoveElement
<1>2. {t} \cap R = {} /\ {t} \cup R = S
  OBVIOUS
<1> HIDE DEF R
<1>3. Total(f) = Total(one) + Total([s \in R |-> f[s]])
  <2> DEFINE Q == {t}
  <2>1. IsFiniteSet(Q) /\ Q \cap R = {} /\ f \in [Q \cup R -> Nat]
    BY <1>1, <1>2
  <2> HIDE DEF Q
  <2>2. Total(f) = Total([s \in Q |-> f[s]]) + Total([s \in R |-> f[s]])
    BY <1>1, <2>1, TotalSplit
  <2> QED BY <2>2 DEF Q
<1>4. one \in [{t} -> Nat] /\ one[t] = f[t]
  OBVIOUS
<1> HIDE DEF one
<1>5. Total(one) = f[t]
  BY <1>4, TotalSingle
<1> QED BY <1>3, <1>5 DEF R

-----------------------------------------------------------------------------
(* Totals of lists.                                                        *)

(* The total of no entries. *)
LEMMA TotalEmpty ==
  ASSUME NEW f, DOMAIN f = {}
  PROVE  Total(f) = 0
<1>1. UnitsOf(f) = {}
  BY DEF UnitsOf
<1> QED BY <1>1, FS_EmptySet DEF Total

(* The total of a list is its first entry and the total of the rest. *)
LEMMA TotalPeel ==
  ASSUME NEW n \in Nat, NEW f \in [1 .. n + 1 -> Nat]
  PROVE  Total(f) = f[1] + Total([i \in 1 .. n |-> f[i + 1]])
<1> DEFINE U == (1 .. n + 1) \ {1}
           rest == [i \in U |-> f[i]]
           tail == [i \in 1 .. n |-> f[i + 1]]
           h == [i \in U |-> i - 1]
<1>1. IsFiniteSet(1 .. n + 1) /\ 1 \in 1 .. n + 1
  BY FS_Interval
<1>2. U = 2 .. n + 1
  OBVIOUS
<1>3. IsFiniteSet(U)
  BY <1>1, FS_RemoveElement
<1>4. Total(f) = f[1] + Total(rest)
  <2>1. \A t \in 1 .. n + 1 : Total(f) = f[t] + Total([s \in (1 .. n + 1) \ {t} |-> f[s]])
    BY <1>1, TotalDrop
  <2> QED BY <1>1, <2>1
<1>5. rest \in [U -> Nat] /\ tail \in [1 .. n -> Nat] /\ \A i \in U : rest[i] = tail[h[i]]
  OBVIOUS
<1>6. h \in Bijection(U, 1 .. n)
  <2>1. \A i \in 1 .. n : i + 1 \in U /\ h[i + 1] = i
    OBVIOUS
  <2>2. h \in [U -> 1 .. n] /\ \A i, j \in U : h[i] = h[j] => i = j
    OBVIOUS
  <2> HIDE DEF h, U
  <2> QED BY <2>1, <2>2 DEF Bijection, Injection, Surjection, IsInjective
<1> HIDE DEF rest, tail, h, U
<1>7. Total(rest) = Total(tail)
  BY <1>3, <1>5, <1>6, TotalReindex
<1> QED BY <1>4, <1>7 DEF tail

(* The total of a list is that of the entries before the last, and the     *)
(* last.                                                                   *)
LEMMA TotalLast ==
  ASSUME NEW n \in Nat, NEW f \in [1 .. n + 1 -> Nat]
  PROVE  Total(f) = Total([i \in 1 .. n |-> f[i]]) + f[n + 1]
<1>1. IsFiniteSet(1 .. n + 1) /\ n + 1 \in 1 .. n + 1
  BY FS_Interval
<1>2. \A t \in 1 .. n + 1 : Total(f) = f[t] + Total([s \in (1 .. n + 1) \ {t} |-> f[s]])
  BY <1>1, TotalDrop
<1>3. (1 .. n + 1) \ {n + 1} = 1 .. n
  OBVIOUS
<1>4. Total(f) = f[n + 1] + Total([i \in 1 .. n |-> f[i]])
  BY <1>1, <1>2, <1>3
<1>5. Total([i \in 1 .. n |-> f[i]]) \in Nat
  <2>1. IsFiniteSet(1 .. n)
    BY FS_Interval
  <2>2. [i \in 1 .. n |-> f[i]] \in [1 .. n -> Nat]
    OBVIOUS
  <2> QED BY <2>1, <2>2, UnitsFinite
<1> QED BY <1>4, <1>5

(* Lists with a name for their domain: the provers do better with a set    *)
(* variable than with an interval.                                         *)
IsUpTo(N, n) == N = 1 .. n
Reverses(r, f, n) == \A i \in 1 .. n : r[i] = f[n + 1 - i]

(* A list read from the end has the same total. *)
LEMMA TotalReverse ==
  ASSUME NEW n \in Nat, NEW D, IsUpTo(D, n), NEW f, NEW r, f \in [D -> Nat], r \in [D -> Nat],
         Reverses(r, f, n)
  PROVE  Total(r) = Total(f)
<1> DEFINE h == [i \in D |-> n + 1 - i]
<1>1. IsFiniteSet(D)
  BY FS_Interval DEF IsUpTo
<1>2. h \in [D -> D] /\ \A i, j \in D : h[i] = h[j] => i = j
  BY DEF IsUpTo
<1>3. \A i \in D : n + 1 - i \in D /\ h[n + 1 - i] = i
  BY DEF IsUpTo
<1>4. \A i \in D : r[i] = f[h[i]]
  BY DEF IsUpTo, Reverses
<1> HIDE DEF h
<1>5. h \in Bijection(D, D)
  BY <1>2, <1>3 DEF Bijection, Injection, Surjection, IsInjective
<1> QED BY <1>1, <1>4, <1>5, TotalReindex

(* a has the entries of f under other names. *)
Renames(a, f) == \E h \in Bijection(DOMAIN a, DOMAIN f) : \A i \in DOMAIN a : a[i] = f[h[i]]
(* e is a and b together. *)
Joins(e, a, b) ==
  /\ DOMAIN a \cap DOMAIN b = {} /\ DOMAIN e = DOMAIN a \cup DOMAIN b
  /\ \A i \in DOMAIN a : a[i] = e[i]
  /\ \A i \in DOMAIN b : b[i] = e[i]

(* Renaming the entries keeps the total. *)
LEMMA TotalRenamed ==
  ASSUME NEW A, IsFiniteSet(A), NEW N, NEW a, NEW f, a \in [A -> Nat], f \in [N -> Nat],
         Renames(a, f)
  PROVE  Total(a) = Total(f)
<1>1. PICK h \in Bijection(A, N) : \A i \in A : a[i] = f[h[i]]
  BY DEF Renames
<1> QED BY <1>1, TotalReindex

(* A function made of two has the total of both. *)
LEMMA TotalJoined ==
  ASSUME NEW A, IsFiniteSet(A), NEW B, IsFiniteSet(B), NEW S, NEW a, NEW b, NEW e,
         a \in [A -> Nat], b \in [B -> Nat], e \in [S -> Nat], Joins(e, a, b)
  PROVE  Total(e) = Total(a) + Total(b)
<1>1. A \cap B = {} /\ e \in [A \cup B -> Nat]
  BY DEF Joins
<1>2. a = [i \in A |-> e[i]] /\ b = [i \in B |-> e[i]]
  BY DEF Joins
<1> QED BY <1>1, <1>2, TotalSplit

(* A list that takes its entries from two lists in turn. *)
LEMMA OddAndEven ==
  ASSUME NEW n \in Nat, NEW m \in 1 .. 2 * n
  PROVE  /\ m % 2 = 1 => (m + 1) \div 2 \in 1 .. n /\ m = 2 * ((m + 1) \div 2) - 1
         /\ m % 2 # 1 => m \div 2 \in 1 .. n /\ m = 2 * (m \div 2)
<1>1. m % 2 = 1 => m = 2 * ((m + 1) \div 2) - 1
  OBVIOUS
<1>2. m % 2 # 1 => m = 2 * (m \div 2)
  OBVIOUS
<1>3. (m + 1) \div 2 \in Nat /\ m \div 2 \in Nat
  OBVIOUS
<1> QED BY <1>1, <1>2, <1>3

(* e takes its entries from f and g in turn. *)
Alternates(e, f, g) ==
  \A i \in DOMAIN e : e[i] = IF i % 2 = 1 THEN f[(i + 1) \div 2] ELSE g[i \div 2]

(* The total of a list that takes its entries from two in turn. *)
LEMMA TotalAlternate ==
  ASSUME NEW n \in Nat, NEW N, IsUpTo(N, n), NEW D, IsUpTo(D, 2 * n),
         NEW e, NEW f, NEW g, e \in [D -> Nat], f \in [N -> Nat], g \in [N -> Nat],
         Alternates(e, f, g)
  PROVE  Total(e) = Total(f) + Total(g)
<1> DEFINE A == {i \in D : i % 2 = 1}
           B == {i \in D : i % 2 # 1}
           ea == [i \in A |-> e[i]]
           eb == [i \in B |-> e[i]]
           ha == [i \in A |-> (i + 1) \div 2]
           hb == [i \in B |-> i \div 2]
<1>1. IsFiniteSet(A) /\ IsFiniteSet(B)
  <2>1. IsFiniteSet(D)
    BY FS_Interval DEF IsUpTo
  <2>2. A \subseteq D /\ B \subseteq D
    OBVIOUS
  <2> HIDE DEF A, B
  <2> QED BY <2>1, <2>2, FS_Subset
<1>2. A \cap B = {} /\ A \cup B = D
  OBVIOUS
<1>4. ASSUME NEW i \in A
      PROVE  ha[i] \in N /\ ea[i] = f[ha[i]] /\ i = 2 * ha[i] - 1
  BY OddAndEven DEF Alternates, IsUpTo
<1>5. ASSUME NEW i \in B
      PROVE  hb[i] \in N /\ eb[i] = g[hb[i]] /\ i = 2 * hb[i]
  BY OddAndEven DEF Alternates, IsUpTo
<1>6. \A j \in N : 2 * j - 1 \in A /\ ha[2 * j - 1] = j
  BY DEF IsUpTo
<1>7. \A j \in N : 2 * j \in B /\ hb[2 * j] = j
  BY DEF IsUpTo
<1>8. ea \in [A -> Nat] /\ eb \in [B -> Nat] /\ ha \in [A -> N] /\ hb \in [B -> N]
  BY <1>4, <1>5
<1> HIDE DEF A, B, ea, eb, ha, hb
<1>9. ha \in Bijection(A, N) /\ hb \in Bijection(B, N)
  <2>1. \A i, j \in A : ha[i] = ha[j] => i = j
    BY <1>4, <1>8 DEF IsUpTo
  <2>2. \A i, j \in B : hb[i] = hb[j] => i = j
    BY <1>5, <1>8 DEF IsUpTo
  <2> QED
    BY <1>6, <1>7, <1>8, <2>1, <2>2 DEF Bijection, Injection, Surjection, IsInjective
<1>10. Renames(ea, f) /\ Renames(eb, g)
  BY <1>4, <1>5, <1>8, <1>9 DEF Renames
<1>11. Joins(e, ea, eb)
  BY <1>2, <1>8 DEF Joins, ea, eb
<1>12. Total(ea) = Total(f)
  BY <1>1, <1>8, <1>10, TotalRenamed
<1>13. Total(eb) = Total(g)
  BY <1>1, <1>8, <1>10, TotalRenamed
<1>14. Total(e) = Total(ea) + Total(eb)
  BY <1>1, <1>8, <1>11, TotalJoined
<1> QED BY <1>12, <1>13, <1>14

-----------------------------------------------------------------------------
(* A set of naturals has a least element, and a largest one when bounded.  *)
LEMMA LeastNatural ==
  ASSUME NEW T, T \subseteq Nat, T # {}
  PROVE  \E t \in T : \A s \in T : t <= s
<1>1. PICK t \in T : \A s \in T : ~(<<s, t>> \in OpToRel(<, Nat))
  BY NatLessThanWellFounded, WFMin, Zenon
<1>2. \A s \in T : ~(s < t)
  BY <1>1 DEF OpToRel
<1> QED BY <1>2

(* A bounded set of naturals has a largest element. *)
LEMMA LargestNatural ==
  ASSUME NEW T, T \subseteq Nat, T # {}, NEW n \in Nat, \A t \in T : t <= n
  PROVE  \E t \in T : \A s \in T : s <= t
<1> DEFINE D == {n - t : t \in T}
<1>1. D \subseteq Nat /\ D # {}
  <2>1. \A t \in T : n - t \in Nat
    OBVIOUS
  <2>2. PICK t \in T : TRUE
    OBVIOUS
  <2>3. n - t \in D
    BY <2>2
  <2> QED BY <2>1, <2>3
<1>2. PICK d \in D : \A c \in D : d <= c
  <2> HIDE DEF D
  <2> QED BY <1>1, LeastNatural
<1>3. PICK t \in T : d = n - t
  BY <1>2
<1>4. \A s \in T : n - t <= n - s
  BY <1>2, <1>3
<1> QED BY <1>4

-----------------------------------------------------------------------------
(* Numbers. *)

(* A set of naturals that misses 0 and no successor of what it misses is   *)
(* empty: induction, on the set of counterexamples.                        *)
LEMMA NoCounterexample ==
  ASSUME NEW T, T \subseteq Nat, 0 \notin T, \A k \in Nat : k + 1 \in T => k \in T
  PROVE  T = {}
<1> SUFFICES ASSUME T # {} PROVE FALSE
  OBVIOUS
<1>1. PICK t \in T : \A s \in T : t <= s
  BY LeastNatural
<1>2. t \in Nat /\ t # 0
  BY <1>1
<1>3. t - 1 \in Nat /\ (t - 1) + 1 = t
  BY <1>2
<1>4. t - 1 \in T
  BY <1>1, <1>3
<1> QED BY <1>1, <1>2, <1>4

(* Max of a bounded set of naturals is one of them. *)
LEMMA MaxIn ==
  ASSUME NEW S, S # {}, S \subseteq Nat, NEW n \in Nat, \A s \in S : s <= n
  PROVE  Max(S) \in S
<1>1. PICK t \in S : \A s \in S : s <= t
  BY LargestNatural
<1> QED BY <1>1 DEF Max

(* Powers of two, counted as the subsets of an interval. *)
LEMMA PowerNat ==
  ASSUME NEW n \in Nat
  PROVE  2 ^ n \in Nat /\ 2 ^ n >= 1 /\ Cardinality(SUBSET (1 .. n)) = 2 ^ n
<1>1. IsFiniteSet(1 .. n) /\ Cardinality(1 .. n) = n
  BY FS_Interval
<1>2. IsFiniteSet(SUBSET (1 .. n)) /\ Cardinality(SUBSET (1 .. n)) = 2 ^ n
  BY <1>1, FS_SUBSET
<1>3. Cardinality(SUBSET (1 .. n)) \in Nat
  BY <1>2, FS_CardinalityType
<1>4. Cardinality(SUBSET (1 .. n)) # 0
  <2>1. {} \in SUBSET (1 .. n)
    OBVIOUS
  <2> QED BY <1>2, <2>1, FS_EmptySet
<1> QED BY <1>2, <1>3, <1>4

(* The first power of two. *)
LEMMA PowerZero == 2 ^ 0 = 1
<1>1. SUBSET (1 .. 0) = {{}}
  OBVIOUS
<1>2. Cardinality(SUBSET (1 .. 0)) = 1
  BY <1>1, FS_Singleton
<1> QED BY <1>2, PowerNat

(* A power of two is twice the one before it. *)
LEMMA PowerNext ==
  ASSUME NEW n \in Nat
  PROVE  2 ^ (n + 1) = 2 * 2 ^ n
<1> DEFINE A == SUBSET (1 .. n)
           B == {T \in SUBSET (1 .. n + 1) : n + 1 \in T}
           h == [T \in A |-> T \cup {n + 1}]
<1>1. IsFiniteSet(A) /\ Cardinality(A) = 2 ^ n
  <2>1. IsFiniteSet(1 .. n)
    BY FS_Interval
  <2> QED BY <2>1, FS_SUBSET, PowerNat
<1>2. SUBSET (1 .. n + 1) = A \cup B
  <2>1. ASSUME NEW T \in SUBSET (1 .. n + 1), n + 1 \notin T
        PROVE  T \subseteq 1 .. n
    BY <2>1
  <2>2. 1 .. n \subseteq 1 .. n + 1
    OBVIOUS
  <2> QED BY <2>1, <2>2
<1>3. A \cap B = {}
  OBVIOUS
<1>4. h \in Bijection(A, B)
  <2>1. h \in [A -> B]
    OBVIOUS
  <2>2. \A T, U \in A : h[T] = h[U] => T = U
    <3> SUFFICES ASSUME NEW T \in A, NEW U \in A, h[T] = h[U] PROVE T = U
      OBVIOUS
    <3>1. n + 1 \notin T /\ n + 1 \notin U
      OBVIOUS
    <3>2. T \cup {n + 1} = U \cup {n + 1}
      OBVIOUS
    <3> QED BY <3>1, <3>2
  <2>3. ASSUME NEW T \in B PROVE \E U \in A : h[U] = T
    <3>1. T \ {n + 1} \in A
      OBVIOUS
    <3>2. h[T \ {n + 1}] = T
      BY <3>1
    <3> QED BY <3>1, <3>2
  <2> HIDE DEF A, B, h
  <2> QED BY <2>1, <2>2, <2>3 DEF Bijection, Injection, Surjection, IsInjective
<1> HIDE DEF A, B, h
<1>5. IsFiniteSet(B) /\ Cardinality(B) = Cardinality(A)
  BY <1>1, <1>4, FS_Bijection DEF ExistsBijection
<1>6. Cardinality(A \cup B) = Cardinality(A) + Cardinality(B) - Cardinality(A \cap B)
  BY <1>1, <1>5, FS_Union
<1>7. Cardinality(A \cap B) = 0
  BY <1>3, FS_EmptySet
<1>8. Cardinality(SUBSET (1 .. n + 1)) = 2 ^ (n + 1)
  BY PowerNat
<1> QED BY <1>1, <1>2, <1>5, <1>6, <1>7, <1>8, PowerNat

-----------------------------------------------------------------------------
(* The lists of quantities. *)

(* A list of naturals as a function. *)
LEMMA ListFunction ==
  ASSUME NEW l \in Seq(Nat)
  PROVE  l \in [1 .. Len(l) -> Nat]
  OBVIOUS

(* The total of a list of naturals, and no value is above it. *)
LEMMA ListTotal ==
  ASSUME NEW l \in Seq(Nat)
  PROVE  /\ Total(l) \in Nat
         /\ \A i \in 1 .. Len(l) : l[i] <= Total(l)
<1>1. IsFiniteSet(1 .. Len(l))
  BY FS_Interval
<1>2. l \in [1 .. Len(l) -> Nat]
  OBVIOUS
<1> DEFINE D == 1 .. Len(l)
<1> HIDE DEF D
<1>3. Total(l) \in Nat
  BY <1>1, <1>2, UnitsFinite DEF D
<1>4. \A i \in D : l[i] <= Total(l)
  BY <1>1, <1>2, TotalEntry DEF D
<1> QED BY <1>3, <1>4 DEF D

(* cpu_payload_data computes a list of naturals. *)
LEMMA SeriesList ==
  ASSUME NEW n \in Nat, NEW step \in Nat
  PROVE  Series(n, step) \in Seq(Nat) /\ Len(Series(n, step)) = n
<1>1. \A i \in 1 .. n : i * step \in Nat
  OBVIOUS
<1> QED BY <1>1 DEF Series

(* step + 2 * step + ... + n * step. *)
LEMMA SeriesTotal ==
  ASSUME NEW n \in Nat, NEW step \in Nat
  PROVE  2 * Total(Series(n, step)) = step * (n * (n + 1))
<1> DEFINE Holds(k) == 2 * Total(Series(k, step)) = step * (k * (k + 1))
           T == {k \in Nat : ~ Holds(k)}
<1>1. Holds(0)
  <2>1. DOMAIN Series(0, step) = {}
    BY DEF Series
  <2>2. Total(Series(0, step)) = 0
    BY <2>1, TotalEmpty
  <2> QED BY <2>2
<1>2. ASSUME NEW k \in Nat, Holds(k) PROVE Holds(k + 1)
  <2> DEFINE f == Series(k + 1, step)
  <2>1. f \in [1 .. k + 1 -> Nat] /\ f[k + 1] = (k + 1) * step
    <3>1. \A i \in 1 .. k + 1 : i * step \in Nat
      OBVIOUS
    <3> QED BY <3>1 DEF Series
  <2>2. [i \in 1 .. k |-> f[i]] = Series(k, step)
    BY DEF Series
  <2> HIDE DEF f
  <2>3. Total(f) = Total([i \in 1 .. k |-> f[i]]) + f[k + 1]
    BY <2>1, TotalLast
  <2>4. Total(f) = Total(Series(k, step)) + (k + 1) * step
    BY <2>1, <2>2, <2>3
  <2>5. Total(Series(k, step)) \in Nat
    BY SeriesList, ListTotal
  <2> DEFINE x == Total(Series(k, step))
             y == Total(f)
  <2>6. x \in Nat /\ y = x + (k + 1) * step /\ 2 * x = step * (k * (k + 1))
    BY <1>2, <2>4, <2>5
  <2> HIDE DEF x, y
  <2>7. step * (k * (k + 1)) + 2 * ((k + 1) * step) = step * ((k + 1) * ((k + 1) + 1))
    OBVIOUS
  <2>8. 2 * y = 2 * x + 2 * ((k + 1) * step)
    BY <2>6
  <2>9. 2 * y = step * ((k + 1) * ((k + 1) + 1))
    BY <2>6, <2>7, <2>8
  <2> QED BY <2>9 DEF y, f
<1> HIDE DEF Holds
<1>3. T = {}
  BY <1>1, <1>2, NoCounterexample
<1>4. Holds(n)
  BY <1>3
<1> QED BY <1>4 DEF Holds

(* The number of rounds of cpu_payload_data is the last that fits. *)
LEMMA FittingFits ==
  ASSUME NEW room \in Nat, NEW step \in Nat
  PROVE  /\ Fitting(room, step) \in Nat
         /\ step * (Fitting(room, step) * (Fitting(room, step) + 1)) <= 2 * room
<1> DEFINE S == {n \in 0 .. room : step * (n * (n + 1)) <= 2 * room}
<1>1. 0 \in S /\ S \subseteq Nat /\ \A s \in S : s <= room
  OBVIOUS
<1>2. S # {}
  BY <1>1
<1>3. \A x \in S : x \in Nat /\ step * (x * (x + 1)) <= 2 * room
  OBVIOUS
<1> HIDE DEF S
<1>4. Max(S) \in S
  BY <1>1, <1>2, MaxIn
<1>5. Fitting(room, step) = Max(S)
  BY DEF S, Fitting
<1> QED BY <1>3, <1>4, <1>5

(* cpu_payload_data: the processors to add fit in what the partition may  *)
(* have.                                                                   *)
LEMMA CpuPayload ==
  ASSUME NEW max \in Nat, NEW curr \in Int, NEW step \in Nat
  PROVE  /\ cpu_payload_data(max, curr, step) \in Seq(Nat)
         /\ curr <= max => Total(cpu_payload_data(max, curr, step)) <= max - curr
<1>1. CASE curr > max
  BY <1>1 DEF cpu_payload_data
<1>2. CASE ~(curr > max)
  <2> DEFINE room == max - curr
             n == Fitting(room, step)
             x == Total(Series(n, step))
  <2>1. room \in Nat
    BY <1>2
  <2>2. cpu_payload_data(max, curr, step) = Series(n, step)
    BY <1>2 DEF cpu_payload_data
  <2> HIDE DEF room
  <2>3. n \in Nat /\ step * (n * (n + 1)) <= 2 * room
    BY <2>1, FittingFits
  <2> HIDE DEF n
  <2>4. Series(n, step) \in Seq(Nat) /\ 2 * x = step * (n * (n + 1))
    BY <2>3, SeriesList, SeriesTotal
  <2>5. x \in Nat
    BY <2>4, ListTotal
  <2> DEFINE z == step * (n * (n + 1))
  <2>6. 2 * x = z /\ z <= 2 * room
    BY <2>3, <2>4
  <2> HIDE DEF z, x
  <2>7. x <= room
    BY <2>1, <2>5, <2>6
  <2> QED BY <2>2, <2>4, <2>7 DEF room, x
<1> QED BY <1>1, <1>2

(* The doubled values of mem_payload_data are positive. *)
LEMMA DoublingList ==
  ASSUME NEW m \in Nat
  PROVE  /\ Doubling(m) \in Seq(Nat) /\ Len(Doubling(m)) = m
         /\ \A i \in 1 .. m : Doubling(m)[i] = 2 ^ (i - 1) /\ Doubling(m)[i] >= 1
<1>1. \A i \in 1 .. m : i - 1 \in Nat
  OBVIOUS
<1>2. \A i \in 1 .. m : 2 ^ (i - 1) \in Nat /\ 2 ^ (i - 1) >= 1
  BY <1>1, PowerNat
<1> QED BY <1>2 DEF Doubling

(* 1 + 2 + 4 + ... + 2 ^ (m - 1). *)
LEMMA DoublingTotal ==
  ASSUME NEW m \in Nat
  PROVE  Total(Doubling(m)) + 1 = 2 ^ m
<1> DEFINE Holds(k) == Total(Doubling(k)) + 1 = 2 ^ k
           T == {k \in Nat : ~ Holds(k)}
<1>1. Holds(0)
  <2>1. DOMAIN Doubling(0) = {}
    BY DEF Doubling
  <2>2. Total(Doubling(0)) = 0
    BY <2>1, TotalEmpty
  <2> QED BY <2>2, PowerZero
<1>2. ASSUME NEW k \in Nat, Holds(k) PROVE Holds(k + 1)
  <2> DEFINE f == Doubling(k + 1)
  <2>1. f \in Seq(Nat) /\ Len(f) = k + 1 /\ f[k + 1] = 2 ^ ((k + 1) - 1)
    BY DoublingList
  <2>2. f \in [1 .. k + 1 -> Nat]
    BY <2>1
  <2>3. [i \in 1 .. k |-> f[i]] = Doubling(k)
    BY DEF Doubling
  <2> HIDE DEF f
  <2>4. Total(f) = Total([i \in 1 .. k |-> f[i]]) + f[k + 1]
    BY <2>2, TotalLast
  <2>5. (k + 1) - 1 = k
    OBVIOUS
  <2>6. Total(f) = Total(Doubling(k)) + 2 ^ k
    BY <2>1, <2>3, <2>4, <2>5
  <2>7. 2 ^ k \in Nat /\ 2 ^ (k + 1) = 2 * 2 ^ k /\ Total(Doubling(k)) \in Nat
    BY PowerNat, PowerNext, DoublingList, ListTotal
  <2> DEFINE x == Total(Doubling(k))
             y == 2 ^ k
             z == 2 ^ (k + 1)
  <2>8. x \in Nat /\ y \in Nat /\ x + 1 = y /\ z = 2 * y /\ Total(f) = x + y
    BY <1>2, <2>6, <2>7
  <2> HIDE DEF x, y, z
  <2>9. Total(f) + 1 = z
    BY <2>8
  <2> QED BY <2>9 DEF f, z
<1> HIDE DEF Holds
<1>3. T = {}
  BY <1>1, <1>2, NoCounterexample
<1>4. Holds(m)
  BY <1>3
<1> QED BY <1>4 DEF Holds

(* A value appended to a list is added to its total. *)
LEMMA AppendTotal ==
  ASSUME NEW l \in Seq(Nat), NEW x \in Nat
  PROVE  Total(Append(l, x)) = Total(l) + x
<1> DEFINE n == Len(l)
           f == Append(l, x)
<1>0. f \in Seq(Nat) /\ Len(f) = n + 1 /\ f[n + 1] = x /\ n \in Nat
  OBVIOUS
<1>2. [i \in 1 .. n |-> f[i]] = l
  OBVIOUS
<1> HIDE DEF n, f
<1>1. n \in Nat /\ f \in [1 .. n + 1 -> Nat] /\ f[n + 1] = x
  BY <1>0
<1>3. Total(f) = Total([i \in 1 .. n |-> f[i]]) + f[n + 1]
  BY <1>1, TotalLast
<1>4. Total(f) = Total(l) + x
  BY <1>1, <1>2, <1>3
<1> QED BY <1>4 DEF f

(* mem_payload_data: the list comes to the room there is, and its last     *)
(* value is at least one.                                                  *)
LEMMA MemPayload ==
  ASSUME NEW room \in Nat
  PROVE  /\ mem_payload_data(room) \in Seq(Nat)
         /\ \A i \in 1 .. Len(mem_payload_data(room)) : mem_payload_data(room)[i] >= 1
         /\ Total(mem_payload_data(room)) = room
<1> DEFINE S == {n \in 0 .. room : 2 ^ n <= room + 1}
           m == Max(S)
           l == Doubling(m)
           rest == room + 1 - 2 ^ m
<1>1. S \subseteq Nat /\ \A s \in S : s <= room /\ 2 ^ s <= room + 1
  OBVIOUS
<1>2. 0 \in S
  BY PowerZero
<1>3. mem_payload_data(room) = IF rest = 0 THEN l ELSE Append(l, rest)
  BY DEF mem_payload_data
<1> HIDE DEF S
<1>4. m \in S
  BY <1>1, <1>2, MaxIn
<1>5. m \in Nat /\ 2 ^ m <= room + 1
  BY <1>1, <1>4
<1> HIDE DEF m
<1>6. /\ l \in Seq(Nat) /\ Len(l) = m /\ \A i \in 1 .. m : l[i] >= 1
      /\ Total(l) + 1 = 2 ^ m /\ 2 ^ m \in Nat /\ Total(l) \in Nat
  BY <1>5, DoublingList, DoublingTotal, PowerNat, ListTotal
<1> HIDE DEF l
<1> DEFINE p == 2 ^ m
<1>7. p \in Nat /\ Total(l) + 1 = p /\ p <= room + 1 /\ rest = room + 1 - p
  BY <1>5, <1>6
<1> HIDE DEF p, rest
<1>8. rest \in Nat /\ Total(l) + rest = room
  BY <1>6, <1>7
<1>9. CASE rest = 0
  BY <1>3, <1>6, <1>8, <1>9
<1>10. CASE rest # 0
  <2>1. Append(l, rest) \in Seq(Nat)
    BY <1>6, <1>8
  <2>2. \A i \in 1 .. Len(Append(l, rest)) : Append(l, rest)[i] >= 1
    BY <1>6, <1>8, <1>10
  <2>3. Total(Append(l, rest)) = room
    BY <1>6, <1>8, AppendTotal
  <2> QED BY <1>3, <1>10, <2>1, <2>2, <2>3
<1> QED BY <1>9, <1>10

(* Without its last value a list of positive values comes to less. *)
ButLast(l) == [i \in 1 .. Len(l) - 1 |-> l[i]]

(* Leaving out the last value of a list of positive values takes at least  *)
(* one from its total.                                                     *)
LEMMA FrontTotal ==
  ASSUME NEW l \in Seq(Nat)
  PROVE  /\ ButLast(l) \in Seq(Nat)
         /\ l # << >> => Len(ButLast(l)) = Len(l) - 1
         /\ l = << >> => Len(ButLast(l)) = 0
         /\ Total(ButLast(l)) <= Total(l)
         /\ Total(l) >= 1 /\ (\A i \in 1 .. Len(l) : l[i] >= 1)
              => Total(ButLast(l)) <= Total(l) - 1
<1>1. CASE l = << >>
  <2>1. 1 .. Len(l) - 1 = 1 .. 0
    BY <1>1
  <2>2. ButLast(l) = [i \in 1 .. 0 |-> l[i]]
    BY <2>1 DEF ButLast
  <2>3. ButLast(l) \in Seq(Nat) /\ Len(ButLast(l)) = 0
    BY <2>2
  <2>4. DOMAIN l = {} /\ DOMAIN ButLast(l) = {}
    BY <1>1, <2>2
  <2>5. Total(l) = 0 /\ Total(ButLast(l)) = 0
    BY <2>4, TotalEmpty
  <2> QED BY <1>1, <2>3, <2>5
<1>2. CASE l # << >>
  <2> DEFINE n == Len(l) - 1
  <2>1. n \in Nat /\ Len(l) = n + 1
    BY <1>2
  <2>2. ButLast(l) = [i \in 1 .. n |-> l[i]]
    BY DEF ButLast
  <2> HIDE DEF n
  <2>3. l \in [1 .. n + 1 -> Nat] /\ l[n + 1] \in Nat
    BY <2>1
  <2>4. ButLast(l) \in Seq(Nat) /\ Len(ButLast(l)) = n
    BY <2>1, <2>2, <2>3
  <2>5. Total(l) = Total(ButLast(l)) + l[n + 1]
    BY <2>1, <2>2, <2>3, TotalLast
  <2>6. Total(ButLast(l)) \in Nat /\ Total(l) \in Nat
    BY <2>4, ListTotal
  <2>7. (\A i \in 1 .. Len(l) : l[i] >= 1) => l[n + 1] >= 1
    BY <2>1
  <2>8. /\ Total(ButLast(l)) <= Total(l)
        /\ l[n + 1] >= 1 => Total(ButLast(l)) <= Total(l) - 1
    BY <2>3, <2>5, <2>6
  <2> QED BY <1>2, <2>1, <2>4, <2>7, <2>8
<1> QED BY <1>1, <1>2

(* mix_payload_data: no value is above the sum. *)
LEMMA MixPayload ==
  ASSUME NEW values \in Seq(Nat), NEW m \in mix_payload_data(values)
  PROVE  /\ Append(m, Total(m)) \in Seq(Nat)
         /\ \A i \in 1 .. Len(Append(m, Total(m))) : Append(m, Total(m))[i] <= Total(values)
<1> DEFINE n == Total(values)
<1>1. n \in Nat
  BY ListTotal
<1>2. PICK k \in 0 .. n : m \in [1 .. k -> 1 .. n - k + 1] /\ Total(m) = n
  BY DEF mix_payload_data
<1> HIDE DEF n
<1>3. m \in Seq(Nat)
  BY <1>1, <1>2
<1>4. \A i \in 1 .. Len(m) : m[i] <= n
  BY <1>2, <1>3, ListTotal
<1> QED BY <1>1, <1>2, <1>3, <1>4 DEF n

(* A list read from its end. *)
LEMMA ReverseTotal ==
  ASSUME NEW l \in Seq(Nat)
  PROVE  LET n == Len(l)
             r == [i \in 1 .. n |-> l[n + 1 - i]]
         IN  r \in Seq(Nat) /\ Len(r) = n /\ Total(r) = Total(l)
<1> DEFINE n == Len(l)
           r == [i \in 1 .. n |-> l[n + 1 - i]]
           D == 1 .. n
<1>1. n \in Nat /\ l \in [D -> Nat]
  OBVIOUS
<1>2. \A i \in D : n + 1 - i \in D
  BY <1>1
<1>3. r \in [D -> Nat] /\ \A i \in D : r[i] = l[n + 1 - i]
  BY <1>1, <1>2
<1> HIDE DEF r, n
<1>4. r \in Seq(Nat) /\ Len(r) = n
  BY <1>1, <1>3
<1>5. IsUpTo(D, n) /\ Reverses(r, l, n)
  BY <1>3 DEF IsUpTo, Reverses
<1> HIDE DEF D
<1>6. Total(r) = Total(l)
  BY <1>1, <1>3, <1>5, TotalReverse
<1> QED BY <1>4, <1>6 DEF r, n

-----------------------------------------------------------------------------
(* Plans of commands. *)

(* The commands to the HMC. *)
Command == [op : {"a", "r", "m"}, res : Resources, qty : Nat]

(* What one command comes to, and the commands of a plan. *)
Own(c, ops, r) == IF c.op \in ops /\ c.res = r THEN c.qty ELSE 0
Weights(p, ops, r) == [i \in 1 .. Len(p) |-> Own(p[i], ops, r)]

(* The amount of a plan is the total of a list of naturals. *)
LEMMA WeightsList ==
  ASSUME NEW p \in Seq(Command), NEW ops, NEW r
  PROVE  /\ Weights(p, ops, r) \in Seq(Nat) /\ Len(Weights(p, ops, r)) = Len(p)
         /\ \A i \in 1 .. Len(p) : Weights(p, ops, r)[i] = Own(p[i], ops, r)
         /\ Amount(p, ops, r) = Total(Weights(p, ops, r))
         /\ Amount(p, ops, r) \in Nat
<1>1. \A i \in 1 .. Len(p) : Own(p[i], ops, r) \in Nat
  <2> SUFFICES ASSUME NEW i \in 1 .. Len(p) PROVE Own(p[i], ops, r) \in Nat
    OBVIOUS
  <2>1. p[i] \in Command
    OBVIOUS
  <2>2. p[i].qty \in Nat
    BY <2>1 DEF Command
  <2> QED BY <2>2 DEF Own
<1>2. Weights(p, ops, r) \in Seq(Nat) /\ Len(Weights(p, ops, r)) = Len(p)
  BY <1>1 DEF Weights
<1>3. Amount(p, ops, r) = Total(Weights(p, ops, r))
  BY DEF Amount, Weights, Own
<1> QED BY <1>2, <1>3, ListTotal DEF Weights

(* The empty plan comes to nothing. *)
LEMMA AmountEmpty ==
  ASSUME NEW ops, NEW r
  PROVE  Amount(<< >>, ops, r) = 0
<1>1. DOMAIN Weights(<< >>, ops, r) = {}
  BY DEF Weights
<1>2. Amount(<< >>, ops, r) = Total(Weights(<< >>, ops, r))
  BY DEF Amount, Weights, Own
<1> QED BY <1>1, <1>2, TotalEmpty

(* The amount of a plan is that of its first command and of the rest. *)
LEMMA AmountPeel ==
  ASSUME NEW p \in Seq(Command), p # << >>, NEW ops, NEW r
  PROVE  /\ Tail(p) \in Seq(Command) /\ Head(p) \in Command
         /\ Amount(p, ops, r) = Own(Head(p), ops, r) + Amount(Tail(p), ops, r)
         /\ Own(Head(p), ops, r) \in Nat /\ Amount(Tail(p), ops, r) \in Nat
<1> DEFINE f == Weights(p, ops, r)
           g == Weights(Tail(p), ops, r)
           n == Len(p) - 1
<1>1. n \in Nat /\ Len(p) = n + 1 /\ Tail(p) \in Seq(Command) /\ Head(p) \in Command
  OBVIOUS
<1>2. Len(Tail(p)) = n /\ Head(p) = p[1] /\ \A i \in 1 .. n : Tail(p)[i] = p[i + 1]
  OBVIOUS
<1> HIDE DEF n
<1>3. f \in [1 .. n + 1 -> Nat] /\ f[1] = Own(Head(p), ops, r) /\ f[1] \in Nat
  <2>1. f \in Seq(Nat) /\ Len(f) = n + 1
    BY <1>1, WeightsList
  <2>2. 1 \in 1 .. n + 1
    BY <1>1
  <2> HIDE DEF f
  <2>3. f \in [1 .. n + 1 -> Nat] /\ f[1] \in Nat
    BY <1>1, <2>1, <2>2
  <2> QED BY <1>1, <1>2, <2>2, <2>3 DEF f, Weights
<1>4. [i \in 1 .. n |-> f[i + 1]] = g
  BY <1>1, <1>2 DEF Weights
<1> HIDE DEF f, g
<1>5. Total(f) = f[1] + Total([i \in 1 .. n |-> f[i + 1]])
  BY <1>1, <1>3, TotalPeel
<1>6. Amount(p, ops, r) = Total(f) /\ Amount(Tail(p), ops, r) = Total(g)
  BY <1>1, WeightsList DEF f, g
<1>7. Amount(Tail(p), ops, r) \in Nat
  BY <1>1, WeightsList
<1> QED BY <1>1, <1>3, <1>4, <1>5, <1>6, <1>7

(* One command for each value of a list. *)
Listed(o, r, l) == [i \in 1 .. Len(l) |-> [op |-> o, res |-> r, qty |-> l[i]]]

(* A loop over a list sends one command for each of its values. *)
LEMMA ListedPlan ==
  ASSUME NEW o \in {"a", "r", "m"}, NEW r \in Resources, NEW l \in Seq(Nat)
  PROVE  /\ Listed(o, r, l) \in Seq(Command) /\ Len(Listed(o, r, l)) = Len(l)
         /\ \A i \in 1 .. Len(l) : /\ Listed(o, r, l)[i].op = o
                                  /\ Listed(o, r, l)[i].res = r
                                  /\ Listed(o, r, l)[i].qty = l[i]
<1>1. Listed(o, r, l) \in Seq(Command) /\ Len(Listed(o, r, l)) = Len(l)
  BY DEF Listed, Command
<1>2. ASSUME NEW i \in 1 .. Len(l)
      PROVE  /\ Listed(o, r, l)[i].op = o /\ Listed(o, r, l)[i].res = r
             /\ Listed(o, r, l)[i].qty = l[i]
  <2>1. Listed(o, r, l)[i] = [op |-> o, res |-> r, qty |-> l[i]]
    BY DEF Listed
  <2> QED BY <2>1
<1> QED BY <1>1, <1>2

(* What such a loop comes to is the total of its list. *)
LEMMA ListedAmount ==
  ASSUME NEW o \in {"a", "r", "m"}, NEW r \in Resources, NEW l \in Seq(Nat), NEW ops, NEW s
  PROVE  Amount(Listed(o, r, l), ops, s) = IF o \in ops /\ r = s THEN Total(l) ELSE 0
<1> DEFINE p == Listed(o, r, l)
<1>1. p \in Seq(Command) /\ Len(p) = Len(l)
  BY ListedPlan
<1>2. Amount(p, ops, s) = Total(Weights(p, ops, s))
  BY <1>1, WeightsList
<1>3. \A i \in 1 .. Len(l) : Own(p[i], ops, s) = IF o \in ops /\ r = s THEN l[i] ELSE 0
  <2>1. \A i \in 1 .. Len(l) : p[i].op = o /\ p[i].res = r /\ p[i].qty = l[i]
    BY ListedPlan
  <2> HIDE DEF p
  <2> QED BY <2>1 DEF Own
<1>4. CASE o \in ops /\ r = s
  <2>1. Weights(p, ops, s) = l
    BY <1>1, <1>3, <1>4 DEF Weights
  <2> QED BY <1>2, <1>4, <2>1
<1>5. CASE ~(o \in ops /\ r = s)
  <2>1. Weights(p, ops, s) = [i \in 1 .. Len(l) |-> 0]
    BY <1>1, <1>3, <1>5 DEF Weights
  <2> QED BY <1>2, <1>5, <2>1, TotalZero
<1> QED BY <1>4, <1>5

(* The commands of a loop that sends two of them in each round. *)
LEMMA AlternatePlan ==
  ASSUME NEW p \in Seq(Command), NEW q \in Seq(Command), Len(p) = Len(q)
  PROVE  /\ Alternate(p, q) \in Seq(Command)
         /\ Len(Alternate(p, q)) = 2 * Len(p)
         /\ \A i \in 1 .. 2 * Len(p) :
              /\ i % 2 = 1 => (i + 1) \div 2 \in 1 .. Len(p) /\ i = 2 * ((i + 1) \div 2) - 1
                              /\ Alternate(p, q)[i] = p[(i + 1) \div 2]
              /\ i % 2 # 1 => i \div 2 \in 1 .. Len(p) /\ i = 2 * (i \div 2)
                              /\ Alternate(p, q)[i] = q[i \div 2]
<1> DEFINE n == Len(p)
           a == Alternate(p, q)
<1>1. n \in Nat /\ Len(q) = n
  OBVIOUS
<1>2. a = [i \in 1 .. 2 * n |-> IF i % 2 = 1 THEN p[(i + 1) \div 2] ELSE q[i \div 2]]
  BY DEF Alternate
<1>3. \A i \in 1 .. n : p[i] \in Command /\ q[i] \in Command
  OBVIOUS
<1> HIDE DEF n, a
<1>4. ASSUME NEW i \in 1 .. 2 * n
      PROVE  /\ i % 2 = 1 => (i + 1) \div 2 \in 1 .. n /\ i = 2 * ((i + 1) \div 2) - 1
                             /\ a[i] = p[(i + 1) \div 2]
             /\ i % 2 # 1 => i \div 2 \in 1 .. n /\ i = 2 * (i \div 2)
                             /\ a[i] = q[i \div 2]
  BY <1>1, <1>2, OddAndEven
<1>5. \A i \in 1 .. 2 * n : a[i] \in Command
  BY <1>3, <1>4
<1>6. a \in [1 .. 2 * n -> Command] /\ 2 * n \in Nat
  BY <1>1, <1>2, <1>5
<1>7. a \in Seq(Command) /\ Len(a) = 2 * n
  BY <1>6
<1> QED BY <1>4, <1>7 DEF n, a

(* What such a loop comes to is what its two lists come to. *)
LEMMA AlternateAmount ==
  ASSUME NEW p \in Seq(Command), NEW q \in Seq(Command), Len(p) = Len(q), NEW ops, NEW r
  PROVE  Amount(Alternate(p, q), ops, r) = Amount(p, ops, r) + Amount(q, ops, r)
<1> DEFINE n == Len(p)
           a == Alternate(p, q)
           N == 1 .. n
           D == 1 .. 2 * n
           e == Weights(a, ops, r)
           f == Weights(p, ops, r)
           g == Weights(q, ops, r)
<1>1. n \in Nat /\ a \in Seq(Command) /\ Len(a) = 2 * n /\ Len(q) = n
  BY AlternatePlan
<1>2. \A i \in D : /\ i % 2 = 1 => (i + 1) \div 2 \in N /\ a[i] = p[(i + 1) \div 2]
                   /\ i % 2 # 1 => i \div 2 \in N /\ a[i] = q[i \div 2]
  BY AlternatePlan
<1>3. /\ \A i \in D : e[i] = Own(a[i], ops, r)
      /\ \A i \in N : f[i] = Own(p[i], ops, r) /\ g[i] = Own(q[i], ops, r)
  BY <1>1 DEF Weights
<1>4. /\ e \in Seq(Nat) /\ Len(e) = 2 * n /\ f \in Seq(Nat) /\ Len(f) = n
      /\ g \in Seq(Nat) /\ Len(g) = n
      /\ Amount(a, ops, r) = Total(e) /\ Amount(p, ops, r) = Total(f)
      /\ Amount(q, ops, r) = Total(g)
  BY <1>1, WeightsList
<1> HIDE DEF n, a, e, f, g
<1>5. e \in [D -> Nat] /\ f \in [N -> Nat] /\ g \in [N -> Nat]
  <2>1. e \in [1 .. Len(e) -> Nat] /\ f \in [1 .. Len(f) -> Nat] /\ g \in [1 .. Len(g) -> Nat]
    BY <1>4, ListFunction
  <2> QED BY <1>4, <2>1
<1>6. IsUpTo(N, n) /\ IsUpTo(D, 2 * n)
  BY DEF IsUpTo
<1>7. Alternates(e, f, g)
  <2>1. DOMAIN e = D
    BY <1>5
  <2> HIDE DEF D, N
  <2> QED BY <1>2, <1>3, <2>1 DEF Alternates
<1> HIDE DEF D, N
<1>8. Total(e) = Total(f) + Total(g)
  BY <1>1, <1>5, <1>6, <1>7, TotalAlternate
<1> QED BY <1>4, <1>8 DEF a

(* The shapes of the plans: one kind of command, or additions and removals *)
(* in turn that end with a removal.                                        *)
OneKind(p, o, r) == \A i \in 1 .. Len(p) : p[i].op = o /\ p[i].res = r

Turns(p, r) ==
  \A i \in 1 .. Len(p) :
    p[i].res = r /\ p[i].op = IF (Len(p) - i) % 2 = 0 THEN "r" ELSE "a"
Covered(p) == \A i \in 1 .. Len(p) - 1 : p[i].op = "a" => p[i + 1].qty <= p[i].qty
Matched(p) == \A i \in 1 .. Len(p) - 1 : p[i].op = "a" => p[i + 1].qty = p[i].qty

(* A loop with one command in its body sends commands of one kind. *)
LEMMA ListedKind ==
  ASSUME NEW o \in {"a", "r", "m"}, NEW r \in Resources, NEW l \in Seq(Nat)
  PROVE  OneKind(Listed(o, r, l), o, r)
  BY ListedPlan DEF OneKind

(* What stays of a plan after its first command keeps its shape. *)
LEMMA TailShape ==
  ASSUME NEW p \in Seq(Command), p # << >>
  PROVE  /\ \A o, r : OneKind(p, o, r) => OneKind(Tail(p), o, r) /\ Head(p).op = o /\ Head(p).res = r
         /\ \A r : Turns(p, r) => Turns(Tail(p), r) /\ Head(p).res = r /\ Head(p).op \in {"a", "r"}
         /\ Covered(p) => Covered(Tail(p))
         /\ Matched(p) => Matched(Tail(p))
<1> DEFINE n == Len(p) - 1
           q == Tail(p)
<1>1. n \in Nat /\ Len(p) = n + 1 /\ Len(q) = n /\ q \in Seq(Command)
  OBVIOUS
<1>2. Head(p) = p[1] /\ \A i \in 1 .. n : q[i] = p[i + 1]
  OBVIOUS
<1> HIDE DEF n, q
<1>3. 1 \in 1 .. n + 1 /\ \A i \in 1 .. n : i + 1 \in 1 .. n + 1
  BY <1>1
<1>4. \A o, r : OneKind(p, o, r) => OneKind(q, o, r) /\ Head(p).op = o /\ Head(p).res = r
  BY <1>1, <1>2, <1>3 DEF OneKind
<1>5. \A i \in 1 .. n : (n + 1) - (i + 1) = n - i
  BY <1>1
<1>6. \A r : Turns(p, r) => Turns(q, r) /\ Head(p).res = r /\ Head(p).op \in {"a", "r"}
  BY <1>1, <1>2, <1>3, <1>5 DEF Turns
<1>7. \A i \in 1 .. n - 1 : i \in 1 .. n /\ i + 1 \in 1 .. n
  BY <1>1
<1>8. (Covered(p) => Covered(q)) /\ (Matched(p) => Matched(q))
  BY <1>1, <1>2, <1>7 DEF Covered, Matched
<1> QED BY <1>4, <1>6, <1>8 DEF q

(* Additions and removals in turn. *)
LEMMA TurnsPlan ==
  ASSUME NEW r \in Resources, NEW k \in Seq(Nat), NEW l \in Seq(Nat), Len(k) = Len(l)
  PROVE  LET a == Alternate(Listed("a", r, k), Listed("r", r, l)) IN
         /\ a \in Seq(Command) /\ Turns(a, r)
         /\ (\A i \in 1 .. Len(k) : l[i] <= k[i]) => Covered(a)
         /\ (\A i \in 1 .. Len(k) : l[i] = k[i]) => Matched(a)
         /\ \A b : (\A i \in 1 .. Len(k) : k[i] <= b /\ l[i] <= b)
                     => \A i \in 1 .. Len(a) : a[i].qty <= b
         /\ Amount(a, {"a"}, r) = Total(k)
<1> DEFINE n == Len(k)
           p == Listed("a", r, k)
           q == Listed("r", r, l)
           a == Alternate(p, q)
<1>0. n \in Nat /\ Len(l) = n
  OBVIOUS
<1>1. /\ p \in Seq(Command) /\ q \in Seq(Command) /\ Len(p) = n /\ Len(q) = n
      /\ \A i \in 1 .. n : /\ p[i].op = "a" /\ p[i].res = r /\ p[i].qty = k[i]
                           /\ q[i].op = "r" /\ q[i].res = r /\ q[i].qty = l[i]
  BY ListedPlan
<1>2. Amount(p, {"a"}, r) = Total(k) /\ Amount(q, {"a"}, r) = 0 /\ Total(k) \in Nat
  BY ListedAmount, ListTotal
<1> HIDE DEF p, q
<1>3. a \in Seq(Command) /\ Len(a) = 2 * n
  BY <1>1, AlternatePlan
<1>4. \A i \in 1 .. 2 * n :
        /\ i % 2 = 1 => (i + 1) \div 2 \in 1 .. n /\ i = 2 * ((i + 1) \div 2) - 1
                        /\ a[i] = p[(i + 1) \div 2]
        /\ i % 2 # 1 => i \div 2 \in 1 .. n /\ i = 2 * (i \div 2)
                        /\ a[i] = q[i \div 2]
  BY <1>1, AlternatePlan
<1>5. Amount(a, {"a"}, r) = Total(k)
  BY <1>1, <1>2, AlternateAmount
<1> HIDE DEF n, a
<1>6. ASSUME NEW i \in 1 .. 2 * n
      PROVE  /\ (2 * n - i) % 2 = 0 =>
                  a[i].op = "r" /\ a[i].res = r /\ \E j \in 1 .. n : a[i].qty = l[j]
             /\ (2 * n - i) % 2 # 0 =>
                  /\ a[i].op = "a" /\ a[i].res = r
                  /\ \E j \in 1 .. n : a[i].qty = k[j] /\ a[i + 1].qty = l[j]
  <2>1. CASE i % 2 = 1
    <3> DEFINE j == (i + 1) \div 2
    <3>1. j \in 1 .. n /\ i = 2 * j - 1 /\ a[i] = p[j]
      BY <1>4, <2>1
    <3> HIDE DEF j
    <3>2. (2 * n - i) % 2 # 0
      BY <1>0, <3>1
    <3>3. i + 1 \in 1 .. 2 * n /\ (i + 1) % 2 # 1 /\ (i + 1) \div 2 = j
      BY <1>0, <3>1
    <3>4. a[i + 1] = q[j]
      BY <1>4, <3>3
    <3> QED BY <1>1, <3>1, <3>2, <3>4
  <2>2. CASE i % 2 # 1
    <3> DEFINE j == i \div 2
    <3>1. j \in 1 .. n /\ i = 2 * j /\ a[i] = q[j]
      BY <1>4, <2>2
    <3> HIDE DEF j
    <3>2. (2 * n - i) % 2 = 0
      BY <1>0, <3>1
    <3> QED BY <1>1, <3>1, <3>2
  <2> QED BY <2>1, <2>2
<1>7. Turns(a, r)
  BY <1>3, <1>6 DEF Turns
<1>8. (\A i \in 1 .. n : l[i] <= k[i]) => Covered(a)
  BY <1>3, <1>6 DEF Covered
<1>9. (\A i \in 1 .. n : l[i] = k[i]) => Matched(a)
  BY <1>3, <1>6 DEF Matched
<1>10. \A b : (\A i \in 1 .. n : k[i] <= b /\ l[i] <= b) => \A i \in 1 .. Len(a) : a[i].qty <= b
  BY <1>3, <1>6
<1> QED BY <1>3, <1>5, <1>7, <1>8, <1>9, <1>10 DEF n, a, p, q

(* A loop that adds and removes begins with an addition. *)
LEMMA TurnsStart ==
  ASSUME NEW r \in Resources, NEW k \in Seq(Nat), NEW l \in Seq(Nat), Len(k) = Len(l), NEW a,
         a = Alternate(Listed("a", r, k), Listed("r", r, l)), a # << >>
  PROVE  Head(a).op = "a"
<1> DEFINE p == Listed("a", r, k)
           q == Listed("r", r, l)
           n == Len(k)
<1>1. p \in Seq(Command) /\ q \in Seq(Command) /\ Len(p) = n /\ Len(q) = n /\ n \in Nat
  BY ListedPlan
<1>2. a = Alternate(p, q)
  OBVIOUS
<1>3. \A i \in 1 .. n : p[i].op = "a"
  BY ListedPlan
<1> HIDE DEF p, q, n
<1>4. a \in Seq(Command) /\ Len(a) = 2 * n
  BY <1>1, <1>2, AlternatePlan
<1>5. 1 \in 1 .. 2 * n
  BY <1>1, <1>4
<1>6. 1 % 2 = 1 /\ (1 + 1) \div 2 = 1 /\ 1 \in 1 .. n
  BY <1>1, <1>5
<1>7. a[1] = p[1]
  BY <1>2, <1>1, <1>5, <1>6 DEF Alternate
<1> QED BY <1>3, <1>4, <1>6, <1>7

-----------------------------------------------------------------------------
(* The inductive invariant.                                                *)

Verdicts == {"RUNNING", "PASS", "FAIL", "CANCEL", "ERROR"}

(* The constants of a run, and the counters of jobs. *)
ModeInv ==
  /\ mode \in {"dedicated", "shared"}
  /\ maxProcs \in Nat /\ InitProcs <= maxProcs
  /\ selection \in Selections /\ job \in Nat /\ fresh \in BOOLEAN

(* Both partitions stay within the profile, whatever the HMC does. *)
MachineInv ==
  /\ lpar \in [Resources -> Int] /\ other \in [Resources -> Int]
  /\ before \in [Resources -> Int] /\ goal \in [Resources -> Int]
  /\ found \in [Resources -> Int]
  /\ Within(lpar) /\ Within(other) /\ Within(before) /\ Within(found)

(* The lines of config.txt; in shared mode they come in pairs. *)
FileInv ==
  /\ file \in Seq(Seq(Nat))
  /\ mode = "shared" /\ file # << >> => Len(file) >= 2 /\ Len(file[1]) = Len(file[2])

(* Only a test that runs has commands to send. *)
PlanInv ==
  /\ plan \in Seq(Command)
  /\ verdict # "RUNNING" => plan = << >>

(* The tests of a job run in the order of the class. *)
After(t) == \A i \in 1 .. Len(left) : Order[t] < Order[left[i]]

(* A test that has passed comes before those that are left, so none        *)
(* passes twice in a job.                                                  *)
OrderInv ==
  /\ left \in Seq(Tests) /\ InOrder(left)
  /\ test \in Tests /\ verdict \in Verdicts /\ passed \subseteq Tests
  /\ \A t \in passed : After(t) /\ Order[t] <= Order[test]
  /\ passed # {} \/ verdict = "RUNNING" => After(test)
  /\ verdict = "RUNNING" => test \notin passed
  /\ verdict = "PASS" => test \in passed

(* What is still to be sent leads to the goal. *)
GoalInv ==
  verdict \in {"RUNNING", "PASS"} /\ test \notin Lenient => goal = AllDone(plan)

(* What the lines f say test_cpu_add has added. *)
FiledIn(f, r) ==
  CASE r = "procs" -> Total(f[1])
    [] r = "units" -> IF mode = "shared" THEN Total(f[2]) ELSE 0
    [] r = "mem"   -> 0
IsFiled(m) == file # << >> /\ \A r \in Resources : m[r] = found[r] + FiledIn(file, r)

(* What links test_cpu_add, config.txt and the two tests after it. *)
UndoneInv ==
  /\ (\E i \in 1 .. Len(left) : left[i] = "test_cpu_add")
       => lpar = found /\ (fresh => file = << >>)
  /\ verdict = "RUNNING" /\ test = "test_cpu_add" /\ fresh => IsFiled(goal)
  /\ fresh /\ "test_cpu_add" \in passed
       => /\ test = "test_cpu_add" => IsFiled(lpar)
          /\ test = "test_cpu_rm" /\ verdict = "RUNNING" => goal = found
          /\ test = "test_cpu_rm" /\ "test_cpu_rm" \in passed => lpar = found
          /\ file # << >> => found.procs + Total(file[1]) <= maxProcs

(* What the removal that comes next takes. *)
OwedBy(p) == IF p # << >> /\ Head(p).op = "r" THEN Head(p).qty ELSE 0
Owed == OwedBy(plan)

(* What test_mem_add has still to add fits. *)
MemAddInv ==
  verdict = "RUNNING" /\ test = "test_mem_add" =>
    /\ OneKind(plan, "a", "mem")
    /\ lpar.mem + Amount(plan, {"a"}, "mem") <= MaxMem

(* What test_mem_rem has still to remove leaves two tenths of the memory. *)
MemRemInv ==
  test = "test_mem_rem" =>
    /\ 10 * lpar.mem >= 2 * before.mem
    /\ verdict = "RUNNING" =>
         /\ OneKind(plan, "r", "mem")
         /\ 10 * (lpar.mem - Amount(plan, {"r", "m"}, "mem")) >= 2 * before.mem

(* What test_mem_mix has still to add fits, and what it owes is there. *)
MemMixInv ==
  test = "test_mem_mix" =>
    /\ lpar.mem >= before.mem
    /\ verdict = "RUNNING" =>
         /\ Turns(plan, "mem") /\ Covered(plan)
         /\ lpar.mem >= before.mem + Owed
         /\ lpar.mem + Amount(plan, {"a"}, "mem") <= MaxMem

(* What test_cpu_add has still to add fits. *)
CpuAddInv ==
  verdict = "RUNNING" /\ test = "test_cpu_add" /\ mode = "dedicated" =>
    /\ OneKind(plan, "a", "procs")
    /\ lpar.procs + Amount(plan, {"a"}, "procs") <= maxProcs

(* test_cpu_rm adds nothing. *)
CpuRmInv ==
  verdict = "RUNNING" /\ test = "test_cpu_rm" /\ mode = "dedicated" =>
    OneKind(plan, "r", "procs") /\ Amount(plan, {"a"}, "procs") = 0

(* Between two pairs test_mix_cpu is where the job began, and each value   *)
(* fits on top of that.                                                    *)
CpuMixInv ==
  verdict = "RUNNING" /\ test = "test_mix_cpu" /\ mode = "dedicated" =>
    /\ Turns(plan, "procs") /\ Matched(plan)
    /\ fresh /\ {"test_cpu_add", "test_cpu_rm"} \subseteq passed =>
         /\ lpar.procs = found.procs + Owed
         /\ \A i \in 1 .. Len(plan) : found.procs + plan[i].qty <= maxProcs

(* What the last three tests have still to add or to remove keeps them     *)
(* within their drift, whatever was done of the commands before.           *)
DriftInv ==
  test \in Lenient =>
    \A r \in Resources :
      /\ lpar[r] + Amount(plan, {"a"}, r) <= before[r] + Drift[r]
      /\ before[r] + Amount(plan, {"r", "m"}, r) <= lpar[r] + Drift[r]

(* Types, the profile, and the order of the tests. *)
TypedInv == ModeInv /\ MachineInv /\ FileInv /\ PlanInv /\ OrderInv
(* The inductive invariant. *)
DlparInv ==
  /\ TypedInv /\ DriftInv /\ GoalInv /\ UndoneInv
  /\ MemAddInv /\ MemRemInv /\ MemMixInv /\ CpuAddInv /\ CpuRmInv /\ CpuMixInv

-----------------------------------------------------------------------------
(* What the tests set out to do. *)

(* What DlparAssumption says of each constant. *)
LEMMA Profile ==
  /\ MinProcs \in Nat /\ MinProcs >= 1 /\ InitProcs \in Nat /\ InitUnits \in Nat
  /\ MinMem \in Nat /\ MinMem >= 1 /\ MaxMem \in Nat /\ InitMem \in Nat
  /\ MoveProcs \in Nat /\ MoveUnits \in Nat /\ MemQuant \in Nat /\ MaxJobs \in Nat
  /\ Many \in Nat
  /\ MinProcs <= InitProcs /\ MinMem <= InitMem /\ InitMem <= MaxMem
  /\ InitUnits <= 4 * InitProcs /\ 5 * InitUnits >= InitProcs
  /\ \A m \in MaxProcsSet : m \in Nat /\ InitProcs <= m
  /\ \A s \in Selections : s \in Seq(Tests) /\ s # << >> /\ InOrder(s)
  BY DlparAssumption

(* What it means for a partition to be within the profile. *)
LEMMA WithinFacts ==
  ASSUME ModeInv, NEW m \in [Resources -> Int], Within(m)
  PROVE  /\ m.procs \in Nat /\ MinProcs <= m.procs /\ m.procs <= maxProcs
         /\ m.mem \in Nat /\ MinMem <= m.mem /\ m.mem <= MaxMem
         /\ m.units \in Int
  BY Profile DEF ModeInv, Within, Resources

(* In shared mode test_cpu_add computes two lists of the same length. *)
LEMMA CpuAddPairs ==
  ASSUME ModeInv, MachineInv
  PROVE  /\ test_cpu_addPairs \in Seq(Seq(Nat)) /\ Len(test_cpu_addPairs) = 2
         /\ test_cpu_addPairs[1] \in Seq(Nat) /\ test_cpu_addPairs[2] \in Seq(Nat)
         /\ Len(test_cpu_addPairs[1]) = Len(test_cpu_addPairs[2])
<1> DEFINE s  == IF maxProcs > Many THEN 2 ELSE 1
           vp == cpu_payload_data(maxProcs, lpar.procs, s)
           pu == cpu_payload_data(4 * maxProcs, lpar.units, 3)
           n  == IF Len(vp) < Len(pu) THEN Len(vp) ELSE Len(pu)
           ok == IF s <= 5 * 3 /\ 3 <= 4 * s THEN n ELSE 0
<1>1. maxProcs \in Nat /\ 4 * maxProcs \in Nat /\ lpar.procs \in Int /\ lpar.units \in Int
  BY WithinFacts DEF ModeInv, MachineInv
<1>2. s \in Nat
  OBVIOUS
<1> HIDE DEF s
<1>3. vp \in Seq(Nat) /\ pu \in Seq(Nat)
  BY <1>1, <1>2, CpuPayload
<1> HIDE DEF vp, pu
<1>4. ok \in Nat
  BY <1>3
<1>5. test_cpu_addPairs = << Series(ok, s), Series(ok, 3) >>
  BY DEF test_cpu_addPairs, s, vp, pu
<1> HIDE DEF ok
<1>6. /\ Series(ok, s) \in Seq(Nat) /\ Series(ok, 3) \in Seq(Nat)
      /\ Len(Series(ok, s)) = ok /\ Len(Series(ok, 3)) = ok
  BY <1>2, <1>4, SeriesList
<1> QED BY <1>5, <1>6

(* test_cpu_add sends what it writes to config.txt, and in dedicated mode  *)
(* no more than the maximum leaves room for.                               *)
LEMMA CpuAddPlan ==
  ASSUME ModeInv, MachineInv, NEW p \in test_cpu_add, NEW b,
         b = data_payload_backup("test_cpu_add")
  PROVE  /\ p \in Seq(Command) /\ b \in Seq(Seq(Nat)) /\ b # << >>
         /\ mode = "shared" => Len(b) = 2 /\ Len(b[1]) = Len(b[2])
         /\ \A r \in Resources : Amount(p, {"a"}, r) = FiledIn(b, r) /\ Amount(p, {"r", "m"}, r) = 0
         /\ mode = "dedicated" =>
              OneKind(p, "a", "procs") /\ Amount(p, {"a"}, "procs") <= maxProcs - lpar.procs
<1>0. maxProcs \in Nat /\ lpar.procs \in Int /\ lpar.procs <= maxProcs
  BY WithinFacts DEF ModeInv, MachineInv
<1>1. CASE mode = "dedicated"
  <2> DEFINE l == cpu_payload_data(maxProcs, lpar.procs, 1)
  <2>1. l \in Seq(Nat) /\ Total(l) <= maxProcs - lpar.procs
    BY <1>0, CpuPayload
  <2>2. p = Listed("a", "procs", l)
    BY <1>1 DEF test_cpu_add, Listed, add_ded_cpu, Add
  <2>3. b = << l >>
    BY <1>1 DEF data_payload_backup
  <2> HIDE DEF l
  <2>4. /\ Amount(p, {"a"}, "procs") = Total(l) /\ Amount(p, {"r", "m"}, "procs") = 0
        /\ Amount(p, {"a"}, "units") = 0 /\ Amount(p, {"r", "m"}, "units") = 0
        /\ Amount(p, {"a"}, "mem") = 0 /\ Amount(p, {"r", "m"}, "mem") = 0
    BY <2>1, <2>2, ListedAmount DEF Resources
  <2>5. p \in Seq(Command) /\ OneKind(p, "a", "procs")
    BY <2>1, <2>2, ListedPlan, ListedKind DEF Resources
  <2>6. b \in Seq(Seq(Nat)) /\ b # << >> /\ b[1] = l
    <3> DEFINE Line == Seq(Nat)
    <3>1. l \in Line
      BY <2>1
    <3> HIDE DEF Line
    <3>2. << l >> \in Seq(Line) /\ Len(<< l >>) = 1 /\ << l >>[1] = l
      BY <3>1
    <3>3. b \in Seq(Line) /\ Len(b) = 1 /\ b[1] = l
      BY <2>3, <3>2
    <3>4. b # << >>
      BY <3>3
    <3> QED BY <3>3, <3>4 DEF Line
  <2>7. \A r \in Resources : Amount(p, {"a"}, r) = FiledIn(b, r) /\ Amount(p, {"r", "m"}, r) = 0
    BY <1>1, <2>4, <2>6 DEF Resources, FiledIn
  <2> QED BY <1>1, <2>1, <2>4, <2>5, <2>6, <2>7
<1>2. CASE mode = "shared"
  <2> DEFINE w == test_cpu_addPairs
             u == Listed("a", "units", w[2])
             v == Listed("a", "procs", w[1])
  <2>1. w \in Seq(Seq(Nat)) /\ Len(w) = 2 /\ w[1] \in Seq(Nat) /\ w[2] \in Seq(Nat) /\ Len(w[1]) = Len(w[2])
    BY CpuAddPairs
  <2>2. p = Alternate(u, v)
    BY <1>2 DEF test_cpu_add, Listed, add_proc, Add
  <2>3. b = w
    BY <1>2 DEF data_payload_backup
  <2> HIDE DEF w
  <2>4. /\ Amount(u, {"a"}, "procs") = 0 /\ Amount(u, {"r", "m"}, "procs") = 0
        /\ Amount(u, {"a"}, "units") = Total(w[2]) /\ Amount(u, {"r", "m"}, "units") = 0
        /\ Amount(u, {"a"}, "mem") = 0 /\ Amount(u, {"r", "m"}, "mem") = 0
    BY <2>1, ListedAmount DEF Resources
  <2>5. /\ Amount(v, {"a"}, "procs") = Total(w[1]) /\ Amount(v, {"r", "m"}, "procs") = 0
        /\ Amount(v, {"a"}, "units") = 0 /\ Amount(v, {"r", "m"}, "units") = 0
        /\ Amount(v, {"a"}, "mem") = 0 /\ Amount(v, {"r", "m"}, "mem") = 0
    BY <2>1, ListedAmount DEF Resources
  <2>6. u \in Seq(Command) /\ v \in Seq(Command) /\ Len(u) = Len(v)
    BY <2>1, ListedPlan DEF Resources
  <2>7. Total(w[1]) \in Nat /\ Total(w[2]) \in Nat
    BY <2>1, ListTotal
  <2> HIDE DEF u, v
  <2>8. p \in Seq(Command)
    BY <2>2, <2>6, AlternatePlan
  <2>9. \A ops, r : Amount(p, ops, r) = Amount(u, ops, r) + Amount(v, ops, r)
    BY <2>2, <2>6, AlternateAmount
  <2>10. \A r \in Resources : Amount(p, {"a"}, r) = FiledIn(b, r) /\ Amount(p, {"r", "m"}, r) = 0
    BY <1>2, <2>3, <2>4, <2>5, <2>7, <2>9 DEF Resources, FiledIn
  <2> QED BY <1>2, <2>1, <2>3, <2>8, <2>10
<1> QED BY <1>1, <1>2 DEF ModeInv

(* The first lines of config.txt, where the removal and the mix find them. *)
LEMMA FirstLines ==
  ASSUME ModeInv, FileInv, NEW t \in {"test_cpu_rm", "test_mix_cpu"}, data_payload_extract(t)
  PROVE  /\ file # << >> /\ file[1] \in Seq(Nat)
         /\ mode = "shared" => file[2] \in Seq(Nat) /\ Len(file[2]) = Len(file[1])
<1> DEFINE Line == Seq(Nat)
<1>1. file \in Seq(Line)
  BY DEF FileInv
<1>2. Len(file) >= 1 /\ (mode = "shared" => Len(file) >= 2 /\ Len(file[1]) = Len(file[2]))
  <2>1. Len(file) >= (IF mode = "dedicated" THEN 1 ELSE 2)
    BY DEF data_payload_extract
  <2>2. Len(file) >= 1
    BY <2>1
  <2>3. file # << >>
    BY <1>1, <2>2
  <2> QED BY <2>2, <2>3 DEF FileInv
<1> HIDE DEF Line
<1>3. file # << >> /\ file[1] \in Line /\ (mode = "shared" => file[2] \in Line)
  BY <1>1, <1>2
<1> QED BY <1>2, <1>3 DEF Line

(* test_cpu_rm removes what config.txt says, whatever the order. *)
LEMMA CpuRmPlan ==
  ASSUME ModeInv, FileInv, data_payload_extract("test_cpu_rm"), NEW p \in test_cpu_rm
  PROVE  /\ p \in Seq(Command) /\ file # << >>
         /\ \A r \in Resources : Amount(p, {"a"}, r) = 0 /\ Amount(p, {"r", "m"}, r) = FiledIn(file, r)
         /\ mode = "dedicated" => OneKind(p, "r", "procs")
<1>0. /\ file # << >> /\ file[1] \in Seq(Nat)
      /\ mode = "shared" => file[2] \in Seq(Nat) /\ Len(file[2]) = Len(file[1])
  BY FirstLines
<1>1. CASE mode = "dedicated"
  <2> DEFINE l == file[1]
  <2>2. p = Listed("r", "procs", l)
    BY <1>1 DEF test_cpu_rm, Listed, rem_ded_cpu, Rem
  <2>3. l \in Seq(Nat) /\ Total(file[1]) = Total(l)
    BY <1>0
  <2> HIDE DEF l
  <2>4. /\ Amount(p, {"a"}, "procs") = 0 /\ Amount(p, {"r", "m"}, "procs") = Total(l)
        /\ Amount(p, {"a"}, "units") = 0 /\ Amount(p, {"r", "m"}, "units") = 0
        /\ Amount(p, {"a"}, "mem") = 0 /\ Amount(p, {"r", "m"}, "mem") = 0
    BY <2>2, <2>3, ListedAmount DEF Resources
  <2>5. p \in Seq(Command) /\ OneKind(p, "r", "procs")
    BY <2>2, <2>3, ListedPlan, ListedKind DEF Resources
  <2>7. \A r \in Resources : Amount(p, {"a"}, r) = 0 /\ Amount(p, {"r", "m"}, r) = FiledIn(file, r)
    BY <1>1, <2>3, <2>4 DEF Resources, FiledIn
  <2> QED BY <1>0, <1>1, <2>5, <2>7
<1>2. CASE mode = "shared"
  <2> DEFINE n == Len(file[1])
             k == [i \in 1 .. n |-> file[1][n + 1 - i]]
             l == [i \in 1 .. n |-> file[2][n + 1 - i]]
             u == Listed("r", "procs", k)
             v == Listed("r", "units", l)
  <2>1. /\ n \in Nat /\ k \in Seq(Nat) /\ l \in Seq(Nat) /\ Len(k) = n /\ Len(l) = n
        /\ Total(k) = Total(file[1]) /\ Total(l) = Total(file[2])
    <3>1. file[1] \in Seq(Nat) /\ file[2] \in Seq(Nat) /\ Len(file[1]) = n /\ Len(file[2]) = n
      BY <1>0, <1>2
    <3>2. n \in Nat
      BY <3>1
    <3>3. k \in Seq(Nat) /\ Len(k) = n /\ Total(k) = Total(file[1])
      BY <3>1, ReverseTotal
    <3>4. l \in Seq(Nat) /\ Len(l) = n /\ Total(l) = Total(file[2])
      BY <3>1, ReverseTotal
    <3> QED BY <3>2, <3>3, <3>4
  <2>2. p = Alternate(u, v)
    <3>1. /\ [i \in 1 .. n |-> remove_proc(file[1][n + 1 - i], "procs")] = u
          /\ [i \in 1 .. n |-> remove_proc(file[2][n + 1 - i], "units")] = v
      BY <2>1 DEF Listed, remove_proc, Rem
    <3> QED BY <1>2, <3>1 DEF test_cpu_rm
  <2> HIDE DEF n, k, l
  <2>4. /\ Amount(u, {"a"}, "procs") = 0 /\ Amount(u, {"r", "m"}, "procs") = Total(k)
        /\ Amount(u, {"a"}, "units") = 0 /\ Amount(u, {"r", "m"}, "units") = 0
        /\ Amount(u, {"a"}, "mem") = 0 /\ Amount(u, {"r", "m"}, "mem") = 0
    BY <2>1, ListedAmount DEF Resources
  <2>5. /\ Amount(v, {"a"}, "procs") = 0 /\ Amount(v, {"r", "m"}, "procs") = 0
        /\ Amount(v, {"a"}, "units") = 0 /\ Amount(v, {"r", "m"}, "units") = Total(l)
        /\ Amount(v, {"a"}, "mem") = 0 /\ Amount(v, {"r", "m"}, "mem") = 0
    BY <2>1, ListedAmount DEF Resources
  <2>6. u \in Seq(Command) /\ v \in Seq(Command) /\ Len(u) = Len(v)
    BY <2>1, ListedPlan DEF Resources
  <2>7. Total(k) \in Nat /\ Total(l) \in Nat
    BY <2>1, ListTotal
  <2> HIDE DEF u, v
  <2>8. p \in Seq(Command)
    BY <2>2, <2>6, AlternatePlan
  <2>9. \A ops, r : Amount(p, ops, r) = Amount(u, ops, r) + Amount(v, ops, r)
    BY <2>2, <2>6, AlternateAmount
  <2>10. \A r \in Resources : Amount(p, {"a"}, r) = 0 /\ Amount(p, {"r", "m"}, r) = FiledIn(file, r)
    BY <1>2, <2>1, <2>4, <2>5, <2>7, <2>9 DEF Resources, FiledIn
  <2> QED BY <1>0, <1>2, <2>8, <2>10
<1> QED BY <1>1, <1>2 DEF ModeInv

(* In dedicated mode test_mix_cpu removes after each addition what was     *)
(* added, never more than the whole of the line in config.txt.             *)
LEMMA CpuMixPlan ==
  ASSUME ModeInv, FileInv, data_payload_extract("test_mix_cpu"), NEW p \in test_mix_cpu
  PROVE  /\ p \in Seq(Command) /\ file # << >>
         /\ mode = "dedicated" =>
              /\ Turns(p, "procs") /\ Matched(p)
              /\ \A i \in 1 .. Len(p) : p[i].qty <= Total(file[1])
              /\ p # << >> => Head(p).op = "a"
<1>0. /\ file # << >> /\ file[1] \in Seq(Nat)
      /\ mode = "shared" => file[2] \in Seq(Nat) /\ Len(file[2]) = Len(file[1])
  BY FirstLines
<1>1. CASE mode = "dedicated"
  <2>1. PICK m \in mix_payload_data(file[1]) :
          LET l == Append(m, Total(m))
          IN p = Alternate([i \in 1 .. Len(l) |-> add_ded_cpu(l[i])],
                           [i \in 1 .. Len(l) |-> rem_ded_cpu(l[i])])
    BY <1>1 DEF test_mix_cpu
  <2> DEFINE l == Append(m, Total(m))
  <2>2. p = Alternate(Listed("a", "procs", l), Listed("r", "procs", l))
    BY <2>1 DEF Listed, add_ded_cpu, rem_ded_cpu, Add, Rem
  <2>3. l \in Seq(Nat) /\ \A i \in 1 .. Len(l) : l[i] <= Total(file[1])
    BY <1>0, MixPayload
  <2> HIDE DEF l
  <2>4. /\ p \in Seq(Command) /\ Turns(p, "procs") /\ Matched(p)
        /\ \A i \in 1 .. Len(p) : p[i].qty <= Total(file[1])
    BY <2>2, <2>3, TurnsPlan DEF Resources
  <2>5. p # << >> => Head(p).op = "a"
    BY <2>2, <2>3, TurnsStart DEF Resources
  <2> QED BY <1>0, <1>1, <2>4, <2>5
<1>2. CASE mode = "shared"
  <2> DEFINE n == Len(file[1])
             a == Listed("a", "procs", file[1])
             b == Listed("r", "units", file[2])
             c == Listed("a", "units", file[2])
             d == Listed("r", "procs", file[1])
  <2>1. p = Alternate(Alternate(a, b), Alternate(c, d))
    BY <1>0, <1>2 DEF test_mix_cpu, Listed, add_proc, remove_proc, Add, Rem
  <2>2. /\ a \in Seq(Command) /\ b \in Seq(Command) /\ c \in Seq(Command) /\ d \in Seq(Command)
        /\ Len(a) = n /\ Len(b) = n /\ Len(c) = n /\ Len(d) = n
    BY <1>0, <1>2, ListedPlan DEF Resources
  <2> HIDE DEF a, b, c, d, n
  <2>3. /\ Alternate(a, b) \in Seq(Command) /\ Alternate(c, d) \in Seq(Command)
        /\ Len(Alternate(a, b)) = 2 * n /\ Len(Alternate(c, d)) = 2 * n
    BY <2>2, AlternatePlan
  <2>4. p \in Seq(Command)
    BY <2>1, <2>3, AlternatePlan
  <2> QED BY <1>0, <1>2, <2>4
<1> QED BY <1>1, <1>2 DEF ModeInv

(* The memory tests leave out the last value of their list. *)
LEMMA ButLastListed ==
  ASSUME NEW o \in {"a", "r", "m"}, NEW r \in Resources, NEW l \in Seq(Nat)
  PROVE  [i \in 1 .. Len(l) - 1 |-> [op |-> o, res |-> r, qty |-> l[i]]] = Listed(o, r, ButLast(l))
<1>1. 1 .. Len(l) - 1 = 1 .. Len(ButLast(l))
  <2>1. CASE l = << >>
    <3>1. Len(ButLast(l)) = 0
      BY <2>1, FrontTotal
    <3>2. 1 .. Len(l) - 1 = 1 .. 0
      BY <2>1
    <3> QED BY <3>1, <3>2
  <2>2. CASE l # << >>
    BY <2>2, FrontTotal
  <2> QED BY <2>1, <2>2
<1>2. \A i \in 1 .. Len(l) - 1 : ButLast(l)[i] = l[i]
  BY DEF ButLast
<1> QED BY <1>1, <1>2 DEF Listed

(* test_mem_add stays within the maximum. *)
LEMMA MemAddPlan ==
  ASSUME ModeInv, MachineInv, NEW p \in test_mem_add
  PROVE  /\ p \in Seq(Command) /\ OneKind(p, "a", "mem")
         /\ lpar.mem + Amount(p, {"a"}, "mem") <= MaxMem
<1> DEFINE room == MaxMem - lpar.mem
           l == mem_payload_data(room)
           f == ButLast(l)
<1>1. room \in Nat /\ MaxMem \in Nat /\ lpar.mem \in Nat
  BY WithinFacts, Profile DEF MachineInv
<1>2. p = [i \in 1 .. Len(l) - 1 |-> [op |-> "a", res |-> "mem", qty |-> l[i]]]
  BY DEF test_mem_add, mem_add, Add
<1>3. "mem" \in Resources
  BY DEF Resources
<1>4. room = MaxMem - lpar.mem
  OBVIOUS
<1> HIDE DEF room
<1>5. l \in Seq(Nat) /\ Total(l) = room
  BY <1>1, MemPayload
<1> HIDE DEF l
<1>6. f \in Seq(Nat) /\ Total(f) <= room
  BY <1>5, FrontTotal
<1>7. p = Listed("a", "mem", f)
  BY <1>2, <1>3, <1>5, ButLastListed
<1> HIDE DEF f
<1>8. p \in Seq(Command) /\ OneKind(p, "a", "mem") /\ Amount(p, {"a"}, "mem") = Total(f)
  BY <1>3, <1>6, <1>7, ListedPlan, ListedKind, ListedAmount
<1>9. Total(f) \in Nat
  BY <1>6, ListTotal
<1> QED BY <1>1, <1>4, <1>6, <1>8, <1>9

(* The share that is removed, rounded up to a block beyond, is above four  *)
(* or eight tenths by at most that block.                                  *)
LEMMA ShareFacts ==
  ASSUME NEW x \in Nat
  PROVE  /\ \A t \in {4, 8} : /\ Share(x, t) \in Nat /\ Share(x, t) >= 1
                              /\ 10 * (Share(x, t) - 1) <= 8 * x
         /\ x >= 1 => Share(x, 8) <= x
<1>1. \A t \in {4, 8} : (x * t) \div 10 \in Nat /\ 10 * ((x * t) \div 10) <= x * t
  OBVIOUS
<1>2. x * 4 <= 8 * x /\ x * 8 <= 8 * x
  OBVIOUS
<1> QED BY <1>1, <1>2 DEF Share

(* Without its last value the plan of test_mem_rem leaves two tenths of    *)
(* the memory: this is where the rounding and the value left out meet.     *)
LEMMA MemRemPlan ==
  ASSUME ModeInv, MachineInv, NEW p \in test_mem_rem
  PROVE  /\ p \in Seq(Command) /\ OneKind(p, "r", "mem")
         /\ 10 * (lpar.mem - Amount(p, {"r", "m"}, "mem")) >= 2 * lpar.mem
<1>1. PICK tenths \in {4, 8} :
        LET l == mem_payload_data(Share(lpar.mem, tenths))
        IN p = [i \in 1 .. Len(l) - 1 |-> mem_rem(l[i])]
  BY DEF test_mem_rem
<1> DEFINE room == Share(lpar.mem, tenths)
           l == mem_payload_data(room)
           f == ButLast(l)
<1>2. lpar.mem \in Nat
  BY WithinFacts DEF MachineInv
<1>3. room \in Nat /\ room >= 1 /\ 10 * (room - 1) <= 8 * lpar.mem
  BY <1>2, ShareFacts
<1>4. p = [i \in 1 .. Len(l) - 1 |-> [op |-> "r", res |-> "mem", qty |-> l[i]]]
  BY <1>1 DEF mem_rem, Rem
<1>5. "mem" \in Resources
  BY DEF Resources
<1> HIDE DEF room
<1>6. l \in Seq(Nat) /\ Total(l) = room /\ \A i \in 1 .. Len(l) : l[i] >= 1
  BY <1>3, MemPayload
<1> HIDE DEF l
<1>7. f \in Seq(Nat) /\ Total(f) <= room - 1
  BY <1>3, <1>6, FrontTotal
<1>8. p = Listed("r", "mem", f)
  BY <1>4, <1>5, <1>6, ButLastListed
<1> HIDE DEF f
<1>9. p \in Seq(Command) /\ OneKind(p, "r", "mem") /\ Amount(p, {"r", "m"}, "mem") = Total(f)
  BY <1>5, <1>7, <1>8, ListedPlan, ListedKind, ListedAmount
<1>10. Total(f) \in Nat
  BY <1>7, ListTotal
<1>11. 10 * (lpar.mem - Total(f)) >= 2 * lpar.mem
  BY <1>2, <1>3, <1>7, <1>10
<1> QED BY <1>9, <1>11

(* test_mem_mix adds within the maximum, and no removal is larger than     *)
(* the addition before it.                                                 *)
LEMMA MemMixPlan ==
  ASSUME ModeInv, MachineInv, NEW p \in test_mem_mix
  PROVE  /\ p \in Seq(Command) /\ Turns(p, "mem") /\ Covered(p)
         /\ p # << >> => Head(p).op = "a"
         /\ lpar.mem + Amount(p, {"a"}, "mem") <= MaxMem
<1> DEFINE room == MaxMem - lpar.mem
           l == mem_payload_data(room)
           s == [i \in 1 .. Len(l) |-> Share(l[i], 8)]
<1>1. room \in Nat /\ MaxMem \in Nat /\ lpar.mem \in Nat
  BY WithinFacts, Profile DEF MachineInv
<1>2. p = Alternate([i \in 1 .. Len(l) |-> [op |-> "a", res |-> "mem", qty |-> l[i]]],
                    [i \in 1 .. Len(l) |-> [op |-> "r", res |-> "mem", qty |-> Share(l[i], 8)]])
  BY DEF test_mem_mix, mem_add, mem_rem, Add, Rem
<1>3. "mem" \in Resources
  BY DEF Resources
<1>4. room = MaxMem - lpar.mem
  OBVIOUS
<1> HIDE DEF room
<1>5. l \in Seq(Nat) /\ Total(l) = room /\ \A i \in 1 .. Len(l) : l[i] >= 1
  BY <1>1, MemPayload
<1> HIDE DEF l
<1>6. \A i \in 1 .. Len(l) : Share(l[i], 8) \in Nat /\ Share(l[i], 8) <= l[i]
  <2> SUFFICES ASSUME NEW i \in 1 .. Len(l)
               PROVE  Share(l[i], 8) \in Nat /\ Share(l[i], 8) <= l[i]
    OBVIOUS
  <2>1. l[i] \in Nat /\ l[i] >= 1
    BY <1>5
  <2> QED BY <2>1, ShareFacts
<1>7. s \in Seq(Nat) /\ Len(s) = Len(l) /\ \A i \in 1 .. Len(l) : s[i] <= l[i]
  BY <1>5, <1>6
<1>8. p = Alternate(Listed("a", "mem", l), Listed("r", "mem", s))
  <2>1. [i \in 1 .. Len(l) |-> [op |-> "r", res |-> "mem", qty |-> Share(l[i], 8)]] = Listed("r", "mem", s)
    BY <1>7 DEF Listed
  <2>2. [i \in 1 .. Len(l) |-> [op |-> "a", res |-> "mem", qty |-> l[i]]] = Listed("a", "mem", l)
    BY DEF Listed
  <2> QED BY <1>2, <2>1, <2>2
<1> HIDE DEF s
<1>9. p \in Seq(Command) /\ Turns(p, "mem") /\ Covered(p) /\ Amount(p, {"a"}, "mem") = Total(l)
  BY <1>3, <1>5, <1>7, <1>8, TurnsPlan
<1>10. p # << >> => Head(p).op = "a"
  BY <1>3, <1>5, <1>7, <1>8, TurnsStart
<1> QED BY <1>1, <1>4, <1>5, <1>9, <1>10

(* The plans of the moves and of the last three tests are commands. *)
LEMMA OtherPlans ==
  ASSUME ModeInv
  PROVE  /\ \A p \in test_cpu_move : p \in Seq(Command)
         /\ \A p \in test_mem_mov : p \in Seq(Command)
         /\ AddRemoveOne \in Seq(Command)
<1>1. \A r \in Resources, q \in Nat : /\ Add(r, q) \in Command /\ Rem(r, q) \in Command
                                      /\ Move(r, q) \in Command
  BY DEF Add, Rem, Move, Command
<1>2. {"procs", "units", "mem"} \subseteq Resources
  BY DEF Resources
<1>3. /\ move_ded_cpu \in Command /\ move_proc \in Command /\ mem_move \in Command
      /\ add_ded_cpu(1) \in Command /\ rem_ded_cpu(1) \in Command
      /\ add_proc(1, "procs") \in Command /\ add_proc(4, "units") \in Command
      /\ remove_proc(1, "procs") \in Command /\ remove_proc(4, "units") \in Command
  BY <1>1, <1>2, Profile
  DEF move_ded_cpu, move_proc, mem_move, add_ded_cpu, rem_ded_cpu, add_proc, remove_proc
<1>4. [i \in 1 .. Iterations |-> IF mode = "dedicated" THEN move_ded_cpu ELSE move_proc]
        \in Seq(Command)
  <2>1. Iterations \in Nat
    BY DlparAssumption
  <2> QED BY <1>3, <2>1
<1> QED BY <1>3, <1>4 DEF test_cpu_move, test_mem_mov, AddRemoveOne

(* The plans of each test. *)
LEMMA PlansAre ==
  /\ Plans("test_cpu_add") = test_cpu_add
  /\ Plans("test_cpu_rm") = test_cpu_rm
  /\ Plans("test_mix_cpu") = test_mix_cpu
  /\ Plans("test_mem_add") = test_mem_add
  /\ Plans("test_mem_rem") = test_mem_rem
  /\ Plans("test_mem_mix") = test_mem_mix
  /\ Plans("test_cpu_move") = test_cpu_move
  /\ Plans("test_mem_mov") = test_mem_mov
<1>1. Plans("test_cpu_add") = test_cpu_add
  BY DEF Plans, Lenient
<1>2. Plans("test_cpu_rm") = test_cpu_rm
  BY DEF Plans, Lenient
<1>3. Plans("test_mix_cpu") = test_mix_cpu
  BY DEF Plans, Lenient
<1>4. Plans("test_mem_add") = test_mem_add
  BY DEF Plans, Lenient
<1>5. Plans("test_mem_rem") = test_mem_rem
  BY DEF Plans, Lenient
<1>6. Plans("test_mem_mix") = test_mem_mix
  BY DEF Plans, Lenient
<1>7. Plans("test_cpu_move") = test_cpu_move
  BY DEF Plans, Lenient
<1>8. Plans("test_mem_mov") = test_mem_mov
  BY DEF Plans, Lenient
<1> QED BY <1>1, <1>2, <1>3, <1>4, <1>5, <1>6, <1>7, <1>8

(* Whatever test starts, its plan is a list of commands. *)
LEMMA PlansTyped ==
  ASSUME ModeInv, MachineInv, FileInv, NEW t \in Tests, data_payload_extract(t), NEW p \in Plans(t)
  PROVE  p \in Seq(Command)
<1>1. CASE t = "test_cpu_add"
  BY <1>1, CpuAddPlan, PlansAre
<1>2. CASE t = "test_cpu_rm"
  BY <1>2, CpuRmPlan, PlansAre
<1>3. CASE t = "test_mix_cpu"
  BY <1>3, CpuMixPlan, PlansAre
<1>4. CASE t = "test_mem_add"
  BY <1>4, MemAddPlan, PlansAre
<1>5. CASE t = "test_mem_rem"
  BY <1>5, MemRemPlan, PlansAre
<1>6. CASE t = "test_mem_mix"
  BY <1>6, MemMixPlan, PlansAre
<1>7. CASE t = "test_cpu_move"
  BY <1>7, OtherPlans, PlansAre
<1>8. CASE t = "test_mem_mov"
  BY <1>8, OtherPlans, PlansAre
<1>9. CASE t \in Lenient
  BY <1>9, OtherPlans DEF Plans, Lenient, OnHost, test_check_smt_state,
     test_offline_cpu_persistence, test_offline_proc_persistence
<1> QED BY <1>1, <1>2, <1>3, <1>4, <1>5, <1>6, <1>7, <1>8, <1>9 DEF Tests, Order, Lenient

-----------------------------------------------------------------------------
(* What a command changes. *)

(* What a command does to resource r for amount d. *)
Signed(c, d, r) == IF c.res # r THEN 0 ELSE IF c.op = "a" THEN d ELSE -d

(* What the HMC does to a resource of the partition. *)
LEMMA DoneFacts ==
  ASSUME lpar \in [Resources -> Int], other \in [Resources -> Int],
         NEW c \in Command, NEW d \in Nat
  PROVE  /\ Done(machine, c, d)[1] \in [Resources -> Int]
         /\ Done(machine, c, d)[2] \in [Resources -> Int]
         /\ \A r \in Resources : Done(machine, c, d)[1][r] = lpar[r] + Signed(c, d, r)
         /\ d = 0 => Done(machine, c, d)[1] = lpar /\ Done(machine, c, d)[2] = other
<1>0. c.op \in {"a", "r", "m"} /\ c.res \in Resources
  BY DEF Command
<1>1. CASE c.op = "a"
  <2>1. Done(machine, c, d) = << [lpar EXCEPT ![c.res] = @ + d], other >>
    BY <1>1 DEF Done, machine
  <2> QED BY <1>0, <1>1, <2>1 DEF Signed
<1>2. CASE c.op = "r"
  <2>1. Done(machine, c, d) = << [lpar EXCEPT ![c.res] = @ - d], other >>
    BY <1>2 DEF Done, machine
  <2> QED BY <1>0, <1>2, <2>1 DEF Signed
<1>3. CASE c.op = "m"
  <2>1. Done(machine, c, d) = << [lpar EXCEPT ![c.res] = @ - d], [other EXCEPT ![c.res] = @ + d] >>
    BY <1>3 DEF Done, machine
  <2> QED BY <1>0, <1>3, <2>1 DEF Signed
<1> QED BY <1>0, <1>1, <1>2, <1>3

(* What the profile allows leaves both partitions within it. *)
LEMMA ApplyFacts ==
  ASSUME MachineInv, NEW c \in Command, NEW d \in Nat, Apply(d), c = Head(plan),
         d = 0 \/ Allowed([c EXCEPT !.qty = d])
  PROVE  /\ lpar' \in [Resources -> Int] /\ other' \in [Resources -> Int]
         /\ Within(lpar') /\ Within(other')
         /\ \A r \in Resources : lpar'[r] = lpar[r] + Signed(c, d, r)
<1>1. lpar' = Done(machine, c, d)[1] /\ other' = Done(machine, c, d)[2]
  BY DEF Apply
<1>2. /\ lpar' \in [Resources -> Int] /\ other' \in [Resources -> Int]
      /\ \A r \in Resources : lpar'[r] = lpar[r] + Signed(c, d, r)
      /\ d = 0 => lpar' = lpar /\ other' = other
  BY <1>1, DoneFacts DEF MachineInv
<1>3. CASE d = 0
  BY <1>2, <1>3 DEF MachineInv
<1>4. CASE Allowed([c EXCEPT !.qty = d])
  <2> DEFINE e == [c EXCEPT !.qty = d]
  <2>1. e.op = c.op /\ e.res = c.res /\ e.qty = d
    BY DEF Command
  <2> HIDE DEF e
  <2>2. Done(machine, e, d) = Done(machine, c, d)
    BY <2>1 DEF Done
  <2>3. \A i \in 1 .. 2 : Within(Done(machine, e, d)[i])
    BY <1>4, <2>1 DEF Allowed, e
  <2>4. Within(Done(machine, c, d)[1]) /\ Within(Done(machine, c, d)[2])
    BY <2>2, <2>3
  <2> QED BY <1>1, <1>2, <2>4
<1> QED BY <1>3, <1>4

(* A command was sent: all of it was done and the test goes on, or a part  *)
(* of it at most and the test ends, unless it is one that goes on anyway.  *)
Sends ==
  /\ Sending
  /\ \E d \in 0 .. Head(plan).qty :
       /\ \A r \in Resources : lpar'[r] = lpar[r] + Signed(Head(plan), d, r)
       /\ \/ /\ plan' = Tail(plan) /\ verdict' = verdict
             /\ test \notin Lenient => d = Head(plan).qty
          \/ plan' = << >> /\ verdict' \in {"FAIL", "CANCEL", "ERROR"}
  /\ lpar' \in [Resources -> Int] /\ other' \in [Resources -> Int]
  /\ Within(lpar') /\ Within(other')
  /\ Sent

(* The command that is sent next. *)
LEMMA SendingFacts ==
  ASSUME PlanInv, Sending
  PROVE  /\ Head(plan) \in Command /\ Tail(plan) \in Seq(Command) /\ Head(plan).qty \in Nat
         /\ Head(plan).op \in {"a", "r", "m"} /\ Head(plan).res \in Resources
         /\ Head(plan).qty \div 2 \in 0 .. Head(plan).qty
<1>1. Head(plan) \in Command /\ Tail(plan) \in Seq(Command)
  BY DEF PlanInv, Sending
<1>2. Head(plan).qty \in Nat /\ Head(plan).op \in {"a", "r", "m"} /\ Head(plan).res \in Resources
  BY <1>1 DEF Command
<1> QED BY <1>1, <1>2

(* A part of a command leaves both partitions within the profile. *)
LEMMA OneOfFacts ==
  ASSUME MachineInv, PlanInv, Sending, NEW amounts, amounts \subseteq 0 .. Head(plan).qty,
         ApplyOneOf(amounts)
  PROVE  /\ lpar' \in [Resources -> Int] /\ other' \in [Resources -> Int]
         /\ Within(lpar') /\ Within(other')
         /\ \E d \in amounts : \A r \in Resources : lpar'[r] = lpar[r] + Signed(Head(plan), d, r)
<1>1. PICK d \in amounts : /\ d = 0 \/ Allowed([Head(plan) EXCEPT !.qty = d])
                           /\ Apply(d)
  BY DEF ApplyOneOf
<1>2. Head(plan) \in Command /\ d \in Nat
  BY <1>1, SendingFacts
<1> DEFINE c == Head(plan)
<1>3. c = Head(plan) /\ c \in Command /\ (d = 0 \/ Allowed([c EXCEPT !.qty = d]))
  BY <1>1, <1>2
<1> HIDE DEF c
<1>4. /\ lpar' \in [Resources -> Int] /\ other' \in [Resources -> Int]
      /\ Within(lpar') /\ Within(other')
      /\ \A r \in Resources : lpar'[r] = lpar[r] + Signed(c, d, r)
  BY <1>1, <1>2, <1>3, ApplyFacts
<1> QED BY <1>1, <1>3, <1>4

(* The four outcomes of Dlpar_engine are cases of one: some amount is      *)
(* done, and the test goes on after the command or ends.                   *)
LEMMA SendStep ==
  ASSUME MachineInv, PlanInv,
         Obeyed \/ Refused \/ Dlpar_cpu_validation \/ Dlpar_mem_validation
  PROVE  Sends
<1>0. Sending /\ Sent
  BY DEF Obeyed, Refused, Dlpar_cpu_validation, Dlpar_mem_validation
<1> DEFINE c == Head(plan)
           q == Head(plan).qty
<1>1. c \in Command /\ q \in Nat /\ q \div 2 \in 0 .. q /\ 0 \in 0 .. q /\ q \in 0 .. q
  BY <1>0, SendingFacts
<1>2. CASE Obeyed
  <2>1. Allowed(c) /\ Apply(q) /\ plan' = Tail(plan) /\ verdict' = verdict
    BY <1>2 DEF Obeyed
  <2>2. [c EXCEPT !.qty = q] = c
    BY <1>1 DEF Command
  <2> DEFINE d == q
  <2>3. d \in Nat /\ c \in Command /\ c = Head(plan) /\ Apply(d) /\ Allowed([c EXCEPT !.qty = d])
    BY <1>1, <2>1, <2>2
  <2> HIDE DEF c, d
  <2>4. /\ lpar' \in [Resources -> Int] /\ other' \in [Resources -> Int]
        /\ Within(lpar') /\ Within(other')
        /\ \A r \in Resources : lpar'[r] = lpar[r] + Signed(c, d, r)
    BY <2>3, ApplyFacts
  <2> QED BY <1>0, <1>1, <2>1, <2>4 DEF Sends, c, d
<1>3. CASE Refused
  <2>1. ApplyOneOf({0, q \div 2, q})
    BY <1>3 DEF Refused
  <2>2. /\ lpar' \in [Resources -> Int] /\ other' \in [Resources -> Int]
        /\ Within(lpar') /\ Within(other')
        /\ \E d \in {0, q \div 2, q} : \A r \in Resources : lpar'[r] = lpar[r] + Signed(c, d, r)
    BY <1>0, <1>1, <2>1, OneOfFacts
  <2>3. \/ plan' = Tail(plan) /\ verdict' = verdict /\ test \in Lenient
        \/ plan' = << >> /\ verdict' \in {"FAIL", "CANCEL", "ERROR"}
    BY <1>3 DEF Refused
  <2> QED BY <1>0, <1>1, <2>2, <2>3 DEF Sends
<1>4. CASE Dlpar_cpu_validation
  <2> DEFINE A == {0, q \div 2} \cup IF Head(plan).res = "units" THEN {Head(plan).qty} ELSE {}
  <2>1. ApplyOneOf(A) /\ plan' = << >> /\ verdict' = "ERROR"
    BY <1>4 DEF Dlpar_cpu_validation
  <2>2. A \subseteq 0 .. q
    BY <1>1
  <2> HIDE DEF A
  <2>3. /\ lpar' \in [Resources -> Int] /\ other' \in [Resources -> Int]
        /\ Within(lpar') /\ Within(other')
        /\ \E d \in A : \A r \in Resources : lpar'[r] = lpar[r] + Signed(c, d, r)
    BY <1>0, <2>1, <2>2, OneOfFacts
  <2> QED BY <1>0, <2>1, <2>2, <2>3 DEF Sends
<1>5. CASE Dlpar_mem_validation
  <2>1. ApplyOneOf({0, q \div 2}) /\ plan' = << >> /\ verdict' = "ERROR"
    BY <1>5 DEF Dlpar_mem_validation
  <2>2. /\ lpar' \in [Resources -> Int] /\ other' \in [Resources -> Int]
        /\ Within(lpar') /\ Within(other')
        /\ \E d \in {0, q \div 2} : \A r \in Resources : lpar'[r] = lpar[r] + Signed(c, d, r)
    BY <1>0, <1>1, <2>1, OneOfFacts
  <2> QED BY <1>0, <1>1, <2>1, <2>2 DEF Sends
<1> QED BY <1>2, <1>3, <1>4, <1>5

-----------------------------------------------------------------------------
(* Every step keeps the invariant. *)

(* The kinds of steps, the four outcomes of a command taken together. *)
LEMMA StepKinds ==
  ASSUME MachineInv, PlanInv, [Next]_vars
  PROVE  \/ StartTest \/ CannotStart \/ Sends \/ HostCommandFails \/ Pass \/ Interrupt
         \/ NextJob \/ UNCHANGED vars
  BY SendStep DEF Next, JobsOver

(* The places of the tests in the class are numbers. *)
LEMMA OrderNat == \A t \in Tests : Order[t] \in Nat
  BY DEF Tests, Order

(* The test that starts comes before those that are left. *)
LEMMA LeftFacts ==
  ASSUME left \in Seq(Tests), InOrder(left), left # << >>
  PROVE  /\ Head(left) \in Tests /\ Tail(left) \in Seq(Tests) /\ InOrder(Tail(left))
         /\ Head(left) = left[1] /\ 1 \in 1 .. Len(left)
         /\ \A i \in 1 .. Len(Tail(left)) :
              /\ i + 1 \in 1 .. Len(left) /\ Tail(left)[i] = left[i + 1]
              /\ Order[Head(left)] < Order[Tail(left)[i]]
<1>1. /\ Head(left) \in Tests /\ Tail(left) \in Seq(Tests) /\ Head(left) = left[1]
      /\ 1 \in 1 .. Len(left) /\ Len(Tail(left)) = Len(left) - 1 /\ Len(left) \in Nat
      /\ \A i \in 1 .. Len(Tail(left)) : i + 1 \in 1 .. Len(left) /\ Tail(left)[i] = left[i + 1]
  OBVIOUS
<1>2. \A i \in 1 .. Len(Tail(left)) : Order[Head(left)] < Order[Tail(left)[i]]
  BY <1>1 DEF InOrder
<1>3. InOrder(Tail(left))
  BY <1>1 DEF InOrder
<1> QED BY <1>1, <1>2, <1>3

(* Every step keeps the tests of a job in the order of the class. *)
LEMMA OrderStep ==
  ASSUME TypedInv, [Next]_vars
  PROVE  OrderInv'
<1> USE DEF TypedInv
<1>0. \/ StartTest \/ CannotStart \/ Sends \/ HostCommandFails \/ Pass \/ Interrupt
      \/ NextJob \/ UNCHANGED vars
  BY StepKinds
<1>a. /\ left \in Seq(Tests) /\ InOrder(left)
      /\ test \in Tests /\ verdict \in Verdicts /\ passed \subseteq Tests
  BY DEF OrderInv
<1>b. ASSUME left # << >>, left' = Tail(left), test' = Head(left), passed' = passed,
             verdict' \in {"RUNNING", "ERROR", "CANCEL"}
      PROVE  OrderInv'
  <2>1. /\ test' \in Tests /\ left' \in Seq(Tests) /\ InOrder(left')
        /\ \A i \in 1 .. Len(left') : /\ i + 1 \in 1 .. Len(left) /\ left'[i] = left[i + 1]
                                      /\ Order[test'] < Order[left'[i]]
        /\ test' = left[1] /\ 1 \in 1 .. Len(left)
    BY <1>a, <1>b, LeftFacts
  <2>2. \A t \in passed : Order[t] < Order[test'] /\ \A i \in 1 .. Len(left') : Order[t] < Order[left'[i]]
    BY <2>1 DEF OrderInv, After
  <2>3. test' \notin passed
    BY <2>1, <2>2, OrderNat
  <2>4. \A t \in passed : Order[t] <= Order[test']
    BY <1>a, <2>1, <2>2, OrderNat
  <2>5. InOrder(left)'
    BY <2>1 DEF InOrder
  <2>6. After(test)' /\ \A t \in passed : After(t)'
    BY <2>1, <2>2 DEF After
  <2> QED BY <1>a, <1>b, <2>1, <2>3, <2>4, <2>5, <2>6 DEF OrderInv, Verdicts
<1>1. CASE StartTest
  BY <1>1, <1>b DEF StartTest
<1>2. CASE CannotStart
  BY <1>2, <1>b DEF CannotStart
<1>c. ASSUME left' = left, test' = test, passed' = passed,
             verdict' = verdict \/ verdict' \in {"FAIL", "CANCEL", "ERROR"}
      PROVE  OrderInv'
  <2>1. InOrder(left)' /\ \A t \in Tests : After(t)' <=> After(t)
    BY <1>a, <1>c DEF InOrder, After
  <2>2. After(test)' <=> After(test)
    BY <1>c DEF After
  <2>3. /\ \A t \in passed : After(t) /\ Order[t] <= Order[test]
        /\ passed # {} \/ verdict = "RUNNING" => After(test)
        /\ verdict = "RUNNING" => test \notin passed
        /\ verdict = "PASS" => test \in passed
    BY DEF OrderInv
  <2>4. verdict' \in Verdicts
    BY <1>a, <1>c DEF Verdicts
  <2>5. \A t \in passed' : After(t)' /\ Order[t] <= Order[test']
    BY <1>a, <1>c, <2>1, <2>3
  <2> QED BY <1>a, <1>c, <2>1, <2>2, <2>3, <2>4, <2>5 DEF OrderInv
<1>3. CASE Sends
  BY <1>3, <1>c DEF Sends, Sent
<1>4. CASE HostCommandFails
  BY <1>4, <1>c DEF HostCommandFails, Sent
<1>5. CASE Pass
  <2>1. /\ verdict = "RUNNING" /\ verdict' = "PASS" /\ passed' = passed \cup {test}
        /\ left' = left /\ test' = test
    BY <1>5 DEF Pass
  <2>2. After(test) /\ \A t \in passed : After(t) /\ Order[t] <= Order[test]
    BY <2>1 DEF OrderInv
  <2>3. \A t \in passed' : After(t)' /\ Order[t] <= Order[test']
    BY <1>a, <2>1, <2>2, OrderNat DEF After
  <2>4. InOrder(left)' /\ After(test)'
    BY <1>a, <2>1, <2>2 DEF InOrder, After
  <2> QED BY <1>a, <2>1, <2>3, <2>4 DEF OrderInv, Verdicts
<1>6. CASE Interrupt
  <2>1. /\ left' = << >> /\ test' = test /\ passed' = passed
        /\ verdict' = IF verdict = "RUNNING" THEN "ERROR" ELSE verdict
    BY <1>6 DEF Interrupt
  <2>2. left' \in Seq(Tests) /\ InOrder(left)' /\ After(test)' /\ \A t \in passed' : After(t)'
    BY <2>1 DEF InOrder, After
  <2> QED BY <1>a, <2>1, <2>2 DEF OrderInv, Verdicts
<1>7. CASE NextJob
  <2>1. left' = selection /\ passed' = {} /\ verdict' = "CANCEL" /\ test' = test
    BY <1>7 DEF NextJob
  <2>2. left' \in Seq(Tests) /\ InOrder(left')
    BY <2>1, Profile DEF ModeInv
  <2> QED BY <1>a, <2>1, <2>2 DEF OrderInv, Verdicts, InOrder
<1>8. CASE UNCHANGED vars
  BY <1>8, <1>c DEF vars
<1> QED BY <1>0, <1>1, <1>2, <1>3, <1>4, <1>5, <1>6, <1>7, <1>8

(* What data_payload_backup makes of config.txt. *)
LEMMA BackupFile ==
  ASSUME ModeInv, MachineInv, FileInv, NEW t \in Tests, NEW g, g = file \o data_payload_backup(t),
         t = "test_cpu_add" => test_cpu_add # {}
  PROVE  /\ g \in Seq(Seq(Nat))
         /\ mode = "shared" /\ g # << >> => Len(g) >= 2 /\ Len(g[1]) = Len(g[2])
         /\ t # "test_cpu_add" => g = file
         /\ t = "test_cpu_add" /\ file = << >> => g = data_payload_backup(t)
<1> DEFINE Line == Seq(Nat)
           b == data_payload_backup(t)
<1>1. file \in Seq(Line)
  BY DEF FileInv
<1>2. CASE t # "test_cpu_add"
  <2>1. b = << >>
    BY <1>2 DEF data_payload_backup
  <2> HIDE DEF Line, b
  <2>2. file \o << >> = file
    BY <1>1
  <2>3. g = file
    BY <2>1, <2>2 DEF b
  <2> QED BY <1>1, <1>2, <2>3 DEF FileInv, Line
<1>3. CASE t = "test_cpu_add"
  <2>1. /\ b \in Seq(Line) /\ b # << >>
        /\ mode = "shared" => Len(b) = 2 /\ Len(b[1]) = Len(b[2])
    BY <1>3, CpuAddPlan
  <2>2. g = file \o b
    OBVIOUS
  <2>3. mode = "shared" /\ file # << >> => Len(file) >= 2 /\ Len(file[1]) = Len(file[2])
    BY DEF FileInv
  <2> HIDE DEF Line, b
  <2>4. g \in Seq(Line)
    BY <1>1, <2>1, <2>2
  <2>5. file = << >> => g = b
    BY <1>1, <2>1, <2>2
  <2>6. ASSUME mode = "shared", file # << >>
        PROVE  Len(g) >= 2 /\ Len(g[1]) = Len(g[2])
    <3>1. Len(file) >= 2 /\ Len(file) \in Nat /\ Len(b) \in Nat /\ Len(g) = Len(file) + Len(b)
      BY <1>1, <2>1, <2>2, <2>3, <2>6
    <3>2. g[1] = file[1] /\ g[2] = file[2]
      BY <1>1, <2>1, <2>2, <3>1
    <3> QED BY <2>3, <2>6, <3>1, <3>2
  <2> QED BY <1>3, <2>1, <2>4, <2>5, <2>6 DEF Line, b
<1> QED BY <1>2, <1>3

(* What a plan leads to, one resource at a time. *)
LEMMA AllDoneTyped ==
  ASSUME lpar \in [Resources -> Int], NEW p \in Seq(Command)
  PROVE  /\ AllDone(p) \in [Resources -> Int]
         /\ \A r \in Resources : /\ Amount(p, {"a"}, r) \in Nat /\ Amount(p, {"r", "m"}, r) \in Nat
                                 /\ AllDone(p)[r] = lpar[r] + Amount(p, {"a"}, r) - Amount(p, {"r", "m"}, r)
<1>1. \A r \in Resources : Amount(p, {"a"}, r) \in Nat /\ Amount(p, {"r", "m"}, r) \in Nat
  BY WeightsList
<1> QED BY <1>1 DEF AllDone

(* What a test that starts has to go by. *)
LEMMA StartFacts ==
  ASSUME TypedInv, StartTest
  PROVE  /\ left # << >> /\ Head(left) \in Tests /\ test' = Head(left) /\ verdict' = "RUNNING"
         /\ plan' \in Plans(Head(left)) /\ plan' \in Seq(Command) /\ goal' = AllDone(plan')
         /\ data_payload_extract(Head(left))
         /\ lpar' = lpar /\ before' = lpar /\ found' = found /\ mode' = mode
         /\ maxProcs' = maxProcs /\ fresh' = fresh /\ passed' = passed
         /\ file' = file \o data_payload_backup(Head(left))
<1>1. left # << >> /\ Head(left) \in Tests
  BY LeftFacts DEF StartTest, TypedInv, OrderInv
<1>2. PICK p \in Plans(Head(left)) : plan' = p /\ goal' = AllDone(p)
  BY DEF StartTest
<1>3. p \in Seq(Command)
  BY <1>1, PlansTyped DEF StartTest, TypedInv
<1> QED BY <1>1, <1>2, <1>3 DEF StartTest, machine, constantVars, jobVars

(* Every step keeps the types and the profile. *)
LEMMA TypedStep ==
  ASSUME TypedInv, [Next]_vars
  PROVE  TypedInv'
<1>0. \/ StartTest \/ CannotStart \/ Sends \/ HostCommandFails \/ Pass \/ Interrupt
      \/ NextJob \/ UNCHANGED vars
  BY StepKinds DEF TypedInv
<1>1. OrderInv'
  BY OrderStep
<1>2. ModeInv' /\ mode' = mode /\ maxProcs' = maxProcs
  <2>1. mode' = mode /\ maxProcs' = maxProcs /\ selection' = selection
    BY <1>0 DEF StartTest, CannotStart, Sends, HostCommandFails, Sent, Pass, Interrupt, NextJob,
       vars, constantVars
  <2>2. job' \in Nat /\ fresh' \in BOOLEAN
    <3>0. job \in Nat /\ fresh \in BOOLEAN
      BY DEF TypedInv, ModeInv
    <3>1. CASE NextJob
      BY <3>0, <3>1 DEF NextJob
    <3>2. CASE ~NextJob
      <4>1. job' = job /\ fresh' = fresh
        BY <1>0, <3>2 DEF StartTest, CannotStart, Sends, HostCommandFails, Sent, Pass, Interrupt,
           vars, jobVars
      <4> QED BY <3>0, <4>1
    <3> QED BY <3>1, <3>2
  <2> QED BY <2>1, <2>2 DEF TypedInv, ModeInv
<1>3. \A m : Within(m)' <=> Within(m)
  BY <1>2 DEF Within
<1>4. MachineInv'
  <2>0. /\ lpar \in [Resources -> Int] /\ other \in [Resources -> Int]
        /\ before \in [Resources -> Int] /\ goal \in [Resources -> Int]
        /\ found \in [Resources -> Int]
        /\ Within(lpar) /\ Within(other) /\ Within(before) /\ Within(found)
    BY DEF TypedInv, MachineInv
  <2>1. /\ lpar' \in [Resources -> Int] /\ other' \in [Resources -> Int]
        /\ Within(lpar') /\ Within(other')
    BY <1>0, <2>0 DEF StartTest, CannotStart, Sends, HostCommandFails, Pass, Interrupt, NextJob,
       vars, machine
  <2>2. /\ before' \in [Resources -> Int] /\ Within(before')
        /\ found' \in [Resources -> Int] /\ Within(found')
    BY <1>0, <2>0 DEF StartTest, CannotStart, Sends, Sent, HostCommandFails, Pass, Interrupt,
       NextJob, vars, jobVars
  <2>3. goal' \in [Resources -> Int]
    <3>1. CASE StartTest
      BY <2>0, <3>1, StartFacts, AllDoneTyped
    <3>2. CASE ~StartTest
      BY <1>0, <2>0, <3>2 DEF CannotStart, Sends, Sent, HostCommandFails, Pass, Interrupt,
         NextJob, vars
    <3> QED BY <3>1, <3>2
  <2>4. Within(lpar)' /\ Within(other)' /\ Within(before)' /\ Within(found)'
    BY <1>2, <2>1, <2>2 DEF Within
  <2> QED BY <2>1, <2>2, <2>3, <2>4 DEF MachineInv
<1>5. FileInv'
  <2>0. file \in Seq(Seq(Nat))
    BY DEF TypedInv, FileInv
  <2>1. CASE StartTest
    <3>1. "test_cpu_add" = Head(left) => test_cpu_add # {}
      BY <2>1, StartFacts, PlansAre
    <3>2. /\ file' \in Seq(Seq(Nat))
          /\ mode = "shared" /\ file' # << >> => Len(file') >= 2 /\ Len(file'[1]) = Len(file'[2])
      BY <2>1, <3>1, StartFacts, BackupFile DEF TypedInv
    <3> QED BY <1>2, <3>2 DEF FileInv
  <2>2. CASE ~StartTest
    <3>1. file' = file \/ file' = << >>
      BY <1>0, <2>2 DEF CannotStart, Sends, Sent, HostCommandFails, Pass, Interrupt, NextJob, vars
    <3>2. CASE file' = file
      BY <1>2, <3>2 DEF TypedInv, FileInv
    <3>3. CASE file' = << >>
      BY <3>3 DEF FileInv
    <3> QED BY <3>1, <3>2, <3>3
  <2> QED BY <2>1, <2>2
<1>6. PlanInv'
  <2>0. plan \in Seq(Command) /\ (verdict # "RUNNING" => plan = << >>)
    BY DEF TypedInv, PlanInv
  <2>a. << >> \in Seq(Command)
    OBVIOUS
  <2>1. CASE StartTest
    BY <2>1, StartFacts DEF PlanInv
  <2>2. CASE Sends
    <3>1. Tail(plan) \in Seq(Command) /\ verdict = "RUNNING"
      BY <2>0, <2>2, SendingFacts DEF Sends, Sending, TypedInv
    <3>2. (plan' = Tail(plan) /\ verdict' = verdict) \/ plan' = << >>
      BY <2>2 DEF Sends
    <3>3. CASE plan' = Tail(plan) /\ verdict' = verdict
      BY <3>1, <3>3 DEF PlanInv
    <3>4. CASE plan' = << >>
      BY <2>a, <3>4 DEF PlanInv
    <3> QED BY <3>2, <3>3, <3>4
  <2>3. CASE ~StartTest /\ ~Sends
    <3>1. CASE CannotStart \/ NextJob \/ Pass
      <4>1. plan' = plan /\ plan = << >>
        BY <2>0, <3>1 DEF CannotStart, NextJob, Pass
      <4> QED BY <2>a, <4>1 DEF PlanInv
    <3>2. CASE HostCommandFails \/ Interrupt
      <4>1. plan' = << >>
        BY <3>2 DEF HostCommandFails, Interrupt
      <4> QED BY <2>a, <4>1 DEF PlanInv
    <3>3. CASE UNCHANGED vars
      BY <2>0, <3>3 DEF vars, PlanInv
    <3> QED BY <1>0, <2>3, <3>1, <3>2, <3>3
  <2> QED BY <2>1, <2>2, <2>3
<1> QED BY <1>1, <1>2, <1>4, <1>5, <1>6 DEF TypedInv

(* A command that is obeyed moves from the plan to the partition; any      *)
(* other outcome ends the test.                                            *)
LEMMA GoalStep ==
  ASSUME TypedInv, GoalInv, [Next]_vars
  PROVE  GoalInv'
<1>0. \/ StartTest \/ CannotStart \/ Sends \/ HostCommandFails \/ Pass \/ Interrupt
      \/ NextJob \/ UNCHANGED vars
  BY StepKinds DEF TypedInv
<1>a. lpar' = lpar => \A p : AllDone(p)' = AllDone(p)
  BY DEF AllDone
<1>1. CASE StartTest
  <2>1. goal' = AllDone(plan') /\ lpar' = lpar
    BY <1>1, StartFacts
  <2> QED BY <2>1 DEF GoalInv, AllDone
<1>2. CASE Sends
  <2> SUFFICES ASSUME verdict' \in {"RUNNING", "PASS"}, test \notin Lenient
               PROVE  goal' = AllDone(plan)'
    BY <1>2 DEF Sends, Sent, GoalInv
  <2> DEFINE c == Head(plan)
  <2>1. /\ plan' = Tail(plan) /\ plan # << >> /\ verdict = "RUNNING" /\ goal' = goal
        /\ \A r \in Resources : lpar'[r] = lpar[r] + Signed(c, c.qty, r)
    BY <1>2 DEF Sends, Sent, Sending
  <2>2. c \in Command /\ c.op \in {"a", "r", "m"} /\ c.qty \in Nat /\ plan \in Seq(Command)
    BY <1>2, SendingFacts DEF Sends, TypedInv, PlanInv
  <2>3. goal = AllDone(plan)
    BY <2>1 DEF GoalInv
  <2>4. ASSUME NEW r \in Resources
        PROVE  lpar[r] + Amount(plan, {"a"}, r) - Amount(plan, {"r", "m"}, r)
                 = lpar'[r] + Amount(Tail(plan), {"a"}, r) - Amount(Tail(plan), {"r", "m"}, r)
    <3>1. /\ Amount(plan, {"a"}, r) = Own(c, {"a"}, r) + Amount(Tail(plan), {"a"}, r)
          /\ Amount(plan, {"r", "m"}, r) = Own(c, {"r", "m"}, r) + Amount(Tail(plan), {"r", "m"}, r)
          /\ Amount(Tail(plan), {"a"}, r) \in Nat /\ Amount(Tail(plan), {"r", "m"}, r) \in Nat
          /\ Own(c, {"a"}, r) \in Nat /\ Own(c, {"r", "m"}, r) \in Nat
      BY <2>1, <2>2, AmountPeel
    <3>2. lpar[r] \in Int /\ lpar'[r] = lpar[r] + Signed(c, c.qty, r)
      BY <2>1 DEF TypedInv, MachineInv
    <3>3. Signed(c, c.qty, r) = Own(c, {"a"}, r) - Own(c, {"r", "m"}, r)
      BY <2>2 DEF Signed, Own
    <3> HIDE DEF c
    <3> QED BY <3>1, <3>2, <3>3
  <2>5. AllDone(plan)' = [r \in Resources |->
            lpar'[r] + Amount(Tail(plan), {"a"}, r) - Amount(Tail(plan), {"r", "m"}, r)]
    BY <2>1 DEF AllDone
  <2>6. AllDone(plan) = [r \in Resources |->
            lpar[r] + Amount(plan, {"a"}, r) - Amount(plan, {"r", "m"}, r)]
    BY DEF AllDone
  <2> QED BY <2>1, <2>3, <2>4, <2>5, <2>6
<1>3. CASE Pass
  <2>1. plan' = plan /\ lpar' = lpar /\ goal' = goal /\ test' = test /\ verdict = "RUNNING"
    BY <1>3 DEF Pass, machine
  <2>2. AllDone(plan)' = AllDone(plan)
    BY <2>1 DEF AllDone
  <2> QED BY <2>1, <2>2 DEF GoalInv
<1>4. CASE Interrupt
  <2>1. plan' = << >> /\ lpar' = lpar /\ goal' = goal /\ test' = test
    BY <1>4 DEF Interrupt, machine
  <2>2. verdict' \in {"RUNNING", "PASS"} => verdict = verdict' /\ verdict # "RUNNING"
    BY <1>4 DEF Interrupt
  <2>3. verdict # "RUNNING" => plan = << >>
    BY DEF TypedInv, PlanInv
  <2>4. verdict' \in {"RUNNING", "PASS"} => AllDone(plan)' = AllDone(plan)
    BY <2>1, <2>2, <2>3 DEF AllDone
  <2> QED BY <2>1, <2>2, <2>4 DEF GoalInv
<1>5. CASE CannotStart \/ HostCommandFails \/ NextJob
  <2>1. verdict' \notin {"RUNNING", "PASS"}
    BY <1>5 DEF CannotStart, HostCommandFails, NextJob
  <2> QED BY <2>1 DEF GoalInv
<1>6. CASE UNCHANGED vars
  <2>1. plan' = plan /\ lpar' = lpar /\ goal' = goal /\ test' = test /\ verdict' = verdict
    BY <1>6 DEF vars, machine
  <2>2. AllDone(plan)' = AllDone(plan)
    BY <2>1 DEF AllDone
  <2> QED BY <2>1, <2>2 DEF GoalInv
<1> QED BY <1>0, <1>1, <1>2, <1>3, <1>4, <1>5, <1>6

(* A test that goes on after a step has just started, has had a command    *)
(* done, or nothing happened.                                              *)
Goes ==
  /\ Sending
  /\ plan' = Tail(plan) /\ verdict' = verdict /\ test' = test
  /\ \A r \in Resources : lpar'[r] = lpar[r] + Signed(Head(plan), Head(plan).qty, r)
  /\ mode' = mode /\ maxProcs' = maxProcs /\ fresh' = fresh /\ passed' = passed
  /\ before' = before /\ found' = found /\ file' = file /\ goal' = goal

(* A test that runs and is not lenient has just started, or its last       *)
(* command was obeyed in full, or nothing happened.                        *)
LEMMA RunningStep ==
  ASSUME TypedInv, [Next]_vars, verdict' = "RUNNING", test' \notin Lenient
  PROVE  StartTest \/ Goes \/ UNCHANGED vars
<1>1. \/ StartTest \/ CannotStart \/ Sends \/ HostCommandFails \/ Pass \/ Interrupt
      \/ NextJob \/ UNCHANGED vars
  BY StepKinds DEF TypedInv
<1>2. ~CannotStart /\ ~HostCommandFails /\ ~Pass /\ ~NextJob
  BY DEF CannotStart, HostCommandFails, Pass, NextJob
<1>3. ~Interrupt
  BY DEF Interrupt
<1>4. ASSUME Sends PROVE Goes
  <2>1. Sending /\ Sent /\ test' = test
    BY <1>4 DEF Sends, Sent
  <2>2. PICK d \in 0 .. Head(plan).qty :
          /\ \A r \in Resources : lpar'[r] = lpar[r] + Signed(Head(plan), d, r)
          /\ \/ /\ plan' = Tail(plan) /\ verdict' = verdict
                /\ test \notin Lenient => d = Head(plan).qty
             \/ plan' = << >> /\ verdict' \in {"FAIL", "CANCEL", "ERROR"}
    BY <1>4 DEF Sends
  <2>3. plan' = Tail(plan) /\ verdict' = verdict /\ d = Head(plan).qty
    BY <2>1, <2>2
  <2> QED BY <2>1, <2>2, <2>3 DEF Goes, Sent, constantVars, jobVars
<1> QED BY <1>1, <1>2, <1>3, <1>4

(* The first command of a plan, and the rest of it. *)
LEMMA HeadFacts ==
  ASSUME PlanInv, Sending, NEW r \in Resources, NEW o \in {"a", "r"},
         Head(plan).op = o, Head(plan).res = r
  PROVE  /\ Tail(plan) \in Seq(Command) /\ Head(plan).qty \in Nat
         /\ \A ops : /\ Amount(Tail(plan), ops, r) \in Nat /\ Amount(plan, ops, r) \in Nat
                     /\ Amount(plan, ops, r)
                          = (IF o \in ops THEN Head(plan).qty ELSE 0) + Amount(Tail(plan), ops, r)
         /\ \A d \in Nat : Signed(Head(plan), d, r) = IF o = "a" THEN d ELSE -d
<1>1. plan \in Seq(Command) /\ plan # << >>
  BY DEF PlanInv, Sending
<1>2. Tail(plan) \in Seq(Command) /\ Head(plan).qty \in Nat
  BY SendingFacts
<1>3. \A ops : /\ Amount(plan, ops, r) = Own(Head(plan), ops, r) + Amount(Tail(plan), ops, r)
               /\ Amount(Tail(plan), ops, r) \in Nat /\ Amount(plan, ops, r) \in Nat
  BY <1>1, AmountPeel, WeightsList
<1>4. \A ops : Own(Head(plan), ops, r) = IF o \in ops THEN Head(plan).qty ELSE 0
  BY DEF Own
<1>5. \A d \in Nat : Signed(Head(plan), d, r) = IF o = "a" THEN d ELSE -d
  BY DEF Signed
<1> QED BY <1>2, <1>3, <1>4, <1>5

(* test_mem_add moves towards the maximum. *)
LEMMA MemAddStep ==
  ASSUME TypedInv, MemAddInv, [Next]_vars
  PROVE  MemAddInv'
<1> SUFFICES ASSUME verdict' = "RUNNING", test' = "test_mem_add"
             PROVE  /\ OneKind(plan', "a", "mem")
                    /\ lpar'.mem + Amount(plan', {"a"}, "mem") <= MaxMem
  BY DEF MemAddInv, OneKind, Amount
<1>0. StartTest \/ Goes \/ UNCHANGED vars
  BY RunningStep DEF Lenient
<1>1. CASE StartTest
  <2>1. plan' \in test_mem_add /\ lpar' = lpar
    BY <1>1, StartFacts, PlansAre
  <2> QED BY <2>1, MemAddPlan DEF TypedInv
<1>2. CASE Goes
  <2>1. OneKind(plan, "a", "mem") /\ lpar.mem + Amount(plan, {"a"}, "mem") <= MaxMem
    BY <1>2 DEF Goes, MemAddInv, Sending
  <2>2. Sending /\ PlanInv /\ plan \in Seq(Command) /\ plan # << >>
    BY <1>2 DEF Goes, TypedInv, PlanInv, Sending
  <2>3. OneKind(Tail(plan), "a", "mem") /\ Head(plan).op = "a" /\ Head(plan).res = "mem"
    BY <2>1, <2>2, TailShape
  <2> DEFINE q == Head(plan).qty
             x == Amount(Tail(plan), {"a"}, "mem")
  <2>4. q \in Nat /\ x \in Nat /\ Amount(plan, {"a"}, "mem") = q + x
        /\ Signed(Head(plan), q, "mem") = q
    BY <2>2, <2>3, HeadFacts DEF Resources
  <2>5. lpar'.mem = lpar.mem + q /\ lpar.mem \in Int
    BY <1>2, <2>4 DEF Goes, Resources, TypedInv, MachineInv
  <2>6. plan' = Tail(plan)
    BY <1>2 DEF Goes
  <2> HIDE DEF q, x
  <2>7. lpar'.mem + x <= MaxMem
    BY <2>1, <2>4, <2>5, Profile
  <2> QED BY <2>3, <2>6, <2>7 DEF x
<1>3. CASE UNCHANGED vars
  <2>1. plan' = plan /\ lpar' = lpar /\ verdict = "RUNNING" /\ test = "test_mem_add"
    BY <1>3 DEF vars, machine
  <2> QED BY <2>1 DEF MemAddInv
<1> QED BY <1>0, <1>1, <1>2, <1>3

(* test_cpu_add moves towards the maximum. *)
LEMMA CpuAddStep ==
  ASSUME TypedInv, CpuAddInv, [Next]_vars
  PROVE  CpuAddInv'
<1> SUFFICES ASSUME verdict' = "RUNNING", test' = "test_cpu_add", mode' = "dedicated"
             PROVE  /\ OneKind(plan', "a", "procs")
                    /\ lpar'.procs + Amount(plan', {"a"}, "procs") <= maxProcs'
  BY DEF CpuAddInv, OneKind, Amount
<1>0. StartTest \/ Goes \/ UNCHANGED vars
  BY RunningStep DEF Lenient
<1>1. CASE StartTest
  <2>1. plan' \in test_cpu_add /\ lpar' = lpar /\ mode = "dedicated" /\ maxProcs' = maxProcs
    BY <1>1, StartFacts, PlansAre
  <2>2. OneKind(plan', "a", "procs") /\ Amount(plan', {"a"}, "procs") <= maxProcs - lpar.procs
    BY <2>1, CpuAddPlan DEF TypedInv
  <2>3. Amount(plan', {"a"}, "procs") \in Nat
    BY <1>1, StartFacts, WeightsList
  <2>4. maxProcs \in Nat /\ lpar.procs \in Int
    BY WithinFacts DEF TypedInv, MachineInv, ModeInv
  <2> QED BY <2>1, <2>2, <2>3, <2>4
<1>2. CASE Goes
  <2>1. OneKind(plan, "a", "procs") /\ lpar.procs + Amount(plan, {"a"}, "procs") <= maxProcs
    BY <1>2 DEF Goes, CpuAddInv, Sending
  <2>2. Sending /\ PlanInv /\ plan \in Seq(Command) /\ plan # << >>
    BY <1>2 DEF Goes, TypedInv, PlanInv, Sending
  <2>3. OneKind(Tail(plan), "a", "procs") /\ Head(plan).op = "a" /\ Head(plan).res = "procs"
    BY <2>1, <2>2, TailShape
  <2> DEFINE q == Head(plan).qty
             x == Amount(Tail(plan), {"a"}, "procs")
  <2>4. q \in Nat /\ x \in Nat /\ Amount(plan, {"a"}, "procs") = q + x
        /\ Signed(Head(plan), q, "procs") = q
    BY <2>2, <2>3, HeadFacts DEF Resources
  <2>5. lpar'.procs = lpar.procs + q /\ lpar.procs \in Int
    BY <1>2, <2>4 DEF Goes, Resources, TypedInv, MachineInv
  <2>6. plan' = Tail(plan) /\ maxProcs' = maxProcs /\ maxProcs \in Nat
    BY <1>2 DEF Goes, TypedInv, ModeInv
  <2> HIDE DEF q, x
  <2>7. lpar'.procs + x <= maxProcs
    BY <2>1, <2>4, <2>5, <2>6
  <2> QED BY <2>3, <2>6, <2>7 DEF x
<1>3. CASE UNCHANGED vars
  <2>1. /\ plan' = plan /\ lpar' = lpar /\ verdict = "RUNNING" /\ test = "test_cpu_add"
        /\ maxProcs' = maxProcs /\ mode = "dedicated"
    BY <1>3 DEF vars, machine, constantVars
  <2> QED BY <2>1 DEF CpuAddInv
<1> QED BY <1>0, <1>1, <1>2, <1>3

(* test_cpu_rm only removes. *)
LEMMA CpuRmStep ==
  ASSUME TypedInv, CpuRmInv, [Next]_vars
  PROVE  CpuRmInv'
<1> SUFFICES ASSUME verdict' = "RUNNING", test' = "test_cpu_rm", mode' = "dedicated"
             PROVE  OneKind(plan', "r", "procs") /\ Amount(plan', {"a"}, "procs") = 0
  BY DEF CpuRmInv, OneKind, Amount
<1>0. StartTest \/ Goes \/ UNCHANGED vars
  BY RunningStep DEF Lenient
<1>1. CASE StartTest
  <2>1. plan' \in test_cpu_rm /\ mode = "dedicated" /\ data_payload_extract("test_cpu_rm")
    BY <1>1, StartFacts, PlansAre
  <2> QED BY <2>1, CpuRmPlan DEF TypedInv, Resources
<1>2. CASE Goes
  <2>1. OneKind(plan, "r", "procs") /\ Amount(plan, {"a"}, "procs") = 0
    BY <1>2 DEF Goes, CpuRmInv, Sending
  <2>2. Sending /\ PlanInv /\ plan \in Seq(Command) /\ plan # << >> /\ plan' = Tail(plan)
    BY <1>2 DEF Goes, TypedInv, PlanInv, Sending
  <2>3. OneKind(Tail(plan), "r", "procs") /\ Head(plan).op = "r" /\ Head(plan).res = "procs"
    BY <2>1, <2>2, TailShape
  <2>4. Amount(plan, {"a"}, "procs") = 0 + Amount(Tail(plan), {"a"}, "procs")
        /\ Amount(Tail(plan), {"a"}, "procs") \in Nat
    BY <2>2, <2>3, HeadFacts DEF Resources
  <2> QED BY <2>1, <2>2, <2>3, <2>4
<1>3. CASE UNCHANGED vars
  <2>1. plan' = plan /\ verdict = "RUNNING" /\ test = "test_cpu_rm" /\ mode = "dedicated"
    BY <1>3 DEF vars, constantVars
  <2> QED BY <2>1 DEF CpuRmInv
<1> QED BY <1>0, <1>1, <1>2, <1>3

(* After an addition its removal is owed, and after that nothing. *)
LEMMA OwedNext ==
  ASSUME NEW p \in Seq(Command), p # << >>, NEW r, Turns(p, r)
  PROVE  /\ OwedBy(Tail(p)) \in Nat
         /\ Head(p).op = "r" => OwedBy(Tail(p)) = 0
         /\ Head(p).op = "a" /\ Covered(p) => OwedBy(Tail(p)) <= Head(p).qty
         /\ Head(p).op = "a" /\ Matched(p) => OwedBy(Tail(p)) = Head(p).qty
<1> DEFINE n == Len(p)
           q == Tail(p)
<1>1. /\ n \in Nat /\ n >= 1 /\ q \in Seq(Command) /\ Len(q) = n - 1 /\ Head(p) = p[1]
      /\ p[1] \in Command
      /\ \A i \in 1 .. n - 1 : q[i] = p[i + 1] /\ p[i + 1] \in Command
  OBVIOUS
<1> HIDE DEF n, q
<1>2. n >= 2 => q # << >> /\ Head(q) = p[2] /\ p[2] \in Command
  <2> SUFFICES ASSUME n >= 2 PROVE q # << >> /\ Head(q) = p[2] /\ p[2] \in Command
    OBVIOUS
  <2>1. 1 \in 1 .. n - 1 /\ 1 + 1 = 2
    BY <1>1
  <2>2. q[1] = p[2] /\ p[2] \in Command
    BY <1>1, <2>1
  <2>3. q # << >>
    BY <1>1
  <2>4. Head(q) = q[1]
    BY <1>1, <2>3
  <2> QED BY <2>2, <2>3, <2>4
<1>3. n = 1 => q = << >>
  BY <1>1
<1>4. \A c \in Command : c.qty \in Nat
  BY DEF Command
<1>5. 1 \in 1 .. n /\ (n >= 2 => 2 \in 1 .. n /\ 1 \in 1 .. n - 1)
  BY <1>1
<1>6. /\ p[1].op = IF (n - 1) % 2 = 0 THEN "r" ELSE "a"
      /\ n >= 2 => p[2].op = IF (n - 2) % 2 = 0 THEN "r" ELSE "a"
  BY <1>1, <1>5 DEF Turns, n
<1>a. n \in Nat /\ n >= 1
  BY <1>1
<1>7. (n - 1) % 2 = 0 => (n - 2) % 2 # 0
  BY <1>a
<1>8. (n - 1) % 2 # 0 => (n - 2) % 2 = 0 /\ n >= 2
  BY <1>a
<1>9. CASE n = 1
  <2>1. OwedBy(q) = 0 /\ Head(p).op = "r"
    BY <1>1, <1>3, <1>6, <1>8, <1>9 DEF OwedBy
  <2> QED BY <2>1 DEF q
<1>10. CASE n >= 2
  <2>1. OwedBy(q) = IF p[2].op = "r" THEN p[2].qty ELSE 0
    BY <1>2, <1>10 DEF OwedBy
  <2>2. p[2].qty \in Nat
    BY <1>2, <1>4, <1>10
  <2>3. Head(p).op = "r" => OwedBy(q) = 0
    BY <1>1, <1>6, <1>7, <1>10, <2>1
  <2>4. Head(p).op = "a" => OwedBy(q) = p[2].qty
    BY <1>1, <1>6, <1>8, <1>10, <2>1
  <2>5. Head(p).op = "a" /\ Covered(p) => p[2].qty <= Head(p).qty
    BY <1>1, <1>5, <1>10 DEF Covered, n
  <2>6. Head(p).op = "a" /\ Matched(p) => p[2].qty = Head(p).qty
    BY <1>1, <1>5, <1>10 DEF Matched, n
  <2> QED BY <2>1, <2>2, <2>3, <2>4, <2>5, <2>6 DEF q
<1> QED BY <1>1, <1>9, <1>10

(* A step in which no command is sent leaves the partition as it is, and   *)
(* what the test started from unless a test starts or fails to.            *)
LEMMA QuietStep ==
  ASSUME CannotStart \/ HostCommandFails \/ Pass \/ Interrupt \/ NextJob \/ UNCHANGED vars
  PROVE  /\ lpar' = lpar
         /\ before' = lpar \/ (before' = before /\ test' = test)
         /\ verdict' = "RUNNING" => verdict = "RUNNING" /\ plan' = plan /\ test' = test
<1>1. CASE CannotStart
  <2>1. lpar' = lpar /\ before' = lpar
    BY <1>1 DEF CannotStart, machine
  <2>2. verdict' # "RUNNING"
    BY <1>1 DEF CannotStart
  <2> QED BY <2>1, <2>2
<1>2. CASE HostCommandFails
  BY <1>2 DEF HostCommandFails, machine, Sent
<1>3. CASE Pass
  BY <1>3 DEF Pass, machine
<1>4. CASE Interrupt
  BY <1>4 DEF Interrupt, machine
<1>5. CASE NextJob
  BY <1>5 DEF NextJob, machine
<1>6. CASE UNCHANGED vars
  BY <1>6 DEF vars, machine
<1> QED BY <1>1, <1>2, <1>3, <1>4, <1>5, <1>6

(* The drift of each resource is a number. *)
LEMMA DriftNat == \A r \in Resources : Drift[r] \in Nat
  BY DEF Drift, Resources

(* p is the command c and then the plan q. *)
Precedes(c, q, p) == p \in Seq(Command) /\ p # << >> /\ Head(p) = c /\ Tail(p) = q

(* The amount of such a plan. *)
LEMMA AmountFirst ==
  ASSUME NEW p, NEW c, NEW q, Precedes(c, q, p), NEW ops, NEW r
  PROVE  /\ Amount(p, ops, r) = Own(c, ops, r) + Amount(q, ops, r)
         /\ Own(c, ops, r) \in Nat /\ Amount(q, ops, r) \in Nat
<1>1. p \in Seq(Command) /\ p # << >> /\ Head(p) = c /\ Tail(p) = q
  BY DEF Precedes
<1>2. /\ Amount(p, ops, r) = Own(Head(p), ops, r) + Amount(Tail(p), ops, r)
      /\ Own(Head(p), ops, r) \in Nat /\ Amount(Tail(p), ops, r) \in Nat
  BY <1>1, AmountPeel
<1> QED BY <1>1, <1>2, Zenon

(* The commands of the last three tests come to their drift. *)
LEMMA LenientPlan ==
  ASSUME ModeInv, NEW r \in Resources
  PROVE  /\ Amount(AddRemoveOne, {"a"}, r) <= Drift[r]
         /\ Amount(AddRemoveOne, {"r", "m"}, r) <= Drift[r]
<1>0. r \in {"procs", "units", "mem"}
  BY DEF Resources
<1>1. CASE mode = "dedicated"
  <2> DEFINE a == [op |-> "a", res |-> "procs", qty |-> 1]
             b == [op |-> "r", res |-> "procs", qty |-> 1]
             p == << a, b >>
             q == << b >>
  <2>1. AddRemoveOne = p
    BY <1>1 DEF AddRemoveOne, add_ded_cpu, rem_ded_cpu, Add, Rem
  <2>2. a \in Command /\ b \in Command
    BY DEF Command, Resources
  <2>3. /\ Own(a, {"a"}, r) + Own(b, {"a"}, r) <= Drift[r]
        /\ Own(a, {"r", "m"}, r) + Own(b, {"r", "m"}, r) <= Drift[r]
    BY <1>0 DEF Own, Drift
  <2> HIDE DEF a, b
  <2>4. Precedes(a, q, p) /\ Precedes(b, << >>, q)
    BY <2>2 DEF Precedes
  <2> HIDE DEF p, q
  <2>5. ASSUME NEW ops PROVE Amount(p, ops, r) = Own(a, ops, r) + Own(b, ops, r)
    <3>1. Amount(p, ops, r) = Own(a, ops, r) + Amount(q, ops, r)
      BY <2>4, AmountFirst
    <3>2. Amount(q, ops, r) = Own(b, ops, r) + Amount(<< >>, ops, r) /\ Own(b, ops, r) \in Nat
      BY <2>4, AmountFirst
    <3> QED BY <3>1, <3>2, AmountEmpty
  <2> QED BY <2>1, <2>3, <2>5
<1>2. CASE mode = "shared"
  <2> DEFINE a == [op |-> "a", res |-> "procs", qty |-> 1]
             b == [op |-> "a", res |-> "units", qty |-> 4]
             c == [op |-> "r", res |-> "procs", qty |-> 1]
             d == [op |-> "r", res |-> "units", qty |-> 4]
             p == << a, b, c, d >>
             q == << b, c, d >>
             s == << c, d >>
             t == << d >>
             Sum(ops) == Own(a, ops, r) + (Own(b, ops, r) + (Own(c, ops, r) + Own(d, ops, r)))
  <2>1. AddRemoveOne = p
    BY <1>2 DEF AddRemoveOne, add_proc, remove_proc, Add, Rem
  <2>2. a \in Command /\ b \in Command /\ c \in Command /\ d \in Command
    BY DEF Command, Resources
  <2>3. Sum({"a"}) <= Drift[r] /\ Sum({"r", "m"}) <= Drift[r]
    BY <1>0 DEF Own, Drift
  <2> HIDE DEF a, b, c, d
  <2>4. Precedes(a, q, p) /\ Precedes(b, s, q) /\ Precedes(c, t, s) /\ Precedes(d, << >>, t)
    BY <2>2 DEF Precedes
  <2> HIDE DEF p, q, s, t
  <2>5. ASSUME NEW ops PROVE Amount(p, ops, r) = Sum(ops)
    <3>1. Amount(p, ops, r) = Own(a, ops, r) + Amount(q, ops, r)
      BY <2>4, AmountFirst
    <3>2. Amount(q, ops, r) = Own(b, ops, r) + Amount(s, ops, r)
      BY <2>4, AmountFirst
    <3>3. Amount(s, ops, r) = Own(c, ops, r) + Amount(t, ops, r)
      BY <2>4, AmountFirst
    <3>4. Amount(t, ops, r) = Own(d, ops, r) + Amount(<< >>, ops, r) /\ Own(d, ops, r) \in Nat
      BY <2>4, AmountFirst
    <3> QED BY <3>1, <3>2, <3>3, <3>4, AmountEmpty
  <2> QED BY <2>1, <2>3, <2>5
<1> QED BY <1>1, <1>2 DEF ModeInv

(* A command that comes to u added and v removed changes a quantity l of   *)
(* a partition that had b by x, and leaves y and z of the plan at most.    *)
LEMMA DriftArithmetic ==
  ASSUME NEW l \in Int, NEW b \in Int, NEW g \in Nat, NEW x \in Int, NEW u \in Nat,
         NEW v \in Nat, NEW y \in Nat, NEW z \in Nat,
         l + (u + y) <= b + g, b + (v + z) <= l + g, x <= u, 0 - v <= x
  PROVE  /\ (l + x) + y <= b + g /\ b + z <= (l + x) + g
         /\ (l + x) + 0 <= b + g /\ b + 0 <= (l + x) + g
  OBVIOUS

(* A command of the last three tests, done in part or in full, moves the   *)
(* partition by what it takes from the plan at most.                       *)
LEMMA DriftStep ==
  ASSUME TypedInv, DriftInv, [Next]_vars
  PROVE  DriftInv'
<1>0. \/ StartTest \/ CannotStart \/ Sends \/ HostCommandFails \/ Pass \/ Interrupt
      \/ NextJob \/ UNCHANGED vars
  BY StepKinds DEF TypedInv
<1> SUFFICES ASSUME test' \in Lenient, NEW r \in Resources
             PROVE  /\ lpar'[r] + Amount(plan', {"a"}, r) <= before'[r] + Drift[r]
                    /\ before'[r] + Amount(plan', {"r", "m"}, r) <= lpar'[r] + Drift[r]
  BY DEF DriftInv, Amount
<1>a. /\ lpar[r] \in Int /\ before[r] \in Int /\ Drift[r] \in Nat /\ plan \in Seq(Command)
      /\ Amount(plan, {"a"}, r) \in Nat /\ Amount(plan, {"r", "m"}, r) \in Nat
      /\ Amount(<< >>, {"a"}, r) = 0 /\ Amount(<< >>, {"r", "m"}, r) = 0
  BY DriftNat, AmountEmpty, WeightsList DEF TypedInv, MachineInv, PlanInv
<1>1. CASE StartTest
  <2>1. lpar' = lpar /\ before' = lpar /\ plan' \in Plans(Head(left)) /\ Head(left) \in Lenient
    BY <1>1, StartFacts
  <2>2. plan' = AddRemoveOne
    BY <2>1 DEF Plans, Lenient, OnHost, test_check_smt_state, test_offline_cpu_persistence,
       test_offline_proc_persistence
  <2>3. /\ Amount(plan', {"a"}, r) <= Drift[r] /\ Amount(plan', {"r", "m"}, r) <= Drift[r]
    BY <2>2, LenientPlan DEF TypedInv
  <2>4. Amount(plan', {"a"}, r) \in Nat /\ Amount(plan', {"r", "m"}, r) \in Nat
    BY <1>1, StartFacts, WeightsList
  <2> QED BY <1>a, <2>1, <2>3, <2>4
<1>2. CASE Sends
  <2>0. Sending /\ test \in Lenient /\ before' = before /\ plan # << >>
    BY <1>2 DEF Sends, Sent, Sending
  <2>1. /\ lpar[r] + Amount(plan, {"a"}, r) <= before[r] + Drift[r]
        /\ before[r] + Amount(plan, {"r", "m"}, r) <= lpar[r] + Drift[r]
    BY <2>0 DEF DriftInv
  <2> DEFINE c == Head(plan)
  <2>2. c.op \in {"a", "r", "m"} /\ c.qty \in Nat
    BY <2>0, SendingFacts DEF TypedInv
  <2>3. PICK d \in 0 .. c.qty : lpar'[r] = lpar[r] + Signed(c, d, r)
    BY <1>2 DEF Sends
  <2>4. /\ Amount(plan, {"a"}, r) = Own(c, {"a"}, r) + Amount(Tail(plan), {"a"}, r)
        /\ Amount(plan, {"r", "m"}, r) = Own(c, {"r", "m"}, r) + Amount(Tail(plan), {"r", "m"}, r)
        /\ Amount(Tail(plan), {"a"}, r) \in Nat /\ Amount(Tail(plan), {"r", "m"}, r) \in Nat
        /\ Own(c, {"a"}, r) \in Nat /\ Own(c, {"r", "m"}, r) \in Nat
    BY <1>a, <2>0, AmountPeel
  <2>5. /\ Signed(c, d, r) \in Int /\ Signed(c, d, r) <= Own(c, {"a"}, r)
        /\ 0 - Own(c, {"r", "m"}, r) <= Signed(c, d, r)
    BY <2>2, <2>3 DEF Signed, Own
  <2> DEFINE x == Signed(c, d, r)
             u == Own(c, {"a"}, r)
             v == Own(c, {"r", "m"}, r)
             y == Amount(Tail(plan), {"a"}, r)
             z == Amount(Tail(plan), {"r", "m"}, r)
  <2>6. /\ (lpar[r] + x) + y <= before[r] + Drift[r] /\ before[r] + z <= (lpar[r] + x) + Drift[r]
        /\ (lpar[r] + x) + 0 <= before[r] + Drift[r] /\ before[r] + 0 <= (lpar[r] + x) + Drift[r]
    <3> DEFINE l == lpar[r]
               b == before[r]
               g == Drift[r]
    <3>1. l \in Int /\ b \in Int /\ g \in Nat
      BY <1>a
    <3>2. x \in Int /\ u \in Nat /\ v \in Nat /\ y \in Nat /\ z \in Nat /\ x <= u /\ 0 - v <= x
      BY <2>4, <2>5
    <3>3. l + (u + y) <= b + g /\ b + (v + z) <= l + g
      BY <2>1, <2>4
    <3> HIDE DEF x, u, v, y, z, l, b, g
    <3>4. /\ (l + x) + y <= b + g /\ b + z <= (l + x) + g
          /\ (l + x) + 0 <= b + g /\ b + 0 <= (l + x) + g
      BY <3>1, <3>2, <3>3, DriftArithmetic
    <3> QED BY <3>4 DEF l, b, g
  <2>7. CASE plan' = Tail(plan)
    <3>1. Amount(plan', {"a"}, r) = y /\ Amount(plan', {"r", "m"}, r) = z
      BY <2>7
    <3> HIDE DEF x, u, v, y, z, c
    <3> QED BY <2>0, <2>3, <2>6, <3>1 DEF x
  <2>8. CASE plan' = << >>
    <3>1. Amount(plan', {"a"}, r) = 0 /\ Amount(plan', {"r", "m"}, r) = 0
      BY <1>a, <2>8
    <3> HIDE DEF x, u, v, y, z, c
    <3> QED BY <2>0, <2>3, <2>6, <3>1 DEF x
  <2> QED BY <1>2, <2>7, <2>8 DEF Sends
<1>3. CASE CannotStart \/ HostCommandFails \/ Pass \/ Interrupt \/ NextJob \/ UNCHANGED vars
  <2>1. lpar' = lpar /\ (before' = lpar \/ (before' = before /\ test' = test))
    BY <1>3, QuietStep
  <2>2. plan' = plan \/ plan' = << >>
    BY <1>3 DEF CannotStart, HostCommandFails, Pass, Interrupt, NextJob, vars
  <2>3. before' = lpar /\ before' # before => plan' = << >>
    <3>1. CASE CannotStart
      BY <3>1 DEF CannotStart, TypedInv, PlanInv
    <3>2. CASE ~CannotStart
      BY <1>3, <3>2 DEF HostCommandFails, Pass, Interrupt, NextJob, vars, Sent
    <3> QED BY <3>1, <3>2
  <2>4. CASE before' = before /\ test' = test
    BY <1>a, <2>1, <2>2, <2>4 DEF DriftInv
  <2>5. CASE before' = lpar /\ plan' = << >>
    BY <1>a, <2>1, <2>5
  <2>6. before' = lpar /\ before' = before /\ test' # test => plan' = << >>
    BY <1>3 DEF CannotStart, HostCommandFails, Pass, Interrupt, NextJob, vars, Sent, TypedInv,
       PlanInv
  <2> QED BY <2>1, <2>3, <2>4, <2>5, <2>6
<1> QED BY <1>0, <1>1, <1>2, <1>3

(* test_mem_rem keeps two tenths, also when it is stopped half-way. *)
LEMMA MemRemStep ==
  ASSUME TypedInv, MemRemInv, [Next]_vars
  PROVE  MemRemInv'
<1> SUFFICES ASSUME test' = "test_mem_rem"
             PROVE  /\ 10 * lpar'.mem >= 2 * before'.mem
                    /\ verdict' = "RUNNING" =>
                         /\ OneKind(plan', "r", "mem")
                         /\ 10 * (lpar'.mem - Amount(plan', {"r", "m"}, "mem")) >= 2 * before'.mem
  BY DEF MemRemInv, OneKind, Amount
<1>0. \/ StartTest \/ CannotStart \/ Sends \/ HostCommandFails \/ Pass \/ Interrupt
      \/ NextJob \/ UNCHANGED vars
  BY StepKinds DEF TypedInv
<1>a. lpar.mem \in Nat /\ before.mem \in Nat
  BY WithinFacts DEF TypedInv, MachineInv
<1>1. CASE StartTest
  <2>1. plan' \in test_mem_rem /\ lpar' = lpar /\ before' = lpar
    BY <1>1, StartFacts, PlansAre
  <2>2. OneKind(plan', "r", "mem") /\ 10 * (lpar.mem - Amount(plan', {"r", "m"}, "mem")) >= 2 * lpar.mem
    BY <2>1, MemRemPlan DEF TypedInv
  <2> QED BY <1>a, <2>1, <2>2
<1>2. CASE Sends
  <2>0. test = "test_mem_rem" /\ before' = before /\ Sending /\ verdict = "RUNNING"
    BY <1>2 DEF Sends, Sent, Sending
  <2>1. OneKind(plan, "r", "mem") /\ 10 * (lpar.mem - Amount(plan, {"r", "m"}, "mem")) >= 2 * before.mem
    BY <2>0 DEF MemRemInv
  <2>2. PlanInv /\ plan \in Seq(Command) /\ plan # << >>
    BY <2>0 DEF TypedInv, PlanInv, Sending
  <2>3. OneKind(Tail(plan), "r", "mem") /\ Head(plan).op = "r" /\ Head(plan).res = "mem"
    BY <2>1, <2>2, TailShape
  <2> DEFINE q == Head(plan).qty
             x == Amount(Tail(plan), {"r", "m"}, "mem")
  <2>4. /\ q \in Nat /\ x \in Nat /\ Amount(plan, {"r", "m"}, "mem") = q + x
        /\ \A d \in Nat : Signed(Head(plan), d, "mem") = -d
    BY <2>0, <2>2, <2>3, HeadFacts DEF Resources
  <2>5. PICK d \in 0 .. q :
          /\ \A r \in Resources : lpar'[r] = lpar[r] + Signed(Head(plan), d, r)
          /\ \/ /\ plan' = Tail(plan) /\ verdict' = verdict
                /\ test \notin Lenient => d = Head(plan).qty
             \/ plan' = << >> /\ verdict' \in {"FAIL", "CANCEL", "ERROR"}
    BY <1>2 DEF Sends
  <2>6. d \in Nat /\ d <= q /\ lpar'.mem = lpar.mem - d
    BY <1>a, <2>4, <2>5 DEF Resources
  <2>7. verdict' = "RUNNING" => d = q /\ plan' = Tail(plan)
    BY <2>0, <2>5 DEF Lenient
  <2> HIDE DEF q, x
  <2>8. 10 * lpar'.mem >= 2 * before.mem /\ (d = q => 10 * (lpar'.mem - x) >= 2 * before.mem)
    BY <1>a, <2>1, <2>4, <2>6
  <2> QED BY <2>0, <2>3, <2>7, <2>8 DEF x
<1>3. CASE CannotStart \/ HostCommandFails \/ Pass \/ Interrupt \/ NextJob \/ UNCHANGED vars
  <2>1. /\ lpar' = lpar /\ (before' = lpar \/ (before' = before /\ test' = test))
        /\ verdict' = "RUNNING" => verdict = "RUNNING" /\ plan' = plan /\ test' = test
    BY <1>3, QuietStep
  <2>2. verdict' = "RUNNING" => before' = before
    BY <1>3 DEF CannotStart, HostCommandFails, Pass, Interrupt, NextJob, vars, Sent
  <2> QED BY <1>a, <2>1, <2>2 DEF MemRemInv
<1> QED BY <1>0, <1>1, <1>2, <1>3

(* test_mem_mix has in hand what the next removal takes, also when an      *)
(* addition was done in part.                                              *)
LEMMA MemMixStep ==
  ASSUME TypedInv, MemMixInv, [Next]_vars
  PROVE  MemMixInv'
<1> SUFFICES ASSUME test' = "test_mem_mix"
             PROVE  /\ lpar'.mem >= before'.mem
                    /\ verdict' = "RUNNING" =>
                         /\ Turns(plan', "mem") /\ Covered(plan')
                         /\ lpar'.mem >= before'.mem + OwedBy(plan')
                         /\ lpar'.mem + Amount(plan', {"a"}, "mem") <= MaxMem
  BY DEF MemMixInv, Turns, Covered, Amount, Owed, OwedBy
<1>0. \/ StartTest \/ CannotStart \/ Sends \/ HostCommandFails \/ Pass \/ Interrupt
      \/ NextJob \/ UNCHANGED vars
  BY StepKinds DEF TypedInv
<1>a. lpar.mem \in Nat /\ before.mem \in Nat /\ MaxMem \in Nat
  BY WithinFacts, Profile DEF TypedInv, MachineInv
<1>1. CASE StartTest
  <2>1. plan' \in test_mem_mix /\ lpar' = lpar /\ before' = lpar
    BY <1>1, StartFacts, PlansAre
  <2>2. /\ Turns(plan', "mem") /\ Covered(plan') /\ (plan' # << >> => Head(plan').op = "a")
        /\ lpar.mem + Amount(plan', {"a"}, "mem") <= MaxMem
    BY <2>1, MemMixPlan DEF TypedInv
  <2>3. OwedBy(plan') = 0
    BY <2>2 DEF OwedBy
  <2> QED BY <1>a, <2>1, <2>2, <2>3
<1>2. CASE Sends
  <2>0. test = "test_mem_mix" /\ before' = before /\ Sending /\ verdict = "RUNNING"
    BY <1>2 DEF Sends, Sent, Sending
  <2>1. /\ Turns(plan, "mem") /\ Covered(plan) /\ lpar.mem >= before.mem + Owed
        /\ lpar.mem + Amount(plan, {"a"}, "mem") <= MaxMem /\ lpar.mem >= before.mem
    BY <2>0 DEF MemMixInv
  <2>2. PlanInv /\ plan \in Seq(Command) /\ plan # << >>
    BY <2>0 DEF TypedInv, PlanInv, Sending
  <2>3. Turns(Tail(plan), "mem") /\ Covered(Tail(plan)) /\ Head(plan).op \in {"a", "r"} /\ Head(plan).res = "mem"
    BY <2>1, <2>2, TailShape
  <2> DEFINE q == Head(plan).qty
             x == Amount(Tail(plan), {"a"}, "mem")
             y == OwedBy(Tail(plan))
  <2>4. /\ q \in Nat /\ x \in Nat
        /\ Amount(plan, {"a"}, "mem") = (IF Head(plan).op = "a" THEN q ELSE 0) + x
        /\ \A d \in Nat : Signed(Head(plan), d, "mem") = IF Head(plan).op = "a" THEN d ELSE -d
    <3>1. CASE Head(plan).op = "a"
      BY <2>0, <2>2, <2>3, <3>1, HeadFacts DEF Resources
    <3>2. CASE Head(plan).op = "r"
      BY <2>0, <2>2, <2>3, <3>2, HeadFacts DEF Resources
    <3> QED BY <2>3, <3>1, <3>2
  <2>5. PICK d \in 0 .. q :
          /\ \A r \in Resources : lpar'[r] = lpar[r] + Signed(Head(plan), d, r)
          /\ \/ /\ plan' = Tail(plan) /\ verdict' = verdict
                /\ test \notin Lenient => d = Head(plan).qty
             \/ plan' = << >> /\ verdict' \in {"FAIL", "CANCEL", "ERROR"}
    BY <1>2 DEF Sends
  <2>6. d \in Nat /\ d <= q /\ lpar'.mem = lpar.mem + IF Head(plan).op = "a" THEN d ELSE -d
    BY <2>4, <2>5 DEF Resources
  <2>7. verdict' = "RUNNING" => d = q /\ plan' = Tail(plan)
    BY <2>0, <2>5 DEF Lenient
  <2>8. Owed = IF Head(plan).op = "r" THEN q ELSE 0
    BY <2>2 DEF Owed, OwedBy
  <2>9. y \in Nat /\ (Head(plan).op = "r" => y = 0) /\ (Head(plan).op = "a" => y <= q)
    BY <2>1, <2>2, OwedNext
  <2> HIDE DEF q, x, y
  <2>10. lpar'.mem >= before.mem
    BY <1>a, <2>1, <2>3, <2>4, <2>6, <2>8
  <2>11. d = q => lpar'.mem >= before.mem + y /\ lpar'.mem + x <= MaxMem
    BY <1>a, <2>1, <2>3, <2>4, <2>6, <2>8, <2>9
  <2> QED BY <2>0, <2>3, <2>7, <2>10, <2>11 DEF x, y
<1>3. CASE CannotStart \/ HostCommandFails \/ Pass \/ Interrupt \/ NextJob \/ UNCHANGED vars
  <2>1. /\ lpar' = lpar /\ (before' = lpar \/ (before' = before /\ test' = test))
        /\ verdict' = "RUNNING" => verdict = "RUNNING" /\ plan' = plan /\ test' = test
    BY <1>3, QuietStep
  <2>2. verdict' = "RUNNING" => before' = before
    BY <1>3 DEF CannotStart, HostCommandFails, Pass, Interrupt, NextJob, vars, Sent
  <2> QED BY <1>a, <2>1, <2>2 DEF MemMixInv, Owed
<1> QED BY <1>0, <1>1, <1>2, <1>3

(* The three tests that share config.txt follow one another. *)
LEMMA InARow ==
  ASSUME NEW t \in Tests
  PROVE  /\ ~(Order[t] < Order["test_cpu_add"])
         /\ Order["test_cpu_add"] <= Order[t] /\ Order[t] < Order["test_cpu_rm"] => t = "test_cpu_add"
         /\ Order["test_cpu_rm"] <= Order[t] /\ Order[t] < Order["test_mix_cpu"] => t = "test_cpu_rm"
         /\ {"test_cpu_add", "test_cpu_rm", "test_mix_cpu"} \subseteq Tests
  BY DEF Tests, Order

(* What ran last when a test starts. *)
LEMMA LastRun ==
  ASSUME OrderInv, left # << >>
  PROVE  /\ Head(left) \notin passed
         /\ "test_cpu_add" \in passed => Head(left) # "test_cpu_add"
         /\ "test_cpu_add" \in passed /\ Head(left) = "test_cpu_rm" => test = "test_cpu_add"
         /\ "test_cpu_rm" \in passed /\ Head(left) = "test_mix_cpu" => test = "test_cpu_rm"
         /\ ~\E i \in 1 .. Len(Tail(left)) : Tail(left)[i] = "test_cpu_add"
<1>1. /\ Head(left) \in Tests /\ Head(left) = left[1] /\ 1 \in 1 .. Len(left)
      /\ \A i \in 1 .. Len(Tail(left)) : Order[Head(left)] < Order[Tail(left)[i]]
  BY LeftFacts DEF OrderInv
<1>2. /\ test \in Tests /\ \A t \in passed : Order[t] < Order[Head(left)] /\ Order[t] <= Order[test]
      /\ passed # {} => Order[test] < Order[Head(left)]
  BY <1>1 DEF OrderInv, After
<1>3. Head(left) \notin passed
  BY <1>1, <1>2, OrderNat
<1>4. ~\E i \in 1 .. Len(Tail(left)) : Tail(left)[i] = "test_cpu_add"
  BY <1>1, InARow
<1> QED BY <1>2, <1>3, <1>4, InARow

(* No test_cpu_add is left once a test runs. *)
LEMMA AddIsFirst ==
  ASSUME OrderInv, verdict = "RUNNING"
  PROVE  ~\E i \in 1 .. Len(left) : left[i] = "test_cpu_add"
<1>1. After(test) /\ test \in Tests
  BY DEF OrderInv
<1> QED BY <1>1, InARow DEF After

(* test_mix_cpu starts from what the removal left and comes back to it     *)
(* after every pair.                                                       *)
LEMMA CpuMixStep ==
  ASSUME TypedInv, UndoneInv, CpuMixInv, [Next]_vars
  PROVE  CpuMixInv'
<1> SUFFICES ASSUME verdict' = "RUNNING", test' = "test_mix_cpu", mode' = "dedicated"
             PROVE  /\ Turns(plan', "procs") /\ Matched(plan')
                    /\ fresh' /\ {"test_cpu_add", "test_cpu_rm"} \subseteq passed' =>
                         /\ lpar'.procs = found'.procs + OwedBy(plan')
                         /\ \A i \in 1 .. Len(plan') : found'.procs + plan'[i].qty <= maxProcs'
  BY DEF CpuMixInv, Turns, Matched, Owed, OwedBy
<1>0. StartTest \/ Goes \/ UNCHANGED vars
  BY RunningStep DEF Lenient
<1>a. lpar.procs \in Nat /\ found.procs \in Nat /\ maxProcs \in Nat
  BY WithinFacts DEF TypedInv, MachineInv, ModeInv
<1>1. CASE StartTest
  <2>1. /\ plan' \in test_mix_cpu /\ mode = "dedicated" /\ data_payload_extract("test_mix_cpu")
        /\ lpar' = lpar /\ found' = found /\ maxProcs' = maxProcs /\ fresh' = fresh
        /\ passed' = passed /\ left # << >> /\ Head(left) = "test_mix_cpu"
        /\ plan' \in Seq(Command)
    BY <1>1, StartFacts, PlansAre
  <2>2. /\ Turns(plan', "procs") /\ Matched(plan') /\ file # << >>
        /\ \A i \in 1 .. Len(plan') : plan'[i].qty <= Total(file[1])
        /\ plan' # << >> => Head(plan').op = "a"
    BY <2>1, CpuMixPlan DEF TypedInv
  <2>3. OwedBy(plan') = 0
    BY <2>2 DEF OwedBy
  <2>4. ASSUME fresh, {"test_cpu_add", "test_cpu_rm"} \subseteq passed
        PROVE  /\ lpar'.procs = found'.procs + OwedBy(plan')
               /\ \A i \in 1 .. Len(plan') : found'.procs + plan'[i].qty <= maxProcs'
    <3>1. test = "test_cpu_rm"
      BY <2>1, <2>4, LastRun DEF TypedInv
    <3>2. lpar = found /\ found.procs + Total(file[1]) <= maxProcs
      BY <2>2, <2>4, <3>1 DEF UndoneInv
    <3>3. Total(file[1]) \in Nat
      <4>1. file[1] \in Seq(Nat)
        BY <2>1, FirstLines DEF TypedInv
      <4> QED BY <4>1, ListTotal
    <3>4. ASSUME NEW i \in 1 .. Len(plan') PROVE found.procs + plan'[i].qty <= maxProcs
      <4>1. plan'[i] \in Command
        BY <2>1
      <4>2. plan'[i].qty \in Nat /\ plan'[i].qty <= Total(file[1])
        BY <2>2, <4>1 DEF Command
      <4> QED BY <1>a, <3>2, <3>3, <4>2
    <3> QED BY <1>a, <2>1, <2>3, <3>2, <3>4
  <2> QED BY <2>1, <2>2, <2>4
<1>2. CASE Goes
  <2>1. /\ Turns(plan, "procs") /\ Matched(plan)
        /\ fresh /\ {"test_cpu_add", "test_cpu_rm"} \subseteq passed =>
             /\ lpar.procs = found.procs + Owed
             /\ \A i \in 1 .. Len(plan) : found.procs + plan[i].qty <= maxProcs
    BY <1>2 DEF Goes, CpuMixInv, Sending
  <2>2. /\ Sending /\ PlanInv /\ plan \in Seq(Command) /\ plan # << >> /\ plan' = Tail(plan)
        /\ maxProcs' = maxProcs /\ found' = found /\ fresh' = fresh /\ passed' = passed
    BY <1>2 DEF Goes, TypedInv, PlanInv, Sending
  <2>3. /\ Turns(Tail(plan), "procs") /\ Matched(Tail(plan))
        /\ Head(plan).op \in {"a", "r"} /\ Head(plan).res = "procs"
    BY <2>1, <2>2, TailShape
  <2> DEFINE q == Head(plan).qty
             y == OwedBy(Tail(plan))
  <2>4. /\ q \in Nat /\ Signed(Head(plan), q, "procs") = IF Head(plan).op = "a" THEN q ELSE -q
    <3>1. CASE Head(plan).op = "a"
      BY <2>2, <2>3, <3>1, HeadFacts DEF Resources
    <3>2. CASE Head(plan).op = "r"
      BY <2>2, <2>3, <3>2, HeadFacts DEF Resources
    <3> QED BY <2>3, <3>1, <3>2
  <2>5. lpar'.procs = lpar.procs + IF Head(plan).op = "a" THEN q ELSE -q
    BY <1>2, <2>4 DEF Goes, Resources
  <2>6. Owed = IF Head(plan).op = "r" THEN q ELSE 0
    BY <2>2 DEF Owed, OwedBy
  <2>7. y \in Nat /\ (Head(plan).op = "r" => y = 0) /\ (Head(plan).op = "a" => y = q)
    BY <2>1, <2>2, OwedNext
  <2>8. \A i \in 1 .. Len(Tail(plan)) : i + 1 \in 1 .. Len(plan) /\ Tail(plan)[i] = plan[i + 1]
    BY <2>2
  <2> HIDE DEF q, y
  <2>9. lpar.procs = found.procs + Owed => lpar'.procs = found.procs + y
    BY <1>a, <2>3, <2>4, <2>5, <2>6, <2>7
  <2> QED BY <2>1, <2>2, <2>3, <2>8, <2>9 DEF y
<1>3. CASE UNCHANGED vars
  <2>1. /\ plan' = plan /\ lpar' = lpar /\ verdict = "RUNNING" /\ test = "test_mix_cpu"
        /\ mode = "dedicated" /\ maxProcs' = maxProcs /\ found' = found /\ fresh' = fresh
        /\ passed' = passed
    BY <1>3 DEF vars, machine, constantVars, jobVars
  <2> QED BY <2>1 DEF CpuMixInv, Owed
<1> QED BY <1>0, <1>1, <1>2, <1>3

(* A test with nothing left to send has reached its goal. *)
LEMMA NothingLeft ==
  ASSUME TypedInv, GoalInv, verdict = "RUNNING", plan = << >>, test \notin Lenient
  PROVE  goal = lpar
<1>1. goal = AllDone(<< >>)
  BY DEF GoalInv
<1>2. lpar \in [Resources -> Int]
  BY DEF TypedInv, MachineInv
<1>3. AllDone(<< >>) = [r \in Resources |-> lpar[r] + 0 - 0]
  BY AmountEmpty DEF AllDone
<1>4. [r \in Resources |-> lpar[r] + 0 - 0] = lpar
  BY <1>2
<1> QED BY <1>1, <1>3, <1>4

(* Addition, config.txt and removal stay linked in every step. *)
LEMMA UndoneStep ==
  ASSUME TypedInv, GoalInv, UndoneInv, [Next]_vars
  PROVE  UndoneInv'
<1>0. \/ StartTest \/ CannotStart \/ Sends \/ HostCommandFails \/ Pass \/ Interrupt
      \/ NextJob \/ UNCHANGED vars
  BY StepKinds DEF TypedInv
<1> DEFINE Starts == \E i \in 1 .. Len(left) : left[i] = "test_cpu_add"
<1>a. \A r \in Resources : found[r] \in Int /\ lpar[r] \in Int
  BY DEF TypedInv, MachineInv
<1>b. ASSUME found' = found, file' = file, mode' = mode
      PROVE  (IsFiled(goal)' <=> IsFiled(goal')) /\ (IsFiled(lpar)' <=> IsFiled(lpar'))
  BY <1>b DEF IsFiled, FiledIn
<1>1. CASE StartTest
  <2> DEFINE t == Head(left)
  <2>0. /\ left # << >> /\ t \in Tests /\ test' = t /\ verdict' = "RUNNING"
        /\ plan' \in Plans(t) /\ plan' \in Seq(Command) /\ goal' = AllDone(plan')
        /\ data_payload_extract(t)
        /\ lpar' = lpar /\ found' = found /\ mode' = mode /\ maxProcs' = maxProcs
        /\ fresh' = fresh /\ passed' = passed /\ file' = file \o data_payload_backup(t)
        /\ left' = Tail(left)
    BY <1>1, StartFacts DEF StartTest
  <2>1. /\ t \notin passed /\ ("test_cpu_add" \in passed => t # "test_cpu_add")
        /\ "test_cpu_add" \in passed /\ t = "test_cpu_rm" => test = "test_cpu_add"
        /\ ~\E i \in 1 .. Len(left') : left'[i] = "test_cpu_add"
    BY <2>0, LastRun DEF TypedInv
  <2>2. \A r \in Resources :
          /\ goal'[r] = lpar[r] + Amount(plan', {"a"}, r) - Amount(plan', {"r", "m"}, r)
    BY <2>0, AllDoneTyped DEF TypedInv, MachineInv
  <2>3. t # "test_cpu_add" => file' = file
    BY <2>0, BackupFile DEF TypedInv
  <2>4. ASSUME t = "test_cpu_add", fresh PROVE IsFiled(goal)'
    <3>1. left[1] = "test_cpu_add" /\ 1 \in 1 .. Len(left)
      BY <2>0, <2>4, LeftFacts DEF TypedInv, OrderInv
    <3>2. lpar = found /\ file = << >>
      BY <2>4, <3>1 DEF UndoneInv
    <3>3. plan' \in test_cpu_add
      BY <2>0, <2>4, PlansAre
    <3>4. file' = data_payload_backup("test_cpu_add")
      BY <2>0, <2>4, <3>2, <3>3, BackupFile DEF TypedInv
    <3>5. /\ file' # << >>
          /\ \A r \in Resources : /\ Amount(plan', {"a"}, r) = FiledIn(file', r)
                                  /\ Amount(plan', {"r", "m"}, r) = 0
      BY <3>3, <3>4, CpuAddPlan DEF TypedInv
    <3>6. \A r \in Resources : Amount(plan', {"a"}, r) \in Nat
      BY <2>0, WeightsList
    <3>7. \A r \in Resources : goal'[r] = found'[r] + FiledIn(file', r)
      BY <1>a, <2>0, <2>2, <3>2, <3>5, <3>6
    <3>8. \A r : FiledIn(file, r)' = FiledIn(file', r)
      BY <2>0 DEF FiledIn
    <3> QED BY <3>5, <3>7, <3>8 DEF IsFiled
  <2>5. ASSUME t = "test_cpu_rm", fresh, "test_cpu_add" \in passed PROVE goal' = found
    <3>1. IsFiled(lpar)
      BY <2>1, <2>5 DEF UndoneInv
    <3>2. plan' \in test_cpu_rm
      BY <2>0, <2>5, PlansAre
    <3>3. \A r \in Resources : /\ Amount(plan', {"a"}, r) = 0
                               /\ Amount(plan', {"r", "m"}, r) = FiledIn(file, r)
      BY <2>0, <2>5, <3>2, CpuRmPlan DEF TypedInv
    <3>4. \A r \in Resources : Amount(plan', {"r", "m"}, r) \in Nat
      BY <2>0, WeightsList
    <3>5. \A r \in Resources : goal'[r] = found[r]
      BY <1>a, <2>2, <3>1, <3>3, <3>4 DEF IsFiled
    <3>6. goal' \in [Resources -> Int] /\ found \in [Resources -> Int]
      BY <2>0, AllDoneTyped DEF TypedInv, MachineInv
    <3> QED BY <3>5, <3>6
  <2>6. "test_cpu_add" \in passed /\ fresh /\ file' # << >> => found'.procs + Total(file'[1]) <= maxProcs'
    BY <2>0, <2>1, <2>3 DEF UndoneInv
  <2> HIDE DEF t
  <2> QED BY <2>0, <2>1, <2>4, <2>5, <2>6 DEF UndoneInv
<1>2. CASE CannotStart
  <2>0. /\ left # << >> /\ test' = Head(left) /\ left' = Tail(left) /\ verdict' # "RUNNING"
        /\ found' = found /\ maxProcs' = maxProcs /\ fresh' = fresh /\ passed' = passed
        /\ file' = file
    BY <1>2 DEF CannotStart, jobVars, constantVars
  <2>1. /\ Head(left) \notin passed /\ ("test_cpu_add" \in passed => Head(left) # "test_cpu_add")
        /\ ~\E i \in 1 .. Len(left') : left'[i] = "test_cpu_add"
    BY <2>0, LastRun DEF TypedInv
  <2> QED BY <2>0, <2>1 DEF UndoneInv
<1>3. CASE Sends
  <2>0. /\ verdict = "RUNNING" /\ left' = left /\ test' = test /\ passed' = passed
        /\ found' = found /\ maxProcs' = maxProcs /\ fresh' = fresh /\ file' = file
        /\ mode' = mode /\ goal' = goal
    BY <1>3 DEF Sends, Sending, Sent, jobVars, constantVars
  <2>1. ~Starts /\ test \notin passed
    BY <2>0, AddIsFirst DEF TypedInv, OrderInv
  <2>2. IsFiled(goal)' <=> IsFiled(goal)
    BY <2>0, <1>b
  <2> QED BY <2>0, <2>1, <2>2 DEF UndoneInv
<1>4. CASE HostCommandFails \/ Interrupt \/ UNCHANGED vars
  <2>0. /\ left' = left \/ left' = << >>
        /\ verdict' = "RUNNING" => verdict = "RUNNING"
        /\ test' = test /\ passed' = passed /\ lpar' = lpar
        /\ found' = found /\ maxProcs' = maxProcs /\ fresh' = fresh /\ file' = file
        /\ mode' = mode /\ goal' = goal
    BY <1>4 DEF HostCommandFails, Interrupt, Sent, vars, machine, jobVars, constantVars
  <2>1. (IsFiled(goal)' <=> IsFiled(goal)) /\ (IsFiled(lpar)' <=> IsFiled(lpar))
    BY <2>0, <1>b
  <2>2. (\E i \in 1 .. Len(left') : left'[i] = "test_cpu_add") => Starts
    BY <2>0
  <2> QED BY <2>0, <2>1, <2>2 DEF UndoneInv
<1>5. CASE Pass
  <2>0. /\ verdict = "RUNNING" /\ verdict' = "PASS" /\ plan = << >> /\ left' = left /\ test' = test
        /\ passed' = passed \cup {test} /\ lpar' = lpar /\ found' = found
        /\ maxProcs' = maxProcs /\ fresh' = fresh /\ mode' = mode /\ goal' = goal
        /\ file' = IF test = "test_mix_cpu" THEN << >> ELSE file
    BY <1>5 DEF Pass, machine, jobVars, constantVars
  <2>1. ~Starts /\ test \notin passed
    BY <2>0, AddIsFirst DEF TypedInv, OrderInv
  <2>2. ASSUME test = "test_cpu_add", fresh
        PROVE  IsFiled(lpar) /\ found.procs + Total(file[1]) <= maxProcs
    <3>1. goal = lpar
      BY <2>0, <2>2, NothingLeft DEF Lenient
    <3>2. IsFiled(lpar)
      BY <2>0, <2>2, <3>1 DEF UndoneInv
    <3>3. lpar.procs = found.procs + Total(file[1])
      BY <3>2 DEF IsFiled, FiledIn, Resources
    <3>4. lpar.procs <= maxProcs
      BY DEF TypedInv, MachineInv, Within
    <3> QED BY <3>2, <3>3, <3>4
  <2>3. test = "test_cpu_rm" /\ fresh /\ "test_cpu_add" \in passed => lpar = found
    <3>1. test = "test_cpu_rm" => goal = lpar
      BY <2>0, NothingLeft DEF Lenient
    <3> QED BY <2>0, <3>1 DEF UndoneInv
  <2>4. test = "test_cpu_add" => (IsFiled(lpar)' <=> IsFiled(lpar))
    BY <2>0, <1>b
  <2>5. fresh /\ "test_cpu_add" \in passed' /\ file' # << >>
          => file' = file /\ found.procs + Total(file[1]) <= maxProcs
    BY <2>0, <2>2 DEF UndoneInv
  <2>6. test = "test_cpu_rm" /\ "test_cpu_add" \in passed' => "test_cpu_add" \in passed
    BY <2>0
  <2> QED BY <2>0, <2>1, <2>2, <2>3, <2>4, <2>5, <2>6 DEF UndoneInv
<1>6. CASE NextJob
  <2>0. /\ verdict' = "CANCEL" /\ passed' = {} /\ found' = lpar /\ lpar' = lpar
        /\ fresh' = (file = << >>) /\ file' = file
    BY <1>6 DEF NextJob, machine
  <2> QED BY <2>0 DEF UndoneInv
<1> QED BY <1>0, <1>1, <1>2, <1>3, <1>4, <1>5, <1>6

-----------------------------------------------------------------------------
(* The invariant holds, and what it implies. *)

(* The invariant holds at the start of the first job. *)
LEMMA DlparInit ==
  ASSUME Init
  PROVE  DlparInv
<1>0. /\ mode \in {"dedicated", "shared"} /\ maxProcs \in MaxProcsSet /\ selection \in Selections
      /\ job = 1 /\ left = selection /\ test = Head(selection) /\ verdict = "CANCEL"
      /\ passed = {} /\ plan = << >> /\ file = << >> /\ host = {} /\ fresh = TRUE
      /\ lpar = [procs |-> InitProcs, units |-> InitUnits, mem |-> InitMem]
      /\ other = lpar /\ before = lpar /\ goal = lpar /\ found = lpar
  BY DEF Init
<1>1. ModeInv
  BY <1>0, Profile DEF ModeInv
<1>2. MachineInv
  <2>1. lpar \in [Resources -> Int]
    BY <1>0, Profile DEF Resources
  <2>2. lpar.procs = InitProcs /\ lpar.units = InitUnits /\ lpar.mem = InitMem
    BY <1>0
  <2>3. Within(lpar)
    BY <1>1, <2>2, Profile DEF Within, ModeInv
  <2> QED BY <1>0, <2>1, <2>3 DEF MachineInv
<1>3. FileInv
  BY <1>0 DEF FileInv
<1>4. PlanInv
  BY <1>0 DEF PlanInv
<1>5. OrderInv
  <2>1. selection \in Seq(Tests) /\ selection # << >> /\ InOrder(selection)
    BY <1>0, Profile
  <2>2. Head(selection) \in Tests
    BY <2>1
  <2> QED BY <1>0, <2>1, <2>2 DEF OrderInv, Verdicts
<1>6. DriftInv /\ GoalInv
  <2>1. \A r \in Resources : /\ lpar[r] \in Int /\ Drift[r] \in Nat
                             /\ Amount(plan, {"a"}, r) = 0 /\ Amount(plan, {"r", "m"}, r) = 0
    BY <1>0, <1>2, AmountEmpty, DriftNat DEF MachineInv
  <2>2. DriftInv
    BY <1>0, <2>1 DEF DriftInv
  <2> QED BY <1>0, <2>2 DEF GoalInv
<1>7. UndoneInv
  BY <1>0 DEF UndoneInv
<1>8. MemAddInv /\ CpuAddInv /\ CpuRmInv /\ CpuMixInv
  BY <1>0 DEF MemAddInv, CpuAddInv, CpuRmInv, CpuMixInv
<1>9. MemRemInv /\ MemMixInv
  <2>1. lpar.mem \in Nat
    BY <1>1, <1>2, WithinFacts DEF MachineInv
  <2> QED BY <1>0, <2>1 DEF MemRemInv, MemMixInv
<1> QED BY <1>1, <1>2, <1>3, <1>4, <1>5, <1>6, <1>7, <1>8, <1>9 DEF DlparInv, TypedInv

(* Every step preserves the invariant. *)
LEMMA DlparStep ==
  ASSUME DlparInv, [Next]_vars
  PROVE  DlparInv'
<1>1. /\ TypedInv /\ DriftInv /\ GoalInv /\ UndoneInv /\ MemAddInv /\ MemRemInv
      /\ MemMixInv /\ CpuAddInv /\ CpuRmInv /\ CpuMixInv
  BY DEF DlparInv
<1>2. TypedInv' /\ DriftInv' /\ GoalInv' /\ UndoneInv'
  BY <1>1, TypedStep, DriftStep, GoalStep, UndoneStep
<1>3. MemAddInv' /\ MemRemInv' /\ MemMixInv'
  BY <1>1, MemAddStep, MemRemStep, MemMixStep
<1>4. CpuAddInv' /\ CpuRmInv' /\ CpuMixInv'
  BY <1>1, CpuAddStep, CpuRmStep, CpuMixStep
<1> QED BY <1>2, <1>3, <1>4 DEF DlparInv

(* The inductive invariant holds in every reachable state. *)
LEMMA DlparInvAlways == Spec => []DlparInv
<1>1. Init => DlparInv
  BY DlparInit
<1>2. DlparInv /\ [Next]_vars => DlparInv'
  BY DlparStep
<1> QED BY <1>1, <1>2, PTL DEF Spec

(* A command that adds or removes is allowed if what it leaves is within   *)
(* the profile.                                                            *)
LEMMA MemAllowed ==
  ASSUME TypedInv, Sending, NEW o \in {"a", "r"}, Head(plan).op = o, Head(plan).res = "mem",
         NEW x \in Int, x = lpar.mem + (IF o = "a" THEN Head(plan).qty ELSE -Head(plan).qty),
         MinMem <= x, x <= MaxMem
  PROVE  Allowed(Head(plan))
<1> DEFINE c == Head(plan)
           m == Done(machine, c, c.qty)
<1>1. c \in Command /\ c.qty \in Nat
  BY SendingFacts DEF TypedInv
<1>2. m[1] \in [Resources -> Int] /\ \A r \in Resources : m[1][r] = lpar[r] + Signed(c, c.qty, r)
  BY <1>1, DoneFacts DEF TypedInv, MachineInv
<1>3. m[2] = other
  BY DEF Done, machine
<1>4. lpar.procs \in Int /\ lpar.units \in Int /\ lpar.mem \in Int
  BY DEF TypedInv, MachineInv, Resources
<1>5. m[1].procs = lpar.procs /\ m[1].units = lpar.units /\ m[1].mem = x
  BY <1>1, <1>2, <1>4 DEF Resources, Signed
<1>6. Within(lpar) /\ Within(other)
  BY DEF TypedInv, MachineInv
<1> HIDE DEF m
<1>7. Within(m[1]) /\ Within(m[2])
  BY <1>3, <1>5, <1>6 DEF Within
<1> QED BY <1>7 DEF Allowed, m

(* A command on dedicated processors that stays within the limits is       *)
(* allowed: units and memory are as they were.                             *)
LEMMA ProcsAllowed ==
  ASSUME TypedInv, Sending, mode = "dedicated", NEW o \in {"a", "r"}, Head(plan).op = o,
         Head(plan).res = "procs",
         NEW x \in Int, x = lpar.procs + (IF o = "a" THEN Head(plan).qty ELSE -Head(plan).qty),
         MinProcs <= x, x <= maxProcs
  PROVE  Allowed(Head(plan))
<1> DEFINE c == Head(plan)
           m == Done(machine, c, c.qty)
<1>1. c \in Command /\ c.qty \in Nat
  BY SendingFacts DEF TypedInv
<1>2. m[1] \in [Resources -> Int] /\ \A r \in Resources : m[1][r] = lpar[r] + Signed(c, c.qty, r)
  BY <1>1, DoneFacts DEF TypedInv, MachineInv
<1>3. m[2] = other
  BY DEF Done, machine
<1>4. lpar.procs \in Int /\ lpar.units \in Int /\ lpar.mem \in Int
  BY DEF TypedInv, MachineInv, Resources
<1>5. m[1].procs = x /\ m[1].mem = lpar.mem
  BY <1>1, <1>2, <1>4 DEF Resources, Signed
<1>6. Within(lpar) /\ Within(other)
  BY DEF TypedInv, MachineInv
<1> HIDE DEF m
<1>7. Within(m[1]) /\ Within(m[2])
  BY <1>3, <1>5, <1>6 DEF Within
<1> QED BY <1>7 DEF Allowed, m

(* The plans stay within the limits at every command, not only at the      *)
(* end.                                                                    *)
LEMMA DlparInvAllows == DlparInv => RequestsAllowed
<1> SUFFICES ASSUME DlparInv, Sending,
                    \/ test \in {"test_mem_add", "test_mem_mix"}
                    \/ mode = "dedicated" /\ test = "test_cpu_add"
                    \/ /\ mode = "dedicated" /\ fresh
                       /\ \/ test = "test_cpu_rm" /\ "test_cpu_add" \in passed
                          \/ /\ test = "test_mix_cpu"
                             /\ {"test_cpu_add", "test_cpu_rm"} \subseteq passed
             PROVE  Allowed(Head(plan))
  BY DEF RequestsAllowed
<1> DEFINE c == Head(plan)
           q == Head(plan).qty
<1>0. TypedInv /\ PlanInv /\ verdict = "RUNNING" /\ plan # << >> /\ plan \in Seq(Command)
  BY DEF DlparInv, TypedInv, PlanInv, Sending
<1>1. q \in Nat
  BY <1>0, SendingFacts
<1>2. /\ lpar.mem \in Nat /\ MinMem <= lpar.mem /\ MinMem <= before.mem /\ before.mem \in Nat
      /\ lpar.mem <= MaxMem
      /\ lpar.procs \in Nat /\ MinProcs <= lpar.procs /\ lpar.procs <= maxProcs
      /\ found.procs \in Nat /\ MinProcs <= found.procs /\ maxProcs \in Nat
      /\ MinMem \in Nat /\ MaxMem \in Nat /\ MinProcs \in Nat
  BY <1>0, WithinFacts, Profile DEF TypedInv, MachineInv, ModeInv
<1>3. CASE test = "test_mem_add"
  <2>1. OneKind(plan, "a", "mem") /\ lpar.mem + Amount(plan, {"a"}, "mem") <= MaxMem
    BY <1>0, <1>3 DEF DlparInv, MemAddInv
  <2>2. Head(plan).op = "a" /\ Head(plan).res = "mem"
    BY <1>0, <2>1, TailShape
  <2>3. Amount(Tail(plan), {"a"}, "mem") \in Nat /\ Amount(plan, {"a"}, "mem") = q + Amount(Tail(plan), {"a"}, "mem")
    BY <1>0, <2>2, HeadFacts DEF Resources
  <2>4. lpar.mem + q \in Int /\ MinMem <= lpar.mem + q /\ lpar.mem + q <= MaxMem
    BY <1>1, <1>2, <2>1, <2>3
  <2> QED BY <1>0, <2>2, <2>4, MemAllowed
<1>4. CASE test = "test_mem_mix"
  <2>1. /\ Turns(plan, "mem") /\ lpar.mem >= before.mem + Owed
        /\ lpar.mem + Amount(plan, {"a"}, "mem") <= MaxMem
    BY <1>0, <1>4 DEF DlparInv, MemMixInv
  <2>2. Head(plan).op \in {"a", "r"} /\ Head(plan).res = "mem"
    BY <1>0, <2>1, TailShape
  <2>3. CASE Head(plan).op = "a"
    <3>1. Amount(Tail(plan), {"a"}, "mem") \in Nat /\ Amount(plan, {"a"}, "mem") = q + Amount(Tail(plan), {"a"}, "mem")
      BY <1>0, <2>2, <2>3, HeadFacts DEF Resources
    <3>2. lpar.mem + q \in Int /\ MinMem <= lpar.mem + q /\ lpar.mem + q <= MaxMem
      BY <1>1, <1>2, <2>1, <3>1
    <3> QED BY <1>0, <2>2, <2>3, <3>2, MemAllowed
  <2>4. CASE Head(plan).op = "r"
    <3>1. Owed = q
      BY <1>0, <2>4 DEF Owed, OwedBy
    <3>2. lpar.mem + (-q) \in Int /\ MinMem <= lpar.mem + (-q) /\ lpar.mem + (-q) <= MaxMem
      BY <1>1, <1>2, <2>1, <3>1
    <3> QED BY <1>0, <2>2, <2>4, <3>2, MemAllowed
  <2> QED BY <2>2, <2>3, <2>4
<1>5. CASE mode = "dedicated" /\ test = "test_cpu_add"
  <2>1. OneKind(plan, "a", "procs") /\ lpar.procs + Amount(plan, {"a"}, "procs") <= maxProcs
    BY <1>0, <1>5 DEF DlparInv, CpuAddInv
  <2>2. Head(plan).op = "a" /\ Head(plan).res = "procs"
    BY <1>0, <2>1, TailShape
  <2>3. Amount(Tail(plan), {"a"}, "procs") \in Nat /\ Amount(plan, {"a"}, "procs") = q + Amount(Tail(plan), {"a"}, "procs")
    BY <1>0, <2>2, HeadFacts DEF Resources
  <2>4. lpar.procs + q \in Int /\ MinProcs <= lpar.procs + q /\ lpar.procs + q <= maxProcs
    BY <1>1, <1>2, <2>1, <2>3
  <2> QED BY <1>0, <1>5, <2>2, <2>4, ProcsAllowed
<1>6. CASE mode = "dedicated" /\ fresh /\ test = "test_cpu_rm" /\ "test_cpu_add" \in passed
  <2>1. OneKind(plan, "r", "procs") /\ Amount(plan, {"a"}, "procs") = 0
    BY <1>0, <1>6 DEF DlparInv, CpuRmInv
  <2>2. Head(plan).op = "r" /\ Head(plan).res = "procs"
    BY <1>0, <2>1, TailShape
  <2>3. goal = found /\ goal = AllDone(plan)
    BY <1>0, <1>6 DEF DlparInv, UndoneInv, GoalInv, Lenient
  <2>4. found.procs = lpar.procs + 0 - Amount(plan, {"r", "m"}, "procs")
    BY <1>0, <2>1, <2>3, AllDoneTyped DEF TypedInv, MachineInv, Resources
  <2>5. /\ Amount(Tail(plan), {"r", "m"}, "procs") \in Nat
        /\ Amount(plan, {"r", "m"}, "procs") = q + Amount(Tail(plan), {"r", "m"}, "procs")
    BY <1>0, <2>2, HeadFacts DEF Resources
  <2>6. lpar.procs + (-q) \in Int /\ MinProcs <= lpar.procs + (-q) /\ lpar.procs + (-q) <= maxProcs
    BY <1>1, <1>2, <2>4, <2>5
  <2> QED BY <1>0, <1>6, <2>2, <2>6, ProcsAllowed
<1>7. CASE /\ mode = "dedicated" /\ fresh /\ test = "test_mix_cpu"
           /\ {"test_cpu_add", "test_cpu_rm"} \subseteq passed
  <2>1. /\ Turns(plan, "procs") /\ lpar.procs = found.procs + Owed
        /\ \A i \in 1 .. Len(plan) : found.procs + plan[i].qty <= maxProcs
    BY <1>0, <1>7 DEF DlparInv, CpuMixInv
  <2>2. Head(plan).op \in {"a", "r"} /\ Head(plan).res = "procs"
    BY <1>0, <2>1, TailShape
  <2>3. CASE Head(plan).op = "a"
    <3>1. Owed = 0
      BY <2>3 DEF Owed, OwedBy
    <3>2. found.procs + q <= maxProcs
      <4>1. 1 \in 1 .. Len(plan) /\ Head(plan) = plan[1]
        BY <1>0
      <4> QED BY <2>1, <4>1
    <3>3. lpar.procs + q \in Int /\ MinProcs <= lpar.procs + q /\ lpar.procs + q <= maxProcs
      BY <1>1, <1>2, <2>1, <3>1, <3>2
    <3> QED BY <1>0, <1>7, <2>2, <2>3, <3>3, ProcsAllowed
  <2>4. CASE Head(plan).op = "r"
    <3>1. Owed = q
      BY <1>0, <2>4 DEF Owed, OwedBy
    <3>2. lpar.procs + (-q) \in Int /\ MinProcs <= lpar.procs + (-q) /\ lpar.procs + (-q) <= maxProcs
      BY <1>1, <1>2, <2>1, <3>1
    <3> QED BY <1>0, <1>7, <2>2, <2>4, <3>2, ProcsAllowed
  <2> QED BY <2>2, <2>3, <2>4
<1> QED BY <1>3, <1>4, <1>5, <1>6, <1>7

(* Every reachable state of the specification is well typed: the plan is a *)
(* list of commands, both partitions are within the profile whatever the   *)
(* HMC did with the commands (Dlpar_engine, api.py), and the tests run in  *)
(* the order of the class.                                                 *)
THEOREM DlparTyped == Spec => []TypedInv
<1>1. DlparInv => TypedInv
  BY DEF DlparInv
<1> QED BY <1>1, DlparInvAlways, PTL

(* A test that passes has moved everything it set out to move: the         *)
(* validation of every command stands between a part of it and a PASS.     *)
THEOREM PassAlwaysMeansDone == Spec => []PassMeansDone
<1>1. DlparInv => PassMeansDone
  <2> SUFFICES ASSUME DlparInv, verdict = "PASS", test \notin Lenient PROVE lpar = goal
    BY DEF PassMeansDone
  <2>1. goal = AllDone(<< >>) /\ lpar \in [Resources -> Int]
    BY DEF DlparInv, GoalInv, TypedInv, PlanInv, MachineInv
  <2>2. AllDone(<< >>) = [r \in Resources |-> lpar[r] + 0 - 0]
    BY AmountEmpty DEF AllDone
  <2>3. [r \in Resources |-> lpar[r] + 0 - 0] = lpar
    BY <2>1
  <2> QED BY <2>1, <2>2, <2>3
<1> QED BY <1>1, DlparInvAlways, PTL

(* test_cpu_rm takes back what test_cpu_add of the same job added, through *)
(* config.txt, if the job found no config.txt of an earlier one.           *)
THEOREM RemoveAlwaysUndoesAdd == Spec => []RemoveUndoesAdd
<1>1. DlparInv => RemoveUndoesAdd
  BY DEF DlparInv, UndoneInv, TypedInv, OrderInv, RemoveUndoesAdd
<1> QED BY <1>1, DlparInvAlways, PTL

(* The computed quantities (cpu_payload_data, mem_payload_data,            *)
(* mix_payload_data) respect the profile: no command of those tests is one *)
(* the HMC must refuse.                                                    *)
THEOREM RequestsAlwaysAllowed == Spec => []RequestsAllowed
  BY DlparInvAllows, DlparInvAlways, PTL

(* test_mem_rem never takes more than eight tenths of the memory, and the  *)
(* pairs of test_mem_mix never take the partition below what it had.       *)
THEOREM MemoryAlwaysKept == Spec => []MemoryKept
<1>1. DlparInv => MemoryKept
  BY DEF DlparInv, MemRemInv, MemMixInv, MemoryKept
<1> QED BY <1>1, DlparInvAlways, PTL

(* The last three tests log a refused command and send the next: however  *)
(* those end, the partition is off by one processor and its units at most  *)
(* (test_check_smt_state and the two after it, dlpar_main.py).             *)
THEOREM LenientAlwaysDriftsLittle == Spec => []LenientDrift
<1>1. DlparInv => LenientDrift
  <2> SUFFICES ASSUME DlparInv, test \in Lenient, NEW r \in Resources
               PROVE  /\ lpar[r] <= before[r] + Drift[r]
                      /\ before[r] <= lpar[r] + Drift[r]
    BY DEF LenientDrift
  <2>1. /\ lpar[r] + Amount(plan, {"a"}, r) <= before[r] + Drift[r]
        /\ before[r] + Amount(plan, {"r", "m"}, r) <= lpar[r] + Drift[r]
    BY DEF DlparInv, DriftInv
  <2>2. /\ lpar[r] \in Int /\ before[r] \in Int /\ Drift[r] \in Nat
        /\ Amount(plan, {"a"}, r) \in Nat /\ Amount(plan, {"r", "m"}, r) \in Nat
    BY DriftNat, WeightsList DEF DlparInv, TypedInv, MachineInv, PlanInv
  <2> QED BY <2>1, <2>2
<1> QED BY <1>1, DlparInvAlways, PTL
=============================================================================
