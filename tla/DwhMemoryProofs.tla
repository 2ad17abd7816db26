--------------------------- MODULE DwhMemoryProofs --------------------------
(***************************************************************************)
(* For every number of workers and every limit: the counter memUsed is     *)
(* exact, and what CountingCalloc grants stays within --maxmem.            *)
(***************************************************************************)
EXTENDS DwhMemory, FiniteSetTheorems, TLAPS

-----------------------------------------------------------------------------
(* Totals: natural numbers, monotone, and following the update of one entry. *)

(* The units of one entry number f[t]. *)
LEMMA EntryUnits ==
  ASSUME NEW t, NEW n \in Nat
  PROVE  /\ IsFiniteSet({t} \X (1 .. n))
         /\ Cardinality({t} \X (1 .. n)) = n
<1>1. IsFiniteSet({t}) /\ Cardinality({t}) = 1
  BY FS_Singleton
<1>2. IsFiniteSet(1 .. n) /\ Cardinality(1 .. n) = n
  BY FS_Interval
<1>3. /\ IsFiniteSet({t} \X (1 .. n))
      /\ Cardinality({t} \X (1 .. n)) = Cardinality({t}) * Cardinality(1 .. n)
  BY <1>1, <1>2, FS_Product
<1> QED
  BY <1>1, <1>2, <1>3

(* The units of a function with a finite domain are finitely many. *)
LEMMA UnitsFinite ==
  ASSUME NEW S, IsFiniteSet(S), NEW f \in [S -> Nat]
  PROVE  IsFiniteSet(UnitsOf(f)) /\ Total(f) \in Nat
<1> DEFINE parts == {{t} \X (1 .. f[t]) : t \in S}
           part == [t \in S |-> {t} \X (1 .. f[t])]
<1>1. part \in Surjection(S, parts)
  BY DEF Surjection
<1>2. IsFiniteSet(parts)
  BY <1>1, FS_Surjection
<1>3. \A T \in parts : IsFiniteSet(T)
  <2>1. \A t \in S : f[t] \in Nat
    OBVIOUS
  <2>2. \A t \in S : IsFiniteSet({t} \X (1 .. f[t]))
    BY <2>1, EntryUnits
  <2> QED
    BY <2>2
<1>4. IsFiniteSet(UNION parts)
  BY <1>2, <1>3, FS_UNION
<1>5. UnitsOf(f) = UNION parts
  BY DEF UnitsOf
<1> QED
  BY <1>4, <1>5, FS_CardinalityType DEF Total

(* A function that is pointwise smaller has a smaller total. *)
LEMMA TotalMonotone ==
  ASSUME NEW S, IsFiniteSet(S), NEW f \in [S -> Nat], NEW g \in [S -> Nat],
         \A t \in S : f[t] <= g[t]
  PROVE  Total(f) <= Total(g)
<1>1. UnitsOf(f) \subseteq UnitsOf(g)
  <2> SUFFICES ASSUME NEW t \in S, NEW u \in {t} \X (1 .. f[t])
               PROVE  u \in {t} \X (1 .. g[t])
    BY DEF UnitsOf
  <2> QED
    OBVIOUS
<1>2. IsFiniteSet(UnitsOf(g))
  BY UnitsFinite
<1> QED
  BY <1>1, <1>2, FS_Subset DEF Total

(* Changing one entry changes the total by the difference. *)
LEMMA TotalUpdate ==
  ASSUME NEW S, IsFiniteSet(S), NEW f \in [S -> Nat], NEW g \in [S -> Nat],
         NEW t \in S, \A s \in S \ {t} : g[s] = f[s]
  PROVE  Total(g) + f[t] = Total(f) + g[t]
<1> DEFINE rest == UNION {{s} \X (1 .. f[s]) : s \in S \ {t}}
           old == {t} \X (1 .. f[t])
           new == {t} \X (1 .. g[t])
<1>1. UnitsOf(f) = rest \cup old
  BY DEF UnitsOf
<1>2. UnitsOf(g) = rest \cup new
  <2>1. rest = UNION {{s} \X (1 .. g[s]) : s \in S \ {t}}
    OBVIOUS
  <2> QED
    BY <2>1 DEF UnitsOf
<1>3. rest \cap old = {} /\ rest \cap new = {}
  OBVIOUS
<1>4. IsFiniteSet(rest)
  <2>1. IsFiniteSet(UnitsOf(f)) /\ rest \subseteq UnitsOf(f)
    BY <1>1, UnitsFinite
  <2> QED
    BY <2>1, FS_Subset
<1>5. /\ IsFiniteSet(old) /\ Cardinality(old) = f[t]
      /\ IsFiniteSet(new) /\ Cardinality(new) = g[t]
  BY EntryUnits
<1>6. Cardinality(rest) \in Nat
  BY <1>4, FS_CardinalityType
<1>7. Total(f) = Cardinality(rest) + f[t]
  <2>1. Cardinality(rest \cup old)
          = Cardinality(rest) + Cardinality(old) - Cardinality(rest \cap old)
    BY <1>4, <1>5, FS_Union
  <2> HIDE DEF rest, old
  <2> QED
    BY <1>1, <1>3, <1>5, <1>6, <2>1, FS_EmptySet DEF Total
<1>8. Total(g) = Cardinality(rest) + g[t]
  <2>1. Cardinality(rest \cup new)
          = Cardinality(rest) + Cardinality(new) - Cardinality(rest \cap new)
    BY <1>4, <1>5, FS_Union
  <2> HIDE DEF rest, new
  <2> QED
    BY <1>2, <1>3, <1>5, <1>6, <2>1, FS_EmptySet DEF Total
<1> HIDE DEF rest
<1> QED
  BY <1>6, <1>7, <1>8

(* The total of the function that is zero everywhere is zero. *)
LEMMA TotalZero ==
  ASSUME NEW S
  PROVE  Total([s \in S |-> 0]) = 0
<1>1. UnitsOf([s \in S |-> 0]) = {}
  BY DEF UnitsOf
<1> QED
  BY <1>1, FS_EmptySet DEF Total

-----------------------------------------------------------------------------
(* The budget. *)

(* A worker that is allocating has no block yet: CountingCalloc is only     *)
(* called when myMem is NULL, so the two kinds of charge never overlap.     *)
AllocatingHasNoBlock ==
  \A w \in Workers :
    stage[w] \in {"add", "check", "calloc", "undo"} => heap[w] = 0

(* MemoryTypeOK without the counter: that memUsed never falls below zero follows   *)
(* from ChargeExact.                                                        *)
ThreadTypes ==
  /\ sz \in [Workers -> Nat]
  /\ heap \in [Workers -> Nat]
  /\ stage \in [Workers -> Locations]

MemoryInv ==
  /\ MemoryTypeOK
  /\ AllocatingHasNoBlock
  /\ ChargeExact
  /\ GrantedWithinLimit

(* The charges are numbers, and nothing is granted that is not charged. *)
LEMMA ChargedType ==
  ASSUME ThreadTypes
  PROVE  /\ Charged \in [Workers -> Nat]
         /\ Granted \in [Workers -> Nat]
         /\ \A w \in Workers : Granted[w] <= Charged[w]
BY DEF ThreadTypes, Charged, Granted, Locations

(* The same in the next state. *)
LEMMA ChargedTypeNext ==
  ASSUME ThreadTypes'
  PROVE  /\ Charged' \in [Workers -> Nat]
         /\ Granted' \in [Workers -> Nat]
         /\ \A w \in Workers : Granted'[w] <= Charged'[w]
BY DEF ThreadTypes, Charged, Granted, Locations

(* The size rule never chooses a negative size. *)
LEMMA SizeType ==
  ASSUME MemoryTypeOK
  PROVE  FallbackSize(Avail) \in Nat
<1>1. Avail \in Nat
  BY MemoryAssumption DEF Avail, MemoryTypeOK
<1>2. Avail \div 2 \in Nat
  BY <1>1
<1> QED
  BY <1>1, <1>2, MemoryAssumption DEF FallbackSize

LEMMA InitMemoryInv == MemoryInit => MemoryInv
<1> SUFFICES ASSUME MemoryInit PROVE MemoryInv
  OBVIOUS
<1>1. MemoryTypeOK /\ AllocatingHasNoBlock
  BY MemoryAssumption DEF MemoryInit, MemoryTypeOK, Locations, AllocatingHasNoBlock
<1>2. Charged = [w \in Workers |-> 0] /\ Granted = [w \in Workers |-> 0]
  BY DEF MemoryInit, Charged, Granted
<1> QED
  BY <1>1, <1>2, TotalZero, MemoryAssumption
     DEF MemoryInit, MemoryInv, ChargeExact, GrantedWithinLimit

(* A step of worker w that changes memUsed by as much as it changes the    *)
(* charge of w keeps the counter exact and non-negative.                    *)
LEMMA ChargeStep ==
  ASSUME MemoryInv, ThreadTypes', NEW w \in Workers,
         \A v \in Workers \ {w} : Charged'[v] = Charged[v],
         memUsed' = memUsed + Charged'[w] - Charged[w]
  PROVE  ChargeExact' /\ memUsed' \in Nat
<1>1. Charged \in [Workers -> Nat] /\ Charged' \in [Workers -> Nat]
  <2>1. ThreadTypes
    BY DEF MemoryInv, MemoryTypeOK, ThreadTypes
  <2> QED
    BY <2>1, ChargedType, ChargedTypeNext
<1>2. Total(Charged') + Charged[w] = Total(Charged) + Charged'[w]
  BY <1>1, TotalUpdate, MemoryAssumption
<1>3. Total(Charged) \in Nat /\ Total(Charged') \in Nat
  BY <1>1, UnitsFinite, MemoryAssumption
<1>4. Charged[w] \in Nat /\ Charged'[w] \in Nat
  BY <1>1
<1>5. memUsed = TableBytes + Total(Charged)
  BY DEF MemoryInv, ChargeExact
<1>6. memUsed' = TableBytes + Total(Charged')
  BY <1>2, <1>3, <1>4, <1>5, MemoryAssumption
<1> QED
  BY <1>3, <1>6, MemoryAssumption DEF ChargeExact

(* A step of worker w that grants nothing new keeps the limit. *)
LEMMA GrantStep ==
  ASSUME MemoryInv, ThreadTypes', NEW w \in Workers,
         \A v \in Workers : Granted'[v] <= Granted[v]
  PROVE  GrantedWithinLimit'
<1>1. Granted \in [Workers -> Nat] /\ Granted' \in [Workers -> Nat]
  <2>1. ThreadTypes
    BY DEF MemoryInv, MemoryTypeOK, ThreadTypes
  <2> QED
    BY <2>1, ChargedType, ChargedTypeNext
<1>2. Total(Granted') <= Total(Granted)
  BY <1>1, TotalMonotone, MemoryAssumption
<1>3. Total(Granted) \in Nat /\ Total(Granted') \in Nat
  BY <1>1, UnitsFinite, MemoryAssumption
<1> QED
  BY <1>2, <1>3, MemoryAssumption DEF MemoryInv, GrantedWithinLimit

(* The comparison with the limit is where something is granted: memUsed     *)
(* counts every charge, so also everything granted so far.                  *)
LEMMA CheckLimitGrants ==
  ASSUME MemoryInv, ThreadTypes', ChargeExact', NEW w \in Workers, CheckLimit(w)
  PROVE  GrantedWithinLimit'
<1>1. CASE maxMem > 0 /\ memUsed <= maxMem
  <2>1. /\ Charged' \in [Workers -> Nat] /\ Granted' \in [Workers -> Nat]
        /\ \A v \in Workers : Granted'[v] <= Charged'[v]
    BY ChargedTypeNext
  <2>2. Total(Granted') <= Total(Charged')
    BY <2>1, TotalMonotone, MemoryAssumption
  <2>3. Total(Granted') \in Nat /\ Total(Charged') \in Nat
    BY <2>1, UnitsFinite, MemoryAssumption
  <2>4. memUsed' = memUsed /\ memUsed \in Nat
    BY DEF CheckLimit, MemoryInv, MemoryTypeOK
  <2> QED
    BY <1>1, <2>2, <2>3, <2>4, MemoryAssumption DEF ChargeExact, GrantedWithinLimit
<1>2. CASE maxMem > 0 /\ memUsed > maxMem
  <2>1. \A v \in Workers : Granted'[v] <= Granted[v]
    BY <1>2 DEF CheckLimit, Goto, Granted, MemoryInv, MemoryTypeOK, Locations
  <2> QED
    BY <2>1, GrantStep
<1>3. CASE ~(maxMem > 0)
  BY <1>3 DEF GrantedWithinLimit
<1> QED
  BY <1>1, <1>2, <1>3, MemoryAssumption DEF MemoryInv, MemoryTypeOK

(* One step of one worker keeps the invariant. *)
LEMMA StepMemoryInv ==
  ASSUME MemoryInv, NEW w \in Workers, Step(w)
  PROVE  MemoryInv'
<1> USE DEF Goto, Locations
<1>1. ThreadTypes' /\ AllocatingHasNoBlock'
  <2> USE DEF MemoryInv, MemoryTypeOK, ThreadTypes, AllocatingHasNoBlock
  <2>1. CASE ChooseSize(w)
    BY <2>1, SizeType DEF ChooseSize
  <2>2. CASE ChargeFirst(w) \/ CheckLimit(w) \/ UndoCharge(w) \/ LeaveLoop(w)
    BY <2>2 DEF ChargeFirst, CheckLimit, UndoCharge, LeaveLoop
  <2>3. CASE CallHeap(w)
    BY <2>3 DEF CallHeap
  <2>4. CASE ReleaseCharge(w, "free") \/ ReleaseCharge(w, "last")
    BY <2>4 DEF ReleaseCharge
  <2>5. CASE FreeHeap(w) \/ StartWorker(w)
    BY <2>5 DEF FreeHeap, StartWorker
  <2> QED
    BY <2>1, <2>2, <2>3, <2>4, <2>5 DEF Step
<1>2. /\ \A v \in Workers \ {w} : Charged'[v] = Charged[v]
      /\ memUsed' = memUsed + Charged'[w] - Charged[w]
  <2> USE <1>1 DEF MemoryInv, MemoryTypeOK, ThreadTypes, AllocatingHasNoBlock, Charged
  <2>1. CASE ChooseSize(w)
    BY <2>1 DEF ChooseSize
  <2>2. CASE ChargeFirst(w)
    BY <2>2 DEF ChargeFirst
  <2>3. CASE CheckLimit(w)
    BY <2>3 DEF CheckLimit
  <2>4. CASE CallHeap(w)
    BY <2>4 DEF CallHeap
  <2>5. CASE UndoCharge(w)
    BY <2>5 DEF UndoCharge
  <2>6. CASE ReleaseCharge(w, "free") \/ ReleaseCharge(w, "last")
    BY <2>6 DEF ReleaseCharge
  <2>7. CASE FreeHeap(w)
    BY <2>7 DEF FreeHeap
  <2>8. CASE LeaveLoop(w) \/ StartWorker(w)
    BY <2>8 DEF LeaveLoop, StartWorker
  <2> QED
    BY <2>1, <2>2, <2>3, <2>4, <2>5, <2>6, <2>7, <2>8 DEF Step
<1>3. ChargeExact' /\ memUsed' \in Nat
  BY <1>1, <1>2, ChargeStep
<1>4. GrantedWithinLimit'
  <2>1. CASE CheckLimit(w)
    BY <1>1, <1>3, <2>1, CheckLimitGrants
  <2>2. CASE ~CheckLimit(w)
    <3>1. \A v \in Workers : Granted'[v] <= Granted[v]
      <4> USE <1>1 DEF MemoryInv, MemoryTypeOK, ThreadTypes, AllocatingHasNoBlock, Granted
      <4>1. CASE ChooseSize(w) \/ ChargeFirst(w) \/ UndoCharge(w)
        BY <4>1 DEF ChooseSize, ChargeFirst, UndoCharge
      <4>2. CASE CallHeap(w)
        BY <4>2 DEF CallHeap
      <4>3. CASE ReleaseCharge(w, "free") \/ ReleaseCharge(w, "last")
        BY <4>3 DEF ReleaseCharge
      <4>4. CASE FreeHeap(w) \/ LeaveLoop(w) \/ StartWorker(w)
        BY <4>4 DEF FreeHeap, LeaveLoop, StartWorker
      <4> QED
        BY <2>2, <4>1, <4>2, <4>3, <4>4 DEF Step
    <3> QED
      BY <1>1, <3>1, GrantStep
  <2> QED
    BY <2>1, <2>2
<1> QED
  BY <1>1, <1>3, <1>4 DEF MemoryInv, MemoryTypeOK, ThreadTypes

LEMMA MemoryInvariant == MemorySpec => []MemoryInv
<1>1. MemoryInv /\ [MemoryNext]_memoryVars => MemoryInv'
  <2> SUFFICES ASSUME MemoryInv, [MemoryNext]_memoryVars PROVE MemoryInv'
    OBVIOUS
  <2>1. CASE MemoryNext
    BY <2>1, StepMemoryInv DEF MemoryNext
  <2>2. CASE UNCHANGED memoryVars
    BY <2>2 DEF memoryVars, MemoryInv, MemoryTypeOK, AllocatingHasNoBlock, ChargeExact,
                GrantedWithinLimit, Charged, Granted
  <2> QED
    BY <2>1, <2>2
<1> QED
  BY InitMemoryInv, <1>1, PTL DEF MemorySpec

(* The counter of CountingCalloc and CountingFree is exact in every state. *)
THEOREM CounterExact == MemorySpec => []ChargeExact
<1>1. MemoryInv => ChargeExact
  BY DEF MemoryInv
<1> QED
  BY MemoryInvariant, <1>1, PTL

(* CountingCalloc never grants more than --maxmem in total, whatever the    *)
(* number of workers and however their calls interleave.                    *)
THEOREM LimitRespected == MemorySpec => []GrantedWithinLimit
<1>1. MemoryInv => GrantedWithinLimit
  BY DEF MemoryInv
<1> QED
  BY MemoryInvariant, <1>1, PTL

(* Every variable keeps its type; memUsed, an unsigned counter that is only *)
(* added to and subtracted from, never passes below zero.                   *)
THEOREM MemoryTypes == MemorySpec => []MemoryTypeOK
<1>1. MemoryInv => MemoryTypeOK
  BY DEF MemoryInv
<1> QED
  BY MemoryInvariant, <1>1, PTL
=============================================================================
