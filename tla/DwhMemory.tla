----------------------------- MODULE DwhMemory ------------------------------
(***************************************************************************)
(* The memory budget of dwh: CountingCalloc and CountingFree charge every  *)
(* buffer of a worker thread to the shared atomic counter memUsed, without *)
(* a lock, and refuse an allocation that would take it above maxMem.       *)
(*                                                                         *)
(* A step of this module is one access to memUsed or to the C heap, which  *)
(* is the grain at which the threads of the program interleave.  memUsed   *)
(* is 64 bits wide and cannot reach 2^64: there are fewer than 2^32        *)
(* threads and each charges at most max(maxIOSize, 4096) < 2^31 bytes.     *)
(***************************************************************************)
EXTENDS Integers, Totals

CONSTANTS
  Workers,    \* the worker threads
  maxMem,     \* --maxmem, 0 when memory is not limited
  maxIOSize,  \* --maxiosize, the largest buffer a worker asks for by lot
  PageSize,   \* the 4096 of the size rule
  MinSize,    \* the 8 of the size rule
  TableBytes, \* what main charged for iotinfo and wktinfo before the start
  WordSize    \* the number of values of an unsigned long long

ASSUME MemoryAssumption ==
  /\ IsFiniteSet(Workers)
  /\ maxMem \in Nat /\ maxIOSize \in Nat
  /\ PageSize \in Nat \ {0} /\ MinSize \in Nat \ {0}
  /\ TableBytes \in Nat
  /\ maxMem > 0 => TableBytes <= maxMem
  /\ WordSize \in Nat \ {0}

VARIABLES
  memUsed,  \* the atomic counter
  sz,       \* sz[w]: the size worker w last chose
  heap,     \* heap[w]: bytes of the heap block behind w's myMem, 0 for none
  stage        \* where worker w stands, see Locations

memoryVars == <<memUsed, sz, heap, stage>>

(***************************************************************************)
(* "loop"   between two activities      "add"  about to charge memUsed     *)
(* "check"  about to compare with maxMem   "calloc" about to call calloc   *)
(* "undo"   about to take the charge back  "free"   about to call free     *)
(* "last"   about to call free on the way out      "dead"  not running     *)
(***************************************************************************)
Locations == {"loop", "add", "check", "calloc", "undo", "free", "last", "dead"}

MemoryInit ==
  /\ memUsed = TableBytes
  /\ sz = [w \in Workers |-> 0]
  /\ heap = [w \in Workers |-> 0]
  /\ stage = [w \in Workers |-> "loop"]

Goto(w, l) == stage' = [stage EXCEPT ![w] = l]

-----------------------------------------------------------------------------
(* maxMem - memUsed in unsigned arithmetic: it wraps around while another   *)
(* thread's charge is about to be undone.                                   *)
Avail ==
  IF maxMem = 0 THEN memUsed ELSE (maxMem - memUsed) % WordSize

(* The size chosen when the lot drawn is zero. *)
FallbackSize(avail) ==
  IF avail > PageSize THEN PageSize
  ELSE IF avail \div 2 = 0 THEN MinSize
  ELSE avail \div 2

(* Activity 0 of the work loop, up to the call of CountingCalloc. *)
ChooseSize(w) ==
  /\ stage[w] = "loop"
  /\ heap[w] = 0
  /\ \E lot \in 0 .. maxIOSize :
       sz' = [sz EXCEPT ![w] = IF lot = 0 THEN FallbackSize(Avail) ELSE lot]
  /\ Goto(w, "add")
  /\ UNCHANGED <<memUsed, heap>>

(* CountingCalloc: memUsed += sz. *)
ChargeFirst(w) ==
  /\ stage[w] = "add"
  /\ memUsed' = memUsed + sz[w]
  /\ Goto(w, "check")
  /\ UNCHANGED <<sz, heap>>

(* CountingCalloc: the comparison with the limit. *)
CheckLimitBeforeCharge(w) ==
  /\ stage[w] = "check"
  /\ IF maxMem > 0 /\ memUsed - sz[w] > maxMem
     THEN Goto(w, "undo")
     ELSE Goto(w, "calloc")
  /\ UNCHANGED <<memUsed, sz, heap>>

CheckLimit(w) ==
  /\ stage[w] = "check"
  /\ IF maxMem > 0 /\ memUsed > maxMem
     THEN Goto(w, "undo")
     ELSE Goto(w, "calloc")
  /\ UNCHANGED <<memUsed, sz, heap>>

(* CountingCalloc: calloc itself, which may fail. *)
CallHeap(w) ==
  /\ stage[w] = "calloc"
  /\ \/ /\ heap' = [heap EXCEPT ![w] = sz[w]]
        /\ Goto(w, "loop")
     \/ /\ Goto(w, "undo")
        /\ UNCHANGED heap
  /\ UNCHANGED <<memUsed, sz>>

(* CountingCalloc: memUsed -= sz on either failure, myMem stays NULL. *)
UndoChargeForgotten(w) ==
  /\ stage[w] = "undo"
  /\ Goto(w, "loop")
  /\ UNCHANGED <<memUsed, sz, heap>>

UndoCharge(w) ==
  /\ stage[w] = "undo"
  /\ memUsed' = memUsed - sz[w]
  /\ Goto(w, "loop")
  /\ UNCHANGED <<sz, heap>>

-----------------------------------------------------------------------------
(* CountingFree gives the recorded size back to memUsed before it calls    *)
(* free: as activity 1 of the loop (next = "free") and when the worker     *)
(* leaves the loop with a buffer that is not on an I/O queue ("last").     *)
ReleaseCharge(w, next) ==
  /\ stage[w] = "loop"
  /\ heap[w] # 0
  /\ memUsed' = memUsed - heap[w]
  /\ Goto(w, next)
  /\ UNCHANGED <<sz, heap>>

FreeHeapSubtractsAgain(w) ==
  /\ stage[w] \in {"free", "last"}
  /\ heap' = [heap EXCEPT ![w] = 0]
  /\ memUsed' = memUsed - heap[w]
  /\ Goto(w, IF stage[w] = "free" THEN "loop" ELSE "dead")
  /\ UNCHANGED sz

FreeHeap(w) ==
  /\ stage[w] \in {"free", "last"}
  /\ heap' = [heap EXCEPT ![w] = 0]
  /\ sz' = [sz EXCEPT ![w] = IF stage[w] = "free" THEN 0 ELSE @]
  /\ Goto(w, IF stage[w] = "free" THEN "loop" ELSE "dead")
  /\ UNCHANGED memUsed

(* A worker leaves its loop without a buffer, or with one that is still     *)
(* on an I/O queue: that buffer stays allocated and charged.                *)
LeaveLoop(w) ==
  /\ stage[w] = "loop"
  /\ Goto(w, "dead")
  /\ UNCHANGED <<memUsed, sz, heap>>

(* startOneWorkerThread puts a new worker, with no buffer, in w's place. *)
StartWorker(w) ==
  /\ stage[w] = "dead"
  /\ heap[w] = 0
  /\ sz' = [sz EXCEPT ![w] = 0]
  /\ Goto(w, "loop")
  /\ UNCHANGED <<memUsed, heap>>

Step(w) ==
  \/ ChooseSize(w) \/ ChargeFirst(w) \/ CheckLimit(w) \/ CallHeap(w)
  \/ UndoCharge(w)
  \/ ReleaseCharge(w, "free") \/ ReleaseCharge(w, "last") \/ FreeHeap(w)
  \/ LeaveLoop(w) \/ StartWorker(w)

MemoryNext == \E w \in Workers : Step(w)

MemorySpec == MemoryInit /\ [][MemoryNext]_memoryVars

-----------------------------------------------------------------------------
(* What worker w has added to memUsed and not taken back. *)
Charged ==
  [w \in Workers |->
     CASE stage[w] \in {"check", "calloc", "undo"} -> sz[w]
       [] stage[w] \in {"free", "last"} -> 0
       [] OTHER -> heap[w]]

(* What CountingCalloc has agreed to give worker w and not taken back. *)
Granted ==
  [w \in Workers |->
     CASE stage[w] = "calloc" -> sz[w]
       [] stage[w] \in {"check", "undo", "free", "last"} -> 0
       [] OTHER -> heap[w]]

MemoryTypeOK ==
  /\ memUsed \in Nat
  /\ sz \in [Workers -> Nat]
  /\ heap \in [Workers -> Nat]
  /\ stage \in [Workers -> Locations]

(* The lock-free counter never drifts: whatever the interleaving of the    *)
(* additions and subtractions of CountingCalloc and CountingFree, memUsed  *)
(* is the sum of the charges outstanding, so it never wraps below zero.    *)
ChargeExact == memUsed = TableBytes + Total(Charged)

(* The bytes that CountingCalloc has granted never exceed --maxmem, though *)
(* memUsed itself may exceed it while a refused charge is being undone.    *)
GrantedWithinLimit == maxMem > 0 => TableBytes + Total(Granted) <= maxMem
=============================================================================
