---------------------------- MODULE DwhAioProofs ----------------------------
(***************************************************************************)
(* Proofs about DwhAio for any number of I/O threads, any file and any     *)
(* buffer lengths.  The inductive invariant says that a thread holds       *)
(* exactly the lock of its transfer from the grant of fcntl to the unlock, *)
(* that the locks held do not conflict, and what is known of the aiocb and *)
(* of the result at each point of asyncRead and asyncWrite.                *)
(***************************************************************************)
EXTENDS DwhAio, TLAPS

Locked == {"submit", "poll", "cancel", "count", "unlock"}

(* From fcntl to the unlock the lock of a thread is that of its transfer. *)
HeldMatches == \A t \in Threads : pc[t] \in Locked => held[t] = op[t] /\ op[t] \in Ops

(* The kernel's side: no two locks conflict. *)
LocksApart == \A t, u \in Threads : t # u => ~Conflict(held[t], held[u])

(* Before CountTransfer nothing is counted; what CountTransfer finds. *)
Fresh(t) ==
  /\ pc[t] # "unlock" => outcome[t] = "none" /\ io_done[t] = 0
  /\ pc[t] \notin {"count", "unlock"} => result[t] = -1
  /\ pc[t] = "poll" => aio[t] # "none"
  /\ pc[t] = "lock" => op[t] \in Ops
  /\ pc[t] = "count" /\ aio[t] = "none" => result[t] = -1
  /\ pc[t] = "count" /\ aio[t] = "done" => result[t] = res[t]

AllFresh == \A t \in Threads : Fresh(t)

AioInv ==
  /\ AioTypeOK
  /\ HeldMatches
  /\ LocksApart
  /\ NothingLeftBehind
  /\ AllFresh
  /\ LateEndCounts
  /\ LocksDropped

LEMMA ConflictSymmetric ==
  ASSUME NEW o, NEW p
  PROVE  /\ Conflict(o, p) => Conflict(p, o)
         /\ ~Conflict(NoOp, o) /\ ~Conflict(o, NoOp)
BY DEF Conflict

LEMMA OpFacts ==
  ASSUME NEW o \in Ops
  PROVE  o.len \in Nat /\ o.len > 0 /\ o # NoOp
<1>1. o \in [kind : {"read", "write"}, pos : 0 .. fileSize, len : Lengths]
  BY DEF Ops
<1>2. o.len \in Lengths /\ o.kind \in {"read", "write"}
  BY <1>1
<1>3. o # NoOp
  <2>1. NoOp.kind = "none"
    BY DEF NoOp
  <2> QED
    BY <1>2, <2>1
<1> QED
  <2>1. o.len \in Nat \ {0}
    BY <1>2, AioAssumption DEF AioAssumption
  <2> QED
    BY <2>1, <1>3

LEMMA AioInvInit == AioInit => AioInv
<1> SUFFICES ASSUME AioInit PROVE AioInv
  OBVIOUS
<1>1. AioTypeOK
  <2>1. EndAllThreads \in BOOLEAN /\ verbose_flag \in BOOLEAN /\ timedOut \in [Threads -> BOOLEAN]
    BY Zenon DEF AioInit
  <2>2. pc \in [Threads -> Points] /\ aio \in [Threads -> AioStates]
        /\ outcome \in [Threads -> Outcomes]
    BY DEF AioInit, Points, AioStates, Outcomes
  <2>3. op \in [Threads -> Ops \cup {NoOp}] /\ held \in [Threads -> Ops \cup {NoOp}]
    BY Zenon DEF AioInit
  <2>4. res \in [Threads -> Int] /\ result \in [Threads -> Int] /\ io_done \in [Threads -> Nat]
    BY DEF AioInit
  <2> QED
    BY <2>1, <2>2, <2>3, <2>4 DEF AioTypeOK
<1>2. LocksApart
  BY ConflictSymmetric DEF AioInit, LocksApart
<1>3. HeldMatches /\ NothingLeftBehind /\ AllFresh /\ LateEndCounts /\ LocksDropped
  BY DEF AioInit, HeldMatches, NothingLeftBehind, AllFresh, Fresh, LateEndCounts,
         LocksDropped, Locked, InFlight
<1> QED
  BY <1>1, <1>2, <1>3 DEF AioInv

-----------------------------------------------------------------------------
(* The actions that leave the locks alone and move the thread, if at all,   *)
(* inside the locked section or outside it.                                 *)
LEMMA QuietSteps ==
  ASSUME AioInv, NEW t \in Threads,
         \/ LoopAgain(t) \/ (\E o \in Ops : Begin(t, o)) \/ LockFails(t) \/ Submit(t)
         \/ SubmitFails(t) \/ PollDone(t) \/ PollGivesUp(t) \/ Cancel(t)
         \/ CountTransfer(t) \/ UnlockFails(t) \/ StartTransfer(t) \/ EndTransfer(t)
  PROVE  AioInv'
<1> USE DEF AioInv, InFlight
<1>1. CASE LoopAgain(t)
  BY <1>1 DEF LoopAgain, Move, AioTypeOK, HeldMatches, LocksApart, NothingLeftBehind,
     AllFresh, Fresh, LateEndCounts, LocksDropped, Locked, Points, AioStates, Outcomes
<1>2. CASE \E o \in Ops : Begin(t, o)
  BY <1>2 DEF Begin, Move, AioTypeOK, HeldMatches, LocksApart, NothingLeftBehind,
     AllFresh, Fresh, LateEndCounts, LocksDropped, Locked, Points, AioStates, Outcomes
<1>3. CASE LockFails(t)
  BY <1>3 DEF LockFails, Return, Move, AioTypeOK, HeldMatches, LocksApart, NothingLeftBehind,
     AllFresh, Fresh, LateEndCounts, LocksDropped, Locked, Points, AioStates, Outcomes
<1>4. CASE Submit(t)
  BY <1>4 DEF Submit, Move, AioTypeOK, HeldMatches, LocksApart, NothingLeftBehind,
     AllFresh, Fresh, LateEndCounts, LocksDropped, Locked, Points, AioStates, Outcomes
<1>5. CASE SubmitFails(t)
  BY <1>5 DEF SubmitFails, Move, AioTypeOK, HeldMatches, LocksApart, NothingLeftBehind,
     AllFresh, Fresh, LateEndCounts, LocksDropped, Locked, Points, AioStates, Outcomes
<1>6. CASE PollDone(t)
  BY <1>6 DEF PollDone, Move, AioTypeOK, HeldMatches, LocksApart, NothingLeftBehind,
     AllFresh, Fresh, LateEndCounts, LocksDropped, Locked, Points, AioStates, Outcomes
<1>7. CASE PollGivesUp(t)
  BY <1>7 DEF PollGivesUp, Move, AioTypeOK, HeldMatches, LocksApart, NothingLeftBehind,
     AllFresh, Fresh, LateEndCounts, LocksDropped, Locked, Points, AioStates, Outcomes
<1>8. CASE Cancel(t)
  BY <1>8 DEF Cancel, Move, AioTypeOK, HeldMatches, LocksApart, NothingLeftBehind,
     AllFresh, Fresh, LateEndCounts, LocksDropped, Locked, Points, AioStates, Outcomes
<1>9. CASE CountTransfer(t)
  BY <1>9, OpFacts DEF CountTransfer, Move, AioTypeOK, HeldMatches, LocksApart, NothingLeftBehind,
     AllFresh, Fresh, LateEndCounts, LocksDropped, Locked, Points, AioStates, Outcomes
<1>10. CASE UnlockFails(t)
  BY <1>10 DEF UnlockFails, Return, Move, AioTypeOK, HeldMatches, LocksApart, NothingLeftBehind,
     AllFresh, Fresh, LateEndCounts, LocksDropped, Locked, Points, AioStates, Outcomes
<1>11. CASE StartTransfer(t)
  BY <1>11 DEF StartTransfer, Move, AioTypeOK, HeldMatches, LocksApart, NothingLeftBehind,
     AllFresh, Fresh, LateEndCounts, LocksDropped, Locked, Points, AioStates, Outcomes
<1>12. CASE EndTransfer(t)
  BY <1>12, OpFacts DEF EndTransfer, Move, AioTypeOK, HeldMatches, LocksApart, NothingLeftBehind,
     AllFresh, Fresh, LateEndCounts, LocksDropped, Locked, Points, AioStates, Outcomes
<1> QED
  BY <1>1, <1>2, <1>3, <1>4, <1>5, <1>6, <1>7, <1>8, <1>9, <1>10, <1>11, <1>12

(* fcntl grants a lock only if it conflicts with no other. *)
LEMMA LockStep ==
  ASSUME AioInv, NEW t \in Threads, Lock(t)
  PROVE  AioInv'
<1> USE DEF AioInv
<1>1. LocksApart'
  <2> SUFFICES ASSUME NEW u \in Threads, NEW v \in Threads, u # v
               PROVE  ~Conflict(held'[u], held'[v])
    BY DEF LocksApart
  <2>1. \A w \in Threads : w # t => held'[w] = held[w] /\ ~Conflict(op[t], held[w])
    BY DEF Lock, AioTypeOK
  <2>2. held'[t] = op[t]
    BY DEF Lock, AioTypeOK
  <2>3. CASE u = t
    BY <2>1, <2>2, <2>3
  <2>4. CASE v = t
    BY <2>1, <2>2, <2>4, ConflictSymmetric
  <2>5. CASE u # t /\ v # t
    BY <2>1, <2>5 DEF LocksApart
  <2> QED
    BY <2>3, <2>4, <2>5
<1>2. (AioTypeOK /\ HeldMatches /\ NothingLeftBehind /\ AllFresh /\ LateEndCounts /\ LocksDropped)'
  BY DEF Lock, Move, AioTypeOK, HeldMatches, NothingLeftBehind, AllFresh, Fresh,
     LateEndCounts, LocksDropped, Locked, Points, AioStates, Outcomes, InFlight
<1> QED
  BY <1>1, <1>2

(* A lock given up, by unlocking or by closing the file, conflicts with none. *)
LEMMA UnlockSteps ==
  ASSUME AioInv, NEW t \in Threads, Unlock(t) \/ Close(t)
  PROVE  AioInv'
<1> USE DEF AioInv
<1>1. LocksApart'
  <2> SUFFICES ASSUME NEW u \in Threads, NEW v \in Threads, u # v
               PROVE  ~Conflict(held'[u], held'[v])
    BY DEF LocksApart
  <2>1. held' = [held EXCEPT ![t] = NoOp]
    BY DEF Unlock, Close
  <2>2. CASE u # t /\ v # t
    BY <2>1, <2>2 DEF LocksApart, AioTypeOK
  <2>3. CASE u = t \/ v = t
    BY <2>1, <2>3, ConflictSymmetric DEF AioTypeOK
  <2> QED
    BY <2>2, <2>3
<1>2. CASE Unlock(t)
  BY <1>1, <1>2 DEF Unlock, Return, Move, AioTypeOK, HeldMatches, NothingLeftBehind,
     AllFresh, Fresh, LateEndCounts, LocksDropped, Locked, Points, AioStates, Outcomes,
     InFlight
<1>3. CASE Close(t)
  BY <1>1, <1>3 DEF Close, Move, AioTypeOK, HeldMatches, NothingLeftBehind, AllFresh, Fresh,
     LateEndCounts, LocksDropped, Locked, Points, AioStates, Outcomes, InFlight
<1> QED
  BY <1>2, <1>3

(* Every step of DwhAio keeps the inductive invariant AioInv, whatever the  *)
(* I/O threads, the C library and main do and in whatever order.            *)
THEOREM AioInvariant == AioSpec => []AioInv
<1>1. AioInv /\ [AioNext]_aioVars => AioInv'
  <2> SUFFICES ASSUME AioInv, [AioNext]_aioVars PROVE AioInv'
    OBVIOUS
  <2>1. CASE \E t \in Threads : (\E o \in Ops : Begin(t, o)) \/ ThreadStep(t) \/ LibraryStep(t)
    BY <2>1, QuietSteps, LockStep, UnlockSteps DEF ThreadStep, LibraryStep
  <2>2. CASE EndPThreads
    BY <2>2 DEF EndPThreads, AioInv, AioTypeOK, HeldMatches, LocksApart, NothingLeftBehind,
       AllFresh, Fresh, LateEndCounts, LocksDropped, InFlight
  <2>3. CASE AioOver \/ UNCHANGED aioVars
    BY <2>3 DEF AioOver, aioVars, AioInv, AioTypeOK, HeldMatches, LocksApart, NothingLeftBehind,
       AllFresh, Fresh, LateEndCounts, LocksDropped, InFlight
  <2> QED
    BY <2>1, <2>2, <2>3 DEF AioNext
<1> QED
  BY <1>1, AioInvInit, PTL DEF AioSpec

(* AioTypeOK: the state of the transfers keeps its types. *)
THEOREM AioTypes == AioSpec => []AioTypeOK
<1>1. AioInv => AioTypeOK
  BY DEF AioInv
<1> QED
  BY <1>1, AioInvariant, PTL

(* RegionsExclusive: ioFileWrite never has a transfer under way on bytes    *)
(* that another thread's transfer is using, whatever times out or fails.    *)
THEOREM WritesExclusive == AioSpec => []RegionsExclusive
<1>1. AioInv => RegionsExclusive
  BY DEF AioInv, RegionsExclusive, NothingLeftBehind, HeldMatches, LocksApart, Locked
<1> QED
  BY <1>1, AioInvariant, PTL

(* NothingLeftBehind: asyncRead and asyncWrite never return while the       *)
(* library still uses the buffer or the aiocb on their stack.               *)
THEOREM TransfersEndFirst == AioSpec => []NothingLeftBehind
<1>1. AioInv => NothingLeftBehind
  BY DEF AioInv
<1> QED
  BY <1>1, AioInvariant, PTL

(* LateEndCounts: a transfer that ends while its timeout is being handled   *)
(* is counted as done, and only a cancelled one as timed out.               *)
THEOREM LateEndsCounted == AioSpec => []LateEndCounts
<1>1. AioInv => LateEndCounts
  BY DEF AioInv
<1> QED
  BY <1>1, AioInvariant, PTL

(* LocksDropped: a lock that could not be released ends all threads. *)
THEOREM StrayLocksEndRun == AioSpec => []LocksDropped
<1>1. AioInv => LocksDropped
  BY DEF AioInv
<1> QED
  BY <1>1, AioInvariant, PTL
=============================================================================
