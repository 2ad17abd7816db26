---------------------------- MODULE DwhIOProofs -----------------------------
(***************************************************************************)
(* Proofs about DwhIO, for any number of workers and I/O threads.  IOInv   *)
(* is inductive: what makes the buffers safe is that a node is away from   *)
(* its worker only while memQueued is set, and that a worker which leaves  *)
(* with a node away does so only after EndAllThreads, so that its slot is  *)
(* never given to a new worker.                                            *)
(***************************************************************************)
EXTENDS DwhIO, TLAPS

(* Where a worker stands tells what it has. *)
WorkerOK(w) ==
  /\ wpc[w] \in {"submit", "enqueue", "wait", "reap"} => mem[w]
  /\ wpc[w] \in {"wait", "reap"} => memQueued[w]
  /\ wpc[w] \in {"loop", "submit", "enqueue"} => ~memQueued[w]
  /\ Away(w) => mem[w] /\ memQueued[w]
  /\ wpc[w] \in {"leave", "ended", "gone"} /\ ~EndAllThreads => ~Away(w) /\ ~memQueued[w]

HandsOK == \A t \in IOThreads : iopc[t] = "busy" <=> hand[t] # Nobody

MainOK == EndAllThreads <=> mpc \in {"join", "clear", "over"}

IOInv ==
  /\ TypeOK /\ PostedWhenDone /\ OneHolder /\ ClearedAlone
  /\ \A w \in Workers : WorkerOK(w)
  /\ HandsOK /\ MainOK

LEMMA IOInit == Init => IOInv
<1> SUFFICES ASSUME Init PROVE IOInv
  OBVIOUS
<1>1. /\ EndAllIO = FALSE /\ EndAllThreads = FALSE /\ mpc = "run"
      /\ wpc = [w \in Workers |-> "loop"] /\ iopc = [t \in IOThreads |-> "loop"]
      /\ place = [w \in Workers |-> "out"] /\ before = {}
      /\ hand = [t \in IOThreads |-> Nobody]
      /\ mem = [w \in Workers |-> FALSE] /\ memQueued = [w \in Workers |-> FALSE]
      /\ sem = [w \in Workers |-> 0]
  BY DEF Init, Q!Init
<1>2. EndAllIO \in BOOLEAN /\ EndAllThreads \in BOOLEAN
  BY <1>1, Zenon
<1>3. TypeOK
  BY <1>1, <1>2 DEF TypeOK, MainPoints, WorkerPoints, IOPoints
<1>4. \A w \in Workers : ~Away(w)
  BY <1>1, IOAssumption DEF Away, InHand
<1>5. PostedWhenDone /\ OneHolder /\ ClearedAlone /\ HandsOK /\ MainOK
  BY <1>1, <1>4 DEF PostedWhenDone, OneHolder, ClearedAlone, HandsOK, MainOK
<1>6. \A w \in Workers : WorkerOK(w)
  BY <1>1, <1>4 DEF WorkerOK
<1> QED BY <1>3, <1>5, <1>6 DEF IOInv

-----------------------------------------------------------------------------
(* A step of worker w that leaves every node where it is and the buffers    *)
(* and semaphores of the others alone.                                      *)
LEMMA QuietWorkerStep ==
  ASSUME IOInv, NEW w \in Workers,
         wpc' \in [Workers -> WorkerPoints], mem' \in [Workers -> BOOLEAN],
         memQueued' \in [Workers -> BOOLEAN], sem' \in [Workers -> Nat],
         \A v \in Workers : v # w => /\ wpc'[v] = wpc[v] /\ mem'[v] = mem[v]
                                     /\ memQueued'[v] = memQueued[v] /\ sem'[v] = sem[v],
         UNCHANGED <<mainVars, queueVars, iopc, hand>>,
         wpc'[w] = "wait" => sem'[w] = IF place[w] = "done" THEN 1 ELSE 0,
         wpc'[w] = "reap" => sem'[w] = 0 /\ place[w] = "done",
         wpc'[w] \in {"loop", "submit", "enqueue"} => sem'[w] = 0 /\ ~Away(w),
         WorkerOK(w)',
         mpc \in {"clear", "over"} => wpc'[w] = "gone"
  PROVE  IOInv'
<1>1. TypeOK'
  BY DEF IOInv, TypeOK, mainVars, queueVars
<1>2. \A v \in Workers : Away(v)' = Away(v)
  BY DEF Away, InHand, queueVars
<1>3. PostedWhenDone'
  BY <1>2 DEF IOInv, PostedWhenDone, Away, queueVars
<1>4. OneHolder' /\ HandsOK' /\ MainOK'
  BY DEF IOInv, OneHolder, HandsOK, MainOK, queueVars, mainVars
<1>5. ClearedAlone'
  BY DEF IOInv, ClearedAlone, mainVars
<1>6. \A v \in Workers : WorkerOK(v)'
  BY <1>2 DEF IOInv, WorkerOK, mainVars
<1> QED BY <1>1, <1>3, <1>4, <1>5, <1>6 DEF IOInv

LEMMA WorkerPreserves ==
  ASSUME IOInv, NEW w \in Workers, WorkerStep(w) \/ StartWorker(w)
  PROVE  IOInv'
<1> USE DEF IOInv
<1>1. CASE Allocate(w)
  <2>1. /\ wpc[w] = "loop"
        /\ wpc' = [wpc EXCEPT ![w] = "loop"]
        /\ ~EndAllThreads
        /\ mem' = [mem EXCEPT ![w] = TRUE]
        /\ UNCHANGED <<mainVars, queueVars, iopc, hand, memQueued, sem>>
    BY <1>1 DEF Allocate, Move
  <2>2. Away(w)' = Away(w)
    BY <2>1 DEF Away, InHand, queueVars
  <2>3. WorkerOK(w)'
    BY <2>1, <2>2 DEF WorkerOK, TypeOK, mainVars
  <2> QED BY <2>1, <2>3, QuietWorkerStep
          DEF TypeOK, WorkerPoints, PostedWhenDone, MainOK, ClearedAlone
<1>2. CASE Free(w)
  <2>1. /\ wpc[w] = "loop"
        /\ wpc' = [wpc EXCEPT ![w] = "loop"]
        /\ ~EndAllThreads
        /\ mem' = [mem EXCEPT ![w] = FALSE]
        /\ UNCHANGED <<mainVars, queueVars, iopc, hand, memQueued, sem>>
    BY <1>2 DEF Free, Move
  <2>2. Away(w)' = Away(w)
    BY <2>1 DEF Away, InHand, queueVars
  <2>3. WorkerOK(w)'
    BY <2>1, <2>2 DEF WorkerOK, TypeOK, mainVars
  <2> QED BY <2>1, <2>3, QuietWorkerStep
          DEF TypeOK, WorkerPoints, PostedWhenDone, MainOK, ClearedAlone
<1>3. CASE EndMe(w)
  <2>1. /\ wpc[w] = "loop"
        /\ wpc' = [wpc EXCEPT ![w] = "leave"]
        /\ ~EndAllThreads
        /\ UNCHANGED <<mainVars, queueVars, iopc, hand, mem, memQueued, sem>>
    BY <1>3 DEF EndMe, Move
  <2>2. Away(w)' = Away(w)
    BY <2>1 DEF Away, InHand, queueVars
  <2>3. WorkerOK(w)'
    BY <2>1, <2>2 DEF WorkerOK, TypeOK, mainVars
  <2> QED BY <2>1, <2>3, QuietWorkerStep
          DEF TypeOK, WorkerPoints, PostedWhenDone, MainOK, ClearedAlone
<1>4. CASE StartIO(w)
  <2>1. /\ wpc[w] = "loop"
        /\ wpc' = [wpc EXCEPT ![w] = "submit"]
        /\ mem[w]
        /\ ~EndAllThreads
        /\ UNCHANGED <<mainVars, queueVars, iopc, hand, mem, memQueued, sem>>
    BY <1>4 DEF StartIO, Move
  <2>2. Away(w)' = Away(w)
    BY <2>1 DEF Away, InHand, queueVars
  <2>3. WorkerOK(w)'
    BY <2>1, <2>2 DEF WorkerOK, TypeOK, mainVars
  <2> QED BY <2>1, <2>3, QuietWorkerStep
          DEF TypeOK, WorkerPoints, PostedWhenDone, MainOK, ClearedAlone
<1>5. CASE Submit(w)
  <2>1. /\ wpc[w] = "submit"
        /\ \/ /\ wpc' = [wpc EXCEPT ![w] = "wait"]
              /\ memQueued' = [memQueued EXCEPT ![w] = TRUE]
           \/ /\ wpc' = [wpc EXCEPT ![w] = "enqueue"]
              /\ memQueued' = memQueued
        /\ UNCHANGED <<mainVars, queueVars, iopc, hand, mem, sem>>
    BY <1>5 DEF Submit, Move
  <2>2. Away(w)' = Away(w)
    BY <2>1 DEF Away, InHand, queueVars
  <2>3. WorkerOK(w)'
    BY <2>1, <2>2 DEF WorkerOK, TypeOK, mainVars
  <2>4. sem[w] = 0 /\ ~Away(w) /\ place[w] = "out"
    BY <2>1 DEF PostedWhenDone, Away
  <2>5. /\ wpc' \in [Workers -> WorkerPoints] /\ memQueued' \in [Workers -> BOOLEAN]
        /\ \A v \in Workers : v # w => wpc'[v] = wpc[v] /\ memQueued'[v] = memQueued[v]
        /\ wpc'[w] \in {"wait", "enqueue"}
    BY <2>1 DEF TypeOK, WorkerPoints
  <2>6. mpc \notin {"clear", "over"}
    BY <2>1 DEF ClearedAlone
  <2>7. sem' = sem /\ mem' = mem /\ sem \in [Workers -> Nat] /\ mem \in [Workers -> BOOLEAN]
    BY <2>1 DEF TypeOK
  <2> QED BY <2>1, <2>3, <2>4, <2>5, <2>6, <2>7, QuietWorkerStep
<1>6. CASE TryWait(w)
  <2>1. /\ wpc[w] = "wait"
        /\ wpc' = [wpc EXCEPT ![w] = "reap"]
        /\ sem[w] > 0
        /\ sem' = [sem EXCEPT ![w] = @ - 1]
        /\ UNCHANGED <<mainVars, queueVars, iopc, hand, mem, memQueued>>
    BY <1>6 DEF TryWait, Move
  <2>2. Away(w)' = Away(w)
    BY <2>1 DEF Away, InHand, queueVars
  <2>3. WorkerOK(w)'
    BY <2>1, <2>2 DEF WorkerOK, TypeOK, mainVars
  <2> QED BY <2>1, <2>3, QuietWorkerStep
          DEF TypeOK, WorkerPoints, PostedWhenDone, MainOK, ClearedAlone
<1>7. CASE GiveUpWaiting(w)
  <2>1. /\ wpc[w] = "wait"
        /\ wpc' = [wpc EXCEPT ![w] = "leave"]
        /\ EndAllThreads
        /\ UNCHANGED <<mainVars, queueVars, iopc, hand, mem, memQueued, sem>>
    BY <1>7 DEF GiveUpWaiting, Move
  <2>2. Away(w)' = Away(w)
    BY <2>1 DEF Away, InHand, queueVars
  <2>3. WorkerOK(w)'
    BY <2>1, <2>2 DEF WorkerOK, TypeOK, mainVars
  <2> QED BY <2>1, <2>3, QuietWorkerStep
          DEF TypeOK, WorkerPoints, PostedWhenDone, MainOK, ClearedAlone
<1>8. CASE LeaveLoop(w)
  <2>1. /\ wpc[w] = "loop"
        /\ wpc' = [wpc EXCEPT ![w] = "leave"]
        /\ EndAllThreads
        /\ UNCHANGED <<mainVars, queueVars, iopc, hand, mem, memQueued, sem>>
    BY <1>8 DEF LeaveLoop, Move
  <2>2. Away(w)' = Away(w)
    BY <2>1 DEF Away, InHand, queueVars
  <2>3. WorkerOK(w)'
    BY <2>1, <2>2 DEF WorkerOK, TypeOK, mainVars
  <2> QED BY <2>1, <2>3, QuietWorkerStep
          DEF TypeOK, WorkerPoints, PostedWhenDone, MainOK, ClearedAlone
<1>9. CASE CleanUp(w)
  <2>1. /\ wpc[w] = "leave"
        /\ wpc' = [wpc EXCEPT ![w] = "ended"]
        /\ mem' = [mem EXCEPT ![w] = mem[w] /\ memQueued[w]]
        /\ UNCHANGED <<mainVars, queueVars, iopc, hand, memQueued, sem>>
    BY <1>9 DEF CleanUp, Move
  <2>2. Away(w)' = Away(w)
    BY <2>1 DEF Away, InHand, queueVars
  <2>3. WorkerOK(w)'
    BY <2>1, <2>2 DEF WorkerOK, TypeOK, mainVars
  <2> QED BY <2>1, <2>3, QuietWorkerStep
          DEF TypeOK, WorkerPoints, PostedWhenDone, MainOK, ClearedAlone
<1>10. CASE CountOut(w)
  <2>1. /\ wpc[w] = "ended"
        /\ wpc' = [wpc EXCEPT ![w] = "gone"]
        /\ UNCHANGED <<mainVars, queueVars, iopc, hand, mem, memQueued, sem>>
    BY <1>10 DEF CountOut, Move
  <2>2. Away(w)' = Away(w)
    BY <2>1 DEF Away, InHand, queueVars
  <2>3. WorkerOK(w)'
    BY <2>1, <2>2 DEF WorkerOK, TypeOK, mainVars
  <2> QED BY <2>1, <2>3, QuietWorkerStep
          DEF TypeOK, WorkerPoints, PostedWhenDone, MainOK, ClearedAlone
<1>11. CASE StartWorker(w)
  <2>1. /\ mpc = "run"
        /\ wpc[w] = "gone"
        /\ wpc' = [wpc EXCEPT ![w] = "loop"]
        /\ sem' = [sem EXCEPT ![w] = 0]
        /\ mem' = [mem EXCEPT ![w] = FALSE]
        /\ memQueued' = [memQueued EXCEPT ![w] = FALSE]
        /\ UNCHANGED <<mainVars, queueVars, iopc, hand>>
    BY <1>11 DEF StartWorker, Move
  <2>2. Away(w)' = Away(w)
    BY <2>1 DEF Away, InHand, queueVars
  <2>3. WorkerOK(w)'
    BY <2>1, <2>2 DEF WorkerOK, TypeOK, mainVars, MainOK
  <2> QED BY <2>1, <2>3, QuietWorkerStep
          DEF TypeOK, WorkerPoints, PostedWhenDone, MainOK, ClearedAlone, WorkerOK
<1>12. CASE Enqueue(w)
  <2>1. PICK q \in {"read", "write"} : Q!Put(w, q)
    BY <1>12 DEF Enqueue
  <2>2. /\ wpc[w] = "enqueue" /\ wpc' = [wpc EXCEPT ![w] = "wait"]
        /\ memQueued' = [memQueued EXCEPT ![w] = TRUE]
        /\ place' = [place EXCEPT ![w] = q]
        /\ UNCHANGED <<mainVars, iopc, hand, mem, sem>>
    BY <1>12, <2>1 DEF Enqueue, Move, Q!Put
  <2>3. before' \subseteq Workers \X Workers
    BY <2>1 DEF Q!Put, Q!Members, TypeOK
  <2>4. TypeOK'
    BY <2>2, <2>3 DEF TypeOK, WorkerPoints, mainVars
  <2>5. ~Away(w) /\ sem[w] = 0 /\ mem[w]
    BY <2>2 DEF PostedWhenDone, WorkerOK
  <2>6. \A v \in Workers : v # w => Away(v)' = Away(v)
    BY <2>2 DEF Away, InHand, TypeOK
  <2>7. PostedWhenDone'
    <3>1. \A v \in Workers : /\ v # w => wpc'[v] = wpc[v] /\ place'[v] = place[v]
                            /\ sem'[v] = sem[v]
      BY <2>2 DEF TypeOK
    <3>2. wpc'[w] = "wait" /\ sem'[w] = 0 /\ place'[w] # "done"
      BY <2>2, <2>5 DEF TypeOK
    <3> QED BY <2>6, <3>1, <3>2 DEF PostedWhenDone
  <2>8. OneHolder'
    BY <2>2, <2>5 DEF OneHolder, Away, InHand, TypeOK
  <2>9. ClearedAlone' /\ HandsOK' /\ MainOK'
    BY <2>2 DEF ClearedAlone, HandsOK, MainOK, mainVars
  <2>10. \A v \in Workers : WorkerOK(v)'
    BY <2>2, <2>5, <2>6 DEF WorkerOK, TypeOK, mainVars
  <2> QED BY <2>4, <2>7, <2>8, <2>9, <2>10
<1>13. CASE Reap(w)
  <2>1. /\ wpc[w] = "reap" /\ wpc' = [wpc EXCEPT ![w] = "loop"]
        /\ memQueued' = [memQueued EXCEPT ![w] = FALSE]
        /\ place' = [place EXCEPT ![w] = "out"] /\ place[w] = "done"
        /\ before' = Q!Forget(w)
        /\ UNCHANGED <<mainVars, iopc, hand, mem, sem>>
    BY <1>13 DEF Reap, Move, Q!Pick, Q!Leave
  <2>2. TypeOK'
    BY <2>1 DEF TypeOK, WorkerPoints, mainVars, Q!Forget
  <2>3. \A v \in Workers : v # w => Away(v)' = Away(v)
    BY <2>1 DEF Away, InHand, TypeOK
  <2>4. ~Away(w)'
    <3>1. ~InHand(w)
      BY <2>1, IOAssumption DEF InHand, OneHolder
    <3> QED BY <2>1, <3>1 DEF Away, InHand, TypeOK
  <2>5. PostedWhenDone'
    <3>1. \A v \in Workers : /\ v # w => wpc'[v] = wpc[v] /\ place'[v] = place[v]
                            /\ sem'[v] = sem[v]
      BY <2>1 DEF TypeOK
    <3>2. wpc'[w] = "loop" /\ sem'[w] = 0
      BY <2>1 DEF TypeOK, PostedWhenDone
    <3> QED BY <2>3, <2>4, <3>1, <3>2 DEF PostedWhenDone
  <2>6. OneHolder'
    BY <2>1 DEF OneHolder, TypeOK
  <2>7. ClearedAlone' /\ HandsOK' /\ MainOK'
    BY <2>1 DEF ClearedAlone, HandsOK, MainOK, mainVars
  <2>8. \A v \in Workers : WorkerOK(v)'
    BY <2>1, <2>3, <2>4 DEF WorkerOK, TypeOK, mainVars
  <2> QED BY <2>2, <2>5, <2>6, <2>7, <2>8
<1> QED BY <1>1, <1>2, <1>3, <1>4, <1>5, <1>6, <1>7, <1>8, <1>9, <1>10, <1>11,
           <1>12, <1>13 DEF WorkerStep

-----------------------------------------------------------------------------
LEMMA IOThreadPreserves ==
  ASSUME IOInv, NEW t \in IOThreads, IOStep(t)
  PROVE  IOInv'
<1> USE DEF IOInv
<1>1. ASSUME NEW q \in {"read", "write"}, TakeNode(t, q) PROVE IOInv'
  <2>1. PICK w \in Workers : Q!Take(w, q) /\ hand' = [hand EXCEPT ![t] = w]
    BY <1>1 DEF TakeNode
  <2>2. /\ iopc[t] = "loop" /\ ~EndAllThreads /\ iopc' = [iopc EXCEPT ![t] = "busy"]
        /\ place[w] = q /\ place' = [place EXCEPT ![w] = "out"]
        /\ before' = Q!Forget(w)
        /\ UNCHANGED <<mainVars, workerVars, sem>>
    BY <1>1, <2>1 DEF TakeNode, Q!Take, Q!Leave
  <2>3. TypeOK'
    BY <2>1, <2>2 DEF TypeOK, IOPoints, mainVars, workerVars, Q!Forget
  <2>4. hand[t] = Nobody /\ ~InHand(w)
    BY <2>2, IOAssumption DEF HandsOK, OneHolder, InHand
  <2>5. \A v \in Workers : Away(v)' = Away(v)
    <3>1. \A v \in Workers : v # w => (InHand(v)' <=> InHand(v)) /\ place'[v] = place[v]
      BY <2>1, <2>2, <2>4, IOAssumption DEF InHand, TypeOK
    <3>2. InHand(w)'
      BY <2>1 DEF InHand, TypeOK
    <3>3. Away(w) /\ Away(w)'
      BY <2>2, <3>2 DEF Away
    <3> QED BY <3>1, <3>3 DEF Away
  <2>6. PostedWhenDone'
    <3>1. \A v \in Workers : place'[v] = "done" <=> place[v] = "done"
      BY <2>2 DEF TypeOK
    <3> QED BY <2>2, <2>5, <3>1 DEF PostedWhenDone, workerVars
  <2>7. OneHolder'
    BY <2>1, <2>2, <2>4, IOAssumption DEF OneHolder, InHand, TypeOK
  <2>8. ClearedAlone' /\ HandsOK' /\ MainOK'
    BY <2>1, <2>2, IOAssumption DEF ClearedAlone, HandsOK, MainOK, mainVars, TypeOK
  <2>9. \A v \in Workers : WorkerOK(v)'
    BY <2>2, <2>5 DEF WorkerOK, workerVars, mainVars
  <2> QED BY <2>3, <2>6, <2>7, <2>8, <2>9
<1>2. CASE queueIODone(t)
  <2>0. PICK w \in Workers : hand[t] = w
    BY <1>2 DEF queueIODone, HandsOK, TypeOK
  <2>1. /\ iopc[t] = "busy" /\ iopc' = [iopc EXCEPT ![t] = "loop"]
        /\ hand' = [hand EXCEPT ![t] = Nobody]
        /\ place[w] = "out" /\ place' = [place EXCEPT ![w] = "done"]
        /\ before' = before \cup (Q!Members("done") \X {w})
        /\ sem' = [sem EXCEPT ![w] = @ + 1]
        /\ UNCHANGED <<mainVars, workerVars>>
    BY <1>2, <2>0 DEF queueIODone, Q!Put
  <2>2. TypeOK'
    <3>1. before' \subseteq Workers \X Workers
      BY <2>1 DEF Q!Members, TypeOK
    <3> QED BY <2>1, <3>1 DEF TypeOK, IOPoints, mainVars, workerVars
  <2>3. \A v \in Workers : Away(v)' = Away(v)
    <3>1. \A v \in Workers : v # w => (InHand(v)' <=> InHand(v)) /\ place'[v] = place[v]
      BY <2>0, <2>1, IOAssumption DEF InHand, TypeOK
    <3>2. Away(w) /\ Away(w)'
      BY <2>0, <2>1 DEF Away, InHand, TypeOK
    <3> QED BY <3>1, <3>2 DEF Away
  <2>4. PostedWhenDone'
    <3>1. wpc[w] \notin {"loop", "submit", "enqueue", "reap"}
      BY <2>0, <2>1 DEF PostedWhenDone, Away, InHand
    <3>2. wpc[w] = "wait" => sem'[w] = 1 /\ place'[w] = "done"
      BY <2>1 DEF PostedWhenDone, TypeOK
    <3>3. \A v \in Workers : v # w => sem'[v] = sem[v] /\ place'[v] = place[v]
      BY <2>1 DEF TypeOK
    <3> QED BY <2>1, <2>3, <3>1, <3>2, <3>3 DEF PostedWhenDone, workerVars
  <2>5. OneHolder'
    BY <2>0, <2>1, IOAssumption DEF OneHolder, TypeOK
  <2>6. ClearedAlone' /\ HandsOK' /\ MainOK'
    BY <2>1, IOAssumption DEF ClearedAlone, HandsOK, MainOK, mainVars, TypeOK
  <2>7. \A v \in Workers : WorkerOK(v)'
    BY <2>1, <2>3 DEF WorkerOK, workerVars, mainVars
  <2> QED BY <2>2, <2>4, <2>5, <2>6, <2>7
<1>3. CASE EndIOThread(t)
  <2>1. /\ iopc[t] = "loop" /\ iopc' = [iopc EXCEPT ![t] = "gone"]
        /\ UNCHANGED <<mainVars, workerVars, queueVars, hand, sem>>
    BY <1>3 DEF EndIOThread
  <2>2. TypeOK'
    BY <2>1 DEF TypeOK, IOPoints, mainVars, workerVars, queueVars
  <2>3. \A v \in Workers : Away(v)' = Away(v)
    BY <2>1 DEF Away, InHand, queueVars
  <2>4. PostedWhenDone'
    BY <2>1, <2>3 DEF PostedWhenDone, workerVars, queueVars
  <2>5. OneHolder' /\ ClearedAlone' /\ HandsOK' /\ MainOK'
    BY <2>1 DEF OneHolder, ClearedAlone, HandsOK, MainOK, mainVars, queueVars, workerVars, TypeOK
  <2>6. \A v \in Workers : WorkerOK(v)'
    BY <2>1, <2>3 DEF WorkerOK, workerVars, mainVars
  <2> QED BY <2>2, <2>4, <2>5, <2>6
<1> QED BY <1>1, <1>2, <1>3 DEF IOStep

LEMMA MainPreserves ==
  ASSUME IOInv, MainStep
  PROVE  IOInv'
<1> USE DEF IOInv
<1>1. CASE clearIOQueues
  <2>1. /\ mpc = "clear" /\ mpc' = "over"
        /\ place' = [w \in Workers |-> "out"] /\ before' = {}
        /\ UNCHANGED <<EndAllIO, EndAllThreads, wpc, mem, memQueued, iopc, hand, sem>>
    BY <1>1 DEF clearIOQueues, MainMove, workerVars
  <2>2. TypeOK'
    BY <2>1 DEF TypeOK, MainPoints
  <2>3. \A v \in Workers : wpc[v] = "gone"
    BY <2>1 DEF ClearedAlone
  <2>4. \A v \in Workers : ~Away(v)'
    BY <2>1, IOAssumption DEF Away, InHand, ClearedAlone
  <2>5. PostedWhenDone' /\ ClearedAlone' /\ OneHolder' /\ HandsOK' /\ MainOK'
    BY <2>1, <2>3 DEF PostedWhenDone, ClearedAlone, OneHolder, HandsOK, MainOK
  <2>6. \A v \in Workers : WorkerOK(v)'
    BY <2>1, <2>3, <2>4 DEF WorkerOK, MainOK
  <2> QED BY <2>2, <2>5, <2>6
<1>2. ASSUME UNCHANGED Others, mpc' \in MainPoints,
             EndAllIO' \in BOOLEAN, EndAllThreads' \in BOOLEAN, MainOK',
             EndAllThreads => EndAllThreads', ClearedAlone'
      PROVE  IOInv'
  <2>1. UNCHANGED <<wpc, mem, memQueued, iopc, place, before, hand, sem>>
    BY <1>2 DEF Others, workerVars, queueVars
  <2>2. TypeOK'
    BY <1>2, <2>1 DEF TypeOK
  <2>3. \A v \in Workers : Away(v)' = Away(v)
    BY <2>1 DEF Away, InHand
  <2>4. PostedWhenDone' /\ OneHolder' /\ HandsOK'
    BY <2>1, <2>3 DEF PostedWhenDone, OneHolder, HandsOK
  <2>5. \A v \in Workers : WorkerOK(v)'
    BY <1>2, <2>1, <2>3 DEF WorkerOK
  <2> QED BY <1>2, <2>2, <2>4, <2>5
<1>3. CASE Join
  <2>1. /\ mpc = "join" /\ mpc' = "clear" /\ UNCHANGED <<Others, EndAllIO, EndAllThreads>>
        /\ LiveWorkers = {} /\ LiveIOThreads = {}
    BY <1>3 DEF Join, MainMove
  <2>2. \A t \in IOThreads : hand[t] = Nobody
    BY <2>1 DEF LiveIOThreads, HandsOK
  <2>3. ClearedAlone'
    BY <2>1, <2>2 DEF ClearedAlone, LiveWorkers, LiveIOThreads, Others, workerVars
  <2>4. MainOK' /\ mpc' \in MainPoints /\ UNCHANGED EndAllIO /\ UNCHANGED EndAllThreads
    BY <2>1 DEF MainOK, MainPoints
  <2> QED BY <1>2, <2>1, <2>3, <2>4 DEF TypeOK
<1>4. CASE TimeUp \/ KillThreads
  <2>1. /\ mpc \in {"run", "kill"} /\ mpc' = IF mpc = "run" THEN "endio" ELSE "join"
        /\ UNCHANGED Others
        /\ \/ mpc = "run" /\ EndAllIO' = TRUE /\ EndAllThreads' = EndAllThreads
           \/ mpc = "kill" /\ EndAllIO' = EndAllIO /\ EndAllThreads' = TRUE
    BY <1>4 DEF TimeUp, KillThreads, MainMove
  <2>2. EndAllIO' \in BOOLEAN /\ EndAllThreads' \in BOOLEAN
    BY <2>1, Zenon DEF TypeOK
  <2>3. MainOK' /\ ClearedAlone' /\ mpc' \in MainPoints /\ (EndAllThreads => EndAllThreads')
    BY <2>1 DEF MainOK, ClearedAlone, MainPoints
  <2> QED BY <1>2, <2>1, <2>2, <2>3
<1>5. CASE AnyWorkers \/ isReadQEmpty \/ isWriteQEmpty \/ isDoneQEmpty
  <2>1. /\ mpc \in {"endio", "scanRead", "scanWrite", "scanDone"}
        /\ mpc' \in {"endio", "scanRead", "scanWrite", "scanDone", "kill"}
        /\ UNCHANGED <<Others, EndAllIO, EndAllThreads>>
    BY <1>5 DEF AnyWorkers, isReadQEmpty, isWriteQEmpty, isDoneQEmpty, Scan, MainMove
  <2>2. MainOK' /\ ClearedAlone' /\ mpc' \in MainPoints
    BY <2>1 DEF MainOK, ClearedAlone, MainPoints
  <2> QED BY <1>2, <2>1, <2>2 DEF TypeOK
<1> QED BY <1>1, <1>3, <1>4, <1>5 DEF MainStep

(* The inductive invariant holds of every behaviour. *)
THEOREM IOInvariant == Spec => []IOInv
<1>1. IOInv /\ [Next]_vars => IOInv'
  <2> SUFFICES ASSUME IOInv, [Next]_vars PROVE IOInv'
    OBVIOUS
  <2>1. CASE UNCHANGED vars
    <3>1. UNCHANGED <<EndAllIO, EndAllThreads, mpc, wpc, iopc, place, before, hand, mem,
                      memQueued, sem>>
      BY <2>1 DEF vars
    <3>2. \A v \in Workers : Away(v)' = Away(v)
      BY <3>1 DEF Away, InHand
    <3> QED BY <3>1, <3>2 DEF IOInv, TypeOK, PostedWhenDone, OneHolder, ClearedAlone,
                              WorkerOK, HandsOK, MainOK
  <2> QED BY <2>1, WorkerPreserves, IOThreadPreserves, MainPreserves DEF Next, Over
<1> QED BY IOInit, <1>1, PTL DEF Spec

(* The variables of the I/O hand-off keep their types. *)
THEOREM IOTypes == Spec => []TypeOK
BY IOInvariant, PTL DEF IOInv

(* No I/O thread, and no node on a queue, ever refers to a freed buffer,    *)
(* whatever the moment at which a worker gives up and main shuts down.      *)
THEOREM BuffersSafe == Spec => []BufferSafe
<1>1. IOInv => BufferSafe
  BY DEF IOInv, WorkerOK, BufferSafe
<1> QED BY <1>1, IOInvariant, PTL

(* A waiting worker's semaphore is posted exactly when its node is done.    *)
THEOREM PostsMatchDone == Spec => []PostedWhenDone
BY IOInvariant, PTL DEF IOInv

(* A node has one place and at most one I/O thread.                         *)
THEOREM NodesHaveOneHolder == Spec => []OneHolder
BY IOInvariant, PTL DEF IOInv

(* Main clears the queues only when every thread has gone.                  *)
THEOREM QueuesClearedAlone == Spec => []ClearedAlone
BY IOInvariant, PTL DEF IOInv
=============================================================================
