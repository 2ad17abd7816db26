----------------------------- MODULE DwhShared ------------------------------
(***************************************************************************)
(* What the threads of dwh share, one thing at a time: the memory budget,  *)
(* the linked lists of the I/O queues and the regions of the data file.    *)
(* None touches another's variables, so every behaviour of this module is  *)
(* one of the part it starts.                                              *)
(***************************************************************************)
EXTENDS DwhMemory, DwhQueues, DwhAio

VARIABLE part   \* the part that runs

vars == <<part, memoryVars, queueVars, aioVars>>

Init ==
  /\ part \in {"memory", "queues", "aio"}
  /\ MemoryInit /\ QueueInit /\ AioInit
  /\ part # "aio" => ~verbose_flag

MemoryPart == part = "memory" /\ MemoryNext /\ UNCHANGED <<part, queueVars, aioVars>>
QueuePart  == part = "queues" /\ QueueNext /\ UNCHANGED <<part, memoryVars, aioVars>>
AioPart    == part = "aio" /\ AioNext /\ UNCHANGED <<part, memoryVars, queueVars>>

(* The queues have been cleared; no worker is left, and each place is taken *)
(* by a buffer that is still charged.                                       *)
Over ==
  /\ \/ part = "memory" /\ \A w \in Workers : stage[w] = "dead" /\ heap[w] # 0
     \/ part = "queues" /\ phase = "over"
  /\ UNCHANGED vars

Next == MemoryPart \/ QueuePart \/ AioPart \/ Over

(* The I/O threads run, and the kernel ends every transfer it has started. *)
Spec ==
  /\ Init /\ [][Next]_vars
  /\ \A t \in Threads :
       /\ WF_aioVars(part = "aio" /\ ThreadRuns(t))
       /\ WF_aioVars(part = "aio" /\ LibraryStep(t))
=============================================================================
