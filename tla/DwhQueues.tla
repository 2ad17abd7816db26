----------------------------- MODULE DwhQueues ------------------------------
(***************************************************************************)
(* The three I/O queues of dwh as the code keeps them: doubly linked lists *)
(* through the prev and next fields of the nodes, a head and a tail        *)
(* pointer and a counter per queue.  Every operation holds the mutex of    *)
(* its queue from end to end, so it is one step here; pthread_mutex_lock   *)
(* and _unlock do not fail on the initialised default mutexes used.        *)
(*                                                                         *)
(* A worker allocates a node and queues it for reading or for writing, an  *)
(* I/O thread takes it off and puts it on the done queue, the worker takes *)
(* that very node back and frees it.  After the threads have ended, main   *)
(* clears the queues, one after the other and node by node.  That a worker *)
(* may find EndAllIO set and not queue its node is no step of a queue: it  *)
(* is modelled in DwhIO.                                                   *)
(***************************************************************************)
EXTENDS Naturals, FiniteSets

CONSTANTS Nodes, NULL

ASSUME QueuesAssumption == IsFiniteSet(Nodes) /\ NULL \notin Nodes

Queues == {"read", "write", "done"}

(* "running" until every thread has ended, then the queue main is clearing. *)
Phases == {"running", "read", "write", "done", "over"}

(* Where a node can be when it is on no queue. *)
Elsewhere == {"freed", "worker", "io", "reaped"}

VARIABLES
  head, tail,  \* head[q], tail[q]: io_readQHead, io_readQTail, ...
  prev, next,  \* the fields of each node; stale once the node is freed
  pending,     \* pendingIOReads, pendingIOWrites, pendingIODone
  loc,         \* loc[n]: the queue n is on, or where else it is
  before,      \* history: the order of arrival on the queues
  missing,     \* history: getIODoneNode has failed to recognise a node
  phase,       \* one of Phases
  nodesFreed   \* the local counter of clearAnIOQueue

queueVars == <<head, tail, prev, next, pending, loc, before, missing, phase, nodesFreed>>

Members(q) == {n \in Nodes : loc[n] = q}

Forget(n) == {p \in before : p[1] # n /\ p[2] # n}

QueueInit ==
  /\ head = [q \in Queues |-> NULL]
  /\ tail = [q \in Queues |-> NULL]
  /\ prev = [n \in Nodes |-> NULL]
  /\ next = [n \in Nodes |-> NULL]
  /\ pending = [q \in Queues |-> 0]
  /\ loc = [n \in Nodes |-> "freed"]
  /\ before = {}
  /\ missing = FALSE
  /\ phase = "running"
  /\ nodesFreed = 0

(* A worker callocs a node: its fields are zero. *)
AllocNode(n) ==
  /\ phase = "running"
  /\ loc[n] = "freed"
  /\ loc' = [loc EXCEPT ![n] = "worker"]
  /\ prev' = [prev EXCEPT ![n] = NULL]
  /\ next' = [next EXCEPT ![n] = NULL]
  /\ UNCHANGED <<head, tail, pending, before, missing, phase, nodesFreed>>

-----------------------------------------------------------------------------
(* A mistake: the tail tells whether the queue is in use. *)
LinkTrustingTail(n, q) ==
  IF tail[q] # NULL
  THEN /\ prev' = [prev EXCEPT ![n] = tail[q]]
       /\ next' = [m \in Nodes |-> IF m = tail[q] THEN n
                                   ELSE IF m = n THEN NULL ELSE next[m]]
       /\ tail' = [tail EXCEPT ![q] = n]
       /\ UNCHANGED head
  ELSE /\ prev' = [prev EXCEPT ![n] = NULL]
       /\ next' = [next EXCEPT ![n] = NULL]
       /\ head' = [head EXCEPT ![q] = n]
       /\ tail' = [tail EXCEPT ![q] = n]

(* The insertion that queueIORead, queueIOWrite and queueIODone share.  The *)
(* tail is dereferenced only when the head says that the queue is in use;   *)
(* queueIODone also tests it against NULL.                                  *)
LinkAtTail(n, q) ==
  IF head[q] # NULL
  THEN /\ prev' = [prev EXCEPT ![n] = tail[q]]
       /\ next' = [m \in Nodes |-> IF m = tail[q] THEN n
                                   ELSE IF m = n THEN NULL ELSE next[m]]
       /\ tail' = [tail EXCEPT ![q] = n]
       /\ UNCHANGED head
  ELSE /\ prev' = [prev EXCEPT ![n] = NULL]
       /\ next' = [next EXCEPT ![n] = NULL]
       /\ head' = [head EXCEPT ![q] = n]
       /\ tail' = [tail EXCEPT ![q] = n]

Arrive(n, q) ==
  /\ LinkAtTail(n, q)
  /\ pending' = [pending EXCEPT ![q] = @ + 1]
  /\ loc' = [loc EXCEPT ![n] = q]
  /\ before' = before \cup (Members(q) \X {n})
  /\ UNCHANGED <<missing, phase, nodesFreed>>

queueIORead(n) == phase = "running" /\ loc[n] = "worker" /\ Arrive(n, "read")

queueIOWrite(n) == phase = "running" /\ loc[n] = "worker" /\ Arrive(n, "write")

queueIODone(n) == phase = "running" /\ loc[n] = "io" /\ Arrive(n, "done")

-----------------------------------------------------------------------------
(* Take the head node off; its successor, if any, becomes the head. *)
UnlinkHead(q) ==
  LET n == head[q] IN
  /\ head' = [head EXCEPT ![q] = next[n]]
  /\ prev' = [m \in Nodes |-> IF m = n \/ m = next[n] THEN NULL ELSE prev[m]]
  /\ next' = [next EXCEPT ![n] = NULL]
  /\ before' = Forget(n)

TakeForIO(q) ==
  /\ phase = "running"
  /\ head[q] # NULL
  /\ UnlinkHead(q)
  /\ pending' = [pending EXCEPT ![q] = @ - 1]
  /\ loc' = [loc EXCEPT ![head[q]] = "io"]
  /\ UNCHANGED <<missing, phase, nodesFreed>>

(* getIOReadNode clears the tail when the queue becomes empty ... *)
getIOReadNode ==
  /\ TakeForIO("read")
  /\ tail' = IF next[head["read"]] = NULL THEN [tail EXCEPT !["read"] = NULL] ELSE tail

(* ... getIOWriteNode leaves it pointing at the node that was taken off. *)
getIOWriteNode ==
  /\ TakeForIO("write")
  /\ UNCHANGED tail

(* The code's test that a node is on some list at all. *)
LooksLinked(n) == next[n] # NULL \/ prev[n] # NULL

LooksQueued(n) ==
  \/ next[n] # NULL
  \/ prev[n] # NULL
  \/ head["done"] = n /\ tail["done"] = n

(* Take node n out of the done queue, wherever it stands. *)
UnlinkDoneForgetsBack(n) ==
  /\ next' = [m \in Nodes |-> IF m = n THEN NULL
                              ELSE IF m = prev[n] THEN next[n] ELSE next[m]]
  /\ head' = IF prev[n] = NULL THEN [head EXCEPT !["done"] = next[n]] ELSE head
  /\ prev' = [prev EXCEPT ![n] = NULL]
  /\ tail' = IF next[n] = NULL THEN [tail EXCEPT !["done"] = prev[n]] ELSE tail

UnlinkDone(n) ==
  /\ next' = [m \in Nodes |-> IF m = n THEN NULL
                              ELSE IF m = prev[n] THEN next[n] ELSE next[m]]
  /\ head' = IF prev[n] = NULL THEN [head EXCEPT !["done"] = next[n]] ELSE head
  /\ prev' = [m \in Nodes |-> IF m = n THEN NULL
                              ELSE IF m = next[n] THEN prev[n] ELSE prev[m]]
  /\ tail' = IF next[n] = NULL THEN [tail EXCEPT !["done"] = prev[n]] ELSE tail

getIODoneNode(n) ==
  /\ phase = "running"
  /\ loc[n] = "done"
  /\ IF head["done"] # NULL /\ LooksQueued(n)
     THEN /\ UnlinkDone(n)
          /\ pending' = [pending EXCEPT !["done"] = @ - 1]
          /\ loc' = [loc EXCEPT ![n] = "reaped"]
          /\ before' = Forget(n)
          /\ UNCHANGED <<missing, phase, nodesFreed>>
     ELSE /\ missing' = TRUE
          /\ UNCHANGED <<head, tail, prev, next, pending, loc, before, phase, nodesFreed>>

FreeNode(n) ==
  /\ phase = "running"
  /\ loc[n] = "reaped"
  /\ loc' = [loc EXCEPT ![n] = "freed"]
  /\ UNCHANGED <<head, tail, prev, next, pending, before, missing, phase, nodesFreed>>

-----------------------------------------------------------------------------
(* EndPThreads has seen nThreads reach zero.  A thread finishes what it is  *)
(* doing with a node first, but a worker may leave one on a queue, or a node *)
(* that was refused.                                                        *)
AllThreadsEnded ==
  /\ phase = "running"
  /\ \A n \in Nodes : loc[n] \notin {"io", "reaped"}
  /\ phase' = "read"
  /\ UNCHANGED <<head, tail, prev, next, pending, loc, before, missing, nodesFreed>>

(* One turn of the loop of clearAnIOQueue: free the head node. *)
ClearNode(q) ==
  /\ phase = q
  /\ head[q] # NULL
  /\ UnlinkHead(q)
  /\ tail' = IF next[head[q]] = NULL THEN [tail EXCEPT ![q] = NULL] ELSE tail
  /\ loc' = [loc EXCEPT ![head[q]] = "freed"]
  /\ nodesFreed' = nodesFreed + 1
  /\ UNCHANGED <<pending, missing, phase>>

NextPhase(q) ==
  CASE q = "read" -> "write" [] q = "write" -> "done" [] q = "done" -> "over"

ClearEndTwice(q) ==
  /\ phase = q
  /\ head[q] = NULL
  /\ tail' = [tail EXCEPT ![q] = NULL]
  /\ pending' = [pending EXCEPT ![q] = @ - (nodesFreed + 1)]
  /\ nodesFreed' = 0
  /\ phase' = NextPhase(q)
  /\ UNCHANGED <<head, prev, next, loc, before, missing>>

(* The end of clearIOReadQ, clearIOWriteQ or clearIODoneQ. *)
ClearEnd(q) ==
  /\ phase = q
  /\ head[q] = NULL
  /\ tail' = [tail EXCEPT ![q] = NULL]
  /\ pending' = [pending EXCEPT ![q] = @ - nodesFreed]
  /\ nodesFreed' = 0
  /\ phase' = NextPhase(q)
  /\ UNCHANGED <<head, prev, next, loc, before, missing>>

QueueNext ==
  \/ \E n \in Nodes :
       \/ AllocNode(n) \/ queueIORead(n) \/ queueIOWrite(n) \/ queueIODone(n)
       \/ getIODoneNode(n) \/ FreeNode(n)
  \/ getIOReadNode \/ getIOWriteNode
  \/ AllThreadsEnded
  \/ \E q \in Queues : ClearNode(q) \/ ClearEnd(q)

QueueSpec == QueueInit /\ [][QueueNext]_queueVars

-----------------------------------------------------------------------------
QueueTypeOK ==
  /\ head \in [Queues -> Nodes \cup {NULL}]
  /\ tail \in [Queues -> Nodes \cup {NULL}]
  /\ prev \in [Nodes -> Nodes \cup {NULL}]
  /\ next \in [Nodes -> Nodes \cup {NULL}]
  /\ pending \in [Queues -> Nat]
  /\ loc \in [Nodes -> Queues \cup Elsewhere]
  /\ before \subseteq Nodes \X Nodes
  /\ missing \in BOOLEAN
  /\ phase \in Phases
  /\ nodesFreed \in Nat

(* before orders the members of each queue, and relates nothing else. *)
OrderOK ==
  /\ \A m, n \in Nodes :
       <<m, n>> \in before => loc[m] = loc[n] /\ loc[m] \in Queues
  /\ \A m, n \in Nodes : <<m, n>> \in before => <<n, m>> \notin before
  /\ \A k, m, n \in Nodes :
       <<k, m>> \in before /\ <<m, n>> \in before => <<k, n>> \in before
  /\ \A q \in Queues : \A m, n \in Members(q) :
       m # n => <<m, n>> \in before \/ <<n, m>> \in before

EndsOK(q) ==
  /\ head[q] = NULL <=> Members(q) = {}
  /\ head[q] # NULL =>
       /\ head[q] \in Members(q) /\ prev[head[q]] = NULL
       /\ tail[q] \in Members(q) /\ next[tail[q]] = NULL
       /\ \A m \in Members(q) : m # head[q] => <<head[q], m>> \in before
       /\ \A m \in Members(q) : m # tail[q] => <<m, tail[q]>> \in before

LinksOK(q) ==
  \A m \in Members(q) :
    /\ prev[m] = NULL => m = head[q]
    /\ next[m] = NULL => m = tail[q]
    /\ prev[m] # NULL => prev[m] \in Members(q) /\ next[prev[m]] = m
    /\ next[m] # NULL =>
         /\ next[m] \in Members(q) /\ prev[next[m]] = m
         /\ <<m, next[m]>> \in before
         /\ \A k \in Members(q) :
              <<m, k>> \in before => k = next[m] \/ <<next[m], k>> \in before

(* The pointers of each queue describe its members, in their order of       *)
(* arrival and in both directions, so that no operation of a queue follows *)
(* a pointer to a freed node or to a node of another queue.  The stale      *)
(* io_writeQTail that getIOWriteNode leaves behind is harmless because the *)
(* tail is trusted only while the head is not NULL.                        *)
WellLinked == OrderOK /\ \A q \in Queues : EndsOK(q) /\ LinksOK(q)

(* pendingIOReads, pendingIOWrites and pendingIODone, the counters that     *)
(* isReadQEmpty and its companions fall back on, count the nodes queued.    *)
PendingExact ==
  \A q \in Queues :
    pending[q] = Cardinality(Members(q)) + (IF phase = q THEN nodesFreed ELSE 0)

(* The test by which getIODoneNode recognises a queued node, next or prev   *)
(* set or the only node of the done queue, never fails for a node that is  *)
(* on the done queue; the worker would end the program if it did.          *)
DoneNodeFound == ~missing

(* The linked lists implement queues: nodes leave the read and the write    *)
(* queue in the order in which they came, only the done queue lets go of a  *)
(* node that is not its oldest, and no operation loses or moves another     *)
(* node.                                                                    *)
Fifo == INSTANCE FifoQueues WITH
  place <- [n \in Nodes |-> IF loc[n] \in Queues THEN loc[n] ELSE "out"],
  Pickable <- {"done"}, Outside <- "out"

FifoSpec == Fifo!Spec
=============================================================================
