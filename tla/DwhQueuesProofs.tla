-------------------------- MODULE DwhQueuesProofs ---------------------------
(***************************************************************************)
(* Proofs about DwhQueues, for every finite set of nodes.  QueueTypeOK,         *)
(* WellLinked and PendingExact together are inductive; DoneNodeFound and   *)
(* the refinement of FifoQueues follow from them.                          *)
(***************************************************************************)
EXTENDS DwhQueues, FiniteSetTheorems, TLAPS

LEMMA TypeInit == QueueInit => QueueTypeOK
<1>1. QueueInit => missing \in BOOLEAN
  BY Zenon DEF QueueInit
<1> QED BY <1>1 DEF QueueInit, QueueTypeOK, Queues, Elsewhere, Phases

LEMMA LinkTypes ==
  ASSUME QueueTypeOK, NEW n \in Nodes, NEW q \in Queues, LinkAtTail(n, q)
  PROVE  /\ head' \in [Queues -> Nodes \cup {NULL}]
         /\ tail' \in [Queues -> Nodes \cup {NULL}]
         /\ prev' \in [Nodes -> Nodes \cup {NULL}]
         /\ next' \in [Nodes -> Nodes \cup {NULL}]
BY DEF QueueTypeOK, LinkAtTail

LEMMA UnlinkTypes ==
  ASSUME QueueTypeOK, NEW q \in Queues, head[q] # NULL, UnlinkHead(q)
  PROVE  /\ head[q] \in Nodes
         /\ head' \in [Queues -> Nodes \cup {NULL}]
         /\ prev' \in [Nodes -> Nodes \cup {NULL}]
         /\ next' \in [Nodes -> Nodes \cup {NULL}]
         /\ before' \subseteq Nodes \X Nodes
BY DEF QueueTypeOK, UnlinkHead, Forget

(* A queue that has a head has members, so its counter is positive. *)
LEMMA PendingPositive ==
  ASSUME QueueTypeOK, PendingExact, WellLinked, NEW q \in Queues, NEW n \in Members(q)
  PROVE  pending[q] \in Nat \ {0}
<1>1. IsFiniteSet(Members(q))
  BY QueuesAssumption, FS_Subset, Members(q) \subseteq Nodes DEF Members
<1>2. Cardinality(Members(q)) \in Nat /\ Cardinality(Members(q)) # 0
  BY <1>1, FS_CardinalityType, FS_EmptySet
<1>3. pending[q] >= Cardinality(Members(q))
  BY <1>2 DEF PendingExact, QueueTypeOK
<1> QED BY <1>2, <1>3 DEF QueueTypeOK

LEMMA TypeStep ==
  ASSUME QueueTypeOK, WellLinked, PendingExact, QueueNext
  PROVE  QueueTypeOK'
<1>1. ASSUME NEW n \in Nodes, AllocNode(n) PROVE QueueTypeOK'
  BY <1>1 DEF AllocNode, QueueTypeOK, Elsewhere
<1>2. ASSUME NEW n \in Nodes, NEW q \in Queues, Arrive(n, q) PROVE QueueTypeOK'
  <2>1. before' \subseteq Nodes \X Nodes
    BY <1>2 DEF Arrive, QueueTypeOK, Members
  <2>2. pending' \in [Queues -> Nat] /\ loc' \in [Nodes -> Queues \cup Elsewhere]
    BY <1>2 DEF Arrive, QueueTypeOK
  <2> QED BY <1>2, <2>1, <2>2, LinkTypes DEF Arrive, QueueTypeOK
<1>3. ASSUME NEW n \in Nodes, getIODoneNode(n) PROVE QueueTypeOK'
  <2>1. CASE head["done"] # NULL /\ LooksQueued(n)
    <3>1. n \in Members("done") /\ "done" \in Queues
      BY <1>3 DEF getIODoneNode, Members, Queues
    <3>2. pending["done"] \in Nat \ {0}
      BY <3>1, PendingPositive
    <3>3. pending' \in [Queues -> Nat]
      BY <1>3, <2>1, <3>1, <3>2 DEF getIODoneNode, QueueTypeOK
    <3>4. /\ loc' \in [Nodes -> Queues \cup Elsewhere]
          /\ before' \subseteq Nodes \X Nodes
      BY <1>3, <2>1 DEF getIODoneNode, QueueTypeOK, Elsewhere, Forget
    <3>5. /\ head' \in [Queues -> Nodes \cup {NULL}]
          /\ tail' \in [Queues -> Nodes \cup {NULL}]
          /\ prev' \in [Nodes -> Nodes \cup {NULL}]
          /\ next' \in [Nodes -> Nodes \cup {NULL}]
      BY <1>3, <2>1, <3>1 DEF getIODoneNode, UnlinkDone, QueueTypeOK
    <3> QED BY <1>3, <2>1, <3>3, <3>4, <3>5 DEF getIODoneNode, QueueTypeOK
  <2>2. CASE ~(head["done"] # NULL /\ LooksQueued(n))
    BY <1>3, <2>2 DEF getIODoneNode, QueueTypeOK
  <2> QED BY <2>1, <2>2
<1>4. ASSUME NEW n \in Nodes, FreeNode(n) PROVE QueueTypeOK'
  BY <1>4 DEF FreeNode, QueueTypeOK, Elsewhere
<1>5. ASSUME NEW q \in Queues, TakeForIO(q),
             tail' \in [Queues -> Nodes \cup {NULL}]
      PROVE  QueueTypeOK'
  <2>1. head[q] \in Members(q)
    BY <1>5 DEF TakeForIO, WellLinked, EndsOK
  <2>2. pending' \in [Queues -> Nat]
    <3>1. pending[q] \in Nat \ {0}
      BY <2>1, PendingPositive
    <3>2. pending[q] - 1 \in Nat
      BY <3>1
    <3> QED BY <1>5, <3>2 DEF TakeForIO, QueueTypeOK
  <2>3. loc' \in [Nodes -> Queues \cup Elsewhere]
    BY <1>5 DEF TakeForIO, QueueTypeOK, Elsewhere
  <2> QED BY <1>5, <2>2, <2>3, UnlinkTypes DEF TakeForIO, QueueTypeOK
<1>6. CASE getIOReadNode
  <2>1. tail' \in [Queues -> Nodes \cup {NULL}] /\ "read" \in Queues
    BY <1>6 DEF getIOReadNode, QueueTypeOK, Queues
  <2> QED BY <1>6, <2>1, <1>5 DEF getIOReadNode
<1>7. CASE getIOWriteNode
  <2>1. tail' \in [Queues -> Nodes \cup {NULL}] /\ "write" \in Queues
    BY <1>7 DEF getIOWriteNode, QueueTypeOK, Queues
  <2> QED BY <1>7, <2>1, <1>5 DEF getIOWriteNode
<1>8. CASE AllThreadsEnded
  BY <1>8 DEF AllThreadsEnded, QueueTypeOK, Phases
<1>9. ASSUME NEW q \in Queues, ClearNode(q) PROVE QueueTypeOK'
  <2>1. /\ tail' \in [Queues -> Nodes \cup {NULL}]
        /\ loc' \in [Nodes -> Queues \cup Elsewhere]
        /\ nodesFreed' \in Nat
    BY <1>9 DEF ClearNode, QueueTypeOK, Elsewhere
  <2> QED BY <1>9, <2>1, UnlinkTypes DEF ClearNode, QueueTypeOK
<1>10. ASSUME NEW q \in Queues, ClearEnd(q) PROVE QueueTypeOK'
  <2>1. pending[q] - nodesFreed \in Nat
    <3>1. IsFiniteSet(Members(q))
      BY QueuesAssumption, FS_Subset, Members(q) \subseteq Nodes DEF Members
    <3>2. Cardinality(Members(q)) \in Nat
      BY <3>1, FS_CardinalityType
    <3> QED BY <1>10, <3>2 DEF ClearEnd, PendingExact, QueueTypeOK
  <2>2. pending' \in [Queues -> Nat] /\ tail' \in [Queues -> Nodes \cup {NULL}]
    BY <1>10, <2>1 DEF ClearEnd, QueueTypeOK
  <2>3. phase' \in Phases
    BY <1>10 DEF ClearEnd, NextPhase, Phases, Queues
  <2> QED BY <1>10, <2>2, <2>3 DEF ClearEnd, QueueTypeOK
<1>11. \A q \in {"read", "write", "done"} : q \in Queues
  BY DEF Queues
<1> QED BY <1>1, <1>2, <1>3, <1>4, <1>6, <1>7, <1>8, <1>9, <1>10, <1>11
        DEF QueueNext, queueIORead, queueIOWrite, queueIODone

-----------------------------------------------------------------------------
LEMMA WellLinkedInit == QueueInit => WellLinked
BY QueuesAssumption
   DEF QueueInit, WellLinked, OrderOK, EndsOK, LinksOK, Members, Queues

(* A step that touches neither pointers nor membership. *)
LEMMA WellLinkedFrame ==
  ASSUME QueueTypeOK, WellLinked,
         UNCHANGED <<head, prev, next, before>>,
         loc' \in [Nodes -> Queues \cup Elsewhere],
         \A m \in Nodes, q \in Queues : loc'[m] = q <=> loc[m] = q,
         \A q \in Queues : head[q] # NULL => tail'[q] = tail[q]
  PROVE  WellLinked'
<1>1. \A q \in Queues : Members(q)' = Members(q)
  BY DEF Members
<1>2. \A m \in Nodes : loc[m] \in Queues => loc'[m] = loc[m]
  OBVIOUS
<1>3. OrderOK'
  BY <1>1, <1>2 DEF WellLinked, OrderOK, QueueTypeOK
<1>4. ASSUME NEW q \in Queues PROVE EndsOK(q)' /\ LinksOK(q)'
  BY <1>1, <1>4 DEF WellLinked, EndsOK, LinksOK
<1> QED BY <1>3, <1>4 DEF WellLinked

LEMMA WellLinkedArrive ==
  ASSUME QueueTypeOK, WellLinked, NEW n \in Nodes, NEW q \in Queues,
         loc[n] \notin Queues, Arrive(n, q)
  PROVE  WellLinked'
<1> USE QueuesAssumption
<1>1. /\ Members(q)' = Members(q) \cup {n} /\ n \notin Members(q)
      /\ \A r \in Queues \ {q} : Members(r)' = Members(r) /\ n \notin Members(r)
  BY DEF Members, Arrive, QueueTypeOK
<1>2. \A k, m \in Nodes :
        <<k, m>> \in before' <=> <<k, m>> \in before \/ (k \in Members(q) /\ m = n)
  BY DEF Arrive
<1>3. \A k \in Nodes : <<k, n>> \notin before /\ <<n, k>> \notin before
  BY DEF WellLinked, OrderOK
<1>4. \A m \in Nodes : loc'[m] = IF m = n THEN q ELSE loc[m]
  BY DEF Arrive, QueueTypeOK
<1>5. OrderOK'
  <2>1. \A k, m \in Nodes : <<k, m>> \in before' => loc'[k] = loc'[m] /\ loc'[k] \in Queues
    BY <1>1, <1>2, <1>3, <1>4 DEF WellLinked, OrderOK, Members
  <2>2. \A k, m \in Nodes : <<k, m>> \in before' => <<m, k>> \notin before'
    BY <1>1, <1>2, <1>3 DEF WellLinked, OrderOK
  <2>3. \A j, k, m \in Nodes :
          <<j, k>> \in before' /\ <<k, m>> \in before' => <<j, m>> \in before'
    BY <1>1, <1>2, <1>3 DEF WellLinked, OrderOK, Members
  <2>4. \A r \in Queues : \A k, m \in Members(r)' :
          k # m => <<k, m>> \in before' \/ <<m, k>> \in before'
    <3>1. ASSUME NEW r \in Queues \ {q}, NEW k \in Members(r), NEW m \in Members(r), k # m
          PROVE  <<k, m>> \in before' \/ <<m, k>> \in before'
      BY <1>2, <3>1 DEF WellLinked, OrderOK, Members
    <3>2. ASSUME NEW k \in Members(q) \cup {n}, NEW m \in Members(q) \cup {n}, k # m
          PROVE  <<k, m>> \in before' \/ <<m, k>> \in before'
      BY <1>2, <3>2 DEF WellLinked, OrderOK, Members
    <3> QED BY <1>1, <3>1, <3>2
  <2> QED BY <2>1, <2>2, <2>3, <2>4 DEF OrderOK
<1>6. ASSUME NEW r \in Queues \ {q} PROVE EndsOK(r)' /\ LinksOK(r)'
  <2>1. head'[r] = head[r] /\ tail'[r] = tail[r]
    BY <1>6 DEF Arrive, LinkAtTail, QueueTypeOK
  <2>2. \A m \in Members(r) : prev'[m] = prev[m] /\ next'[m] = next[m]
    BY <1>1, <1>6 DEF Arrive, LinkAtTail, QueueTypeOK, Members, WellLinked, EndsOK
  <2>3. \A k, m \in Members(r) : <<k, m>> \in before' <=> <<k, m>> \in before
    BY <1>1, <1>2, <1>6 DEF Members
  <2>4. EndsOK(r) /\ LinksOK(r)
    BY DEF WellLinked
  <2> QED BY <1>1, <1>6, <2>1, <2>2, <2>3, <2>4 DEF EndsOK, LinksOK
<1>7. EndsOK(q)' /\ LinksOK(q)'
  <2>1. EndsOK(q) /\ LinksOK(q)
    BY DEF WellLinked
  <2>2. CASE head[q] = NULL
    <3>1. /\ head'[q] = n /\ tail'[q] = n /\ Members(q)' = {n}
          /\ prev'[n] = NULL /\ next'[n] = NULL
      BY <1>1, <2>1, <2>2 DEF Arrive, LinkAtTail, QueueTypeOK, EndsOK
    <3> QED BY <3>1 DEF EndsOK, LinksOK
  <2>3. CASE head[q] # NULL
    <3>1. /\ head' = head /\ tail'[q] = n
          /\ \A m \in Nodes : prev'[m] = IF m = n THEN tail[q] ELSE prev[m]
          /\ \A m \in Nodes : next'[m] = IF m = tail[q] THEN n
                                         ELSE IF m = n THEN NULL ELSE next[m]
      BY <2>3 DEF Arrive, LinkAtTail, QueueTypeOK
    <3>2. EndsOK(q)'
      BY <1>1, <1>2, <2>1, <2>3, <3>1 DEF EndsOK, Members
    <3>3. \A m \in Members(q) : m # tail[q] => <<m, tail[q]>> \in before
      BY <2>1, <2>3 DEF EndsOK
    <3>4. ASSUME NEW m \in Members(q)'
          PROVE  /\ prev'[m] = NULL => m = head'[q]
                 /\ next'[m] = NULL => m = tail'[q]
                 /\ prev'[m] # NULL => prev'[m] \in Members(q)' /\ next'[prev'[m]] = m
                 /\ next'[m] # NULL => next'[m] \in Members(q)' /\ prev'[next'[m]] = m
      <4>1. tail[q] \in Members(q) /\ next[tail[q]] = NULL /\ head[q] \in Members(q)
        BY <2>1, <2>3 DEF EndsOK
      <4>0. Members(q) \subseteq Nodes
        BY DEF Members
      <4>2. CASE m = n
        BY <1>1, <3>1, <4>0, <4>1, <4>2
      <4>5. ASSUME m # n
            PROVE  /\ m \in Members(q) /\ m \in Nodes /\ m # NULL
                   /\ prev[m] = NULL => m = head[q]
                   /\ next[m] = NULL => m = tail[q]
                   /\ prev[m] # NULL => /\ prev[m] \in Members(q) /\ prev[m] \in Nodes
                                        /\ next[prev[m]] = m /\ prev[m] # n
                                        /\ prev[m] # tail[q]
                   /\ next[m] # NULL => /\ next[m] \in Members(q) /\ next[m] \in Nodes
                                        /\ prev[next[m]] = m /\ next[m] # n
        <5>1. m \in Members(q) /\ m \in Nodes /\ m # NULL
          BY <1>1, <4>0, <4>5
        <5> QED BY <1>1, <2>1, <4>0, <4>1, <5>1 DEF LinksOK
      <4>3. CASE m = tail[q]
        BY <1>1, <3>1, <4>0, <4>1, <4>3, <4>5
      <4>4. CASE m # n /\ m # tail[q]
        BY <1>1, <3>1, <4>1, <4>4, <4>5
      <4> QED BY <4>2, <4>3, <4>4
    <3>5. ASSUME NEW m \in Members(q)', next'[m] # NULL
          PROVE  /\ <<m, next'[m]>> \in before'
                 /\ \A k \in Members(q)' :
                      <<m, k>> \in before' => k = next'[m] \/ <<next'[m], k>> \in before'
      <4>1. CASE m = tail[q]
        <5>1. \A k \in Members(q) : <<m, k>> \notin before
          BY <2>1, <2>3, <4>1, <3>3 DEF WellLinked, OrderOK, EndsOK, Members
        <5> QED BY <1>1, <1>2, <2>1, <2>3, <3>1, <4>1, <5>1 DEF EndsOK, Members
      <4>2. CASE m # tail[q]
        BY <1>1, <1>2, <1>3, <2>1, <2>3, <3>1, <3>5, <4>2 DEF EndsOK, LinksOK, Members
      <4> QED BY <4>1, <4>2
    <3> QED BY <3>2, <3>4, <3>5 DEF LinksOK
  <2> QED BY <2>2, <2>3
<1> QED BY <1>5, <1>6, <1>7 DEF WellLinked

(* The effect of taking node n out of queue q, at its head or elsewhere. *)
Removed(n, q) ==
  /\ \A m \in Nodes : next'[m] = IF m = n THEN NULL
                                 ELSE IF m = prev[n] THEN next[n] ELSE next[m]
  /\ \A m \in Nodes : prev'[m] = IF m = n THEN NULL
                                 ELSE IF m = next[n] THEN prev[n] ELSE prev[m]
  /\ \A r \in Queues : head'[r] = IF r = q /\ prev[n] = NULL THEN next[n] ELSE head[r]
  /\ \A r \in Queues : r # q => tail'[r] = tail[r]
  /\ head'[q] # NULL => tail'[q] = IF next[n] = NULL THEN prev[n] ELSE tail[q]
  /\ \A m \in Nodes : m # n => loc'[m] = loc[m]
  /\ loc'[n] \notin Queues
  /\ before' = Forget(n)

LEMMA WellLinkedRemove ==
  ASSUME QueueTypeOK, WellLinked, NEW q \in Queues, NEW n \in Members(q), Removed(n, q)
  PROVE  WellLinked'
<1> USE QueuesAssumption
<1>0. n \in Nodes /\ n # NULL /\ \A r \in Queues : Members(r) \subseteq Nodes
  BY DEF Members
<1>1. /\ Members(q)' = Members(q) \ {n}
      /\ \A r \in Queues \ {q} : Members(r)' = Members(r) /\ n \notin Members(r)
  BY <1>0 DEF Members, Removed
<1>2. \A k, m \in Nodes :
        <<k, m>> \in before' <=> <<k, m>> \in before /\ k # n /\ m # n
  BY DEF Removed, Forget
<1>3. OrderOK'
  <2>1. \A k, m \in Nodes : <<k, m>> \in before' => loc'[k] = loc'[m] /\ loc'[k] \in Queues
    BY <1>2 DEF WellLinked, OrderOK, Removed
  <2>2. \A k, m \in Nodes : <<k, m>> \in before' => <<m, k>> \notin before'
    BY <1>2 DEF WellLinked, OrderOK
  <2>3. \A j, k, m \in Nodes :
          <<j, k>> \in before' /\ <<k, m>> \in before' => <<j, m>> \in before'
    BY <1>2 DEF WellLinked, OrderOK
  <2>4. \A r \in Queues : \A k, m \in Members(r)' :
          k # m => <<k, m>> \in before' \/ <<m, k>> \in before'
    <3>1. \A r \in Queues : Members(r)' \subseteq Members(r) \ {n}
      BY <1>1
    <3> QED BY <1>0, <1>2, <3>1 DEF WellLinked, OrderOK
  <2> QED BY <2>1, <2>2, <2>3, <2>4 DEF OrderOK
<1>4. EndsOK(q) /\ LinksOK(q)
  BY DEF WellLinked
<1>5. /\ prev[n] # NULL => prev[n] \in Members(q) /\ next[prev[n]] = n /\ prev[n] # n
      /\ next[n] # NULL => next[n] \in Members(q) /\ prev[next[n]] = n /\ next[n] # n
      /\ head[q] \in Members(q) /\ tail[q] \in Members(q)
      /\ prev[head[q]] = NULL /\ next[tail[q]] = NULL
      /\ prev[n] = NULL <=> n = head[q]
      /\ next[n] = NULL <=> n = tail[q]
  <2>1. head[q] # NULL
    BY <1>4 DEF EndsOK
  <2>2. /\ head[q] \in Members(q) /\ tail[q] \in Members(q)
        /\ prev[head[q]] = NULL /\ next[tail[q]] = NULL
    BY <1>4, <2>1 DEF EndsOK
  <2>3. \A m \in Nodes : <<m, m>> \notin before
    BY DEF WellLinked, OrderOK
  <2>4. /\ prev[n] # NULL => /\ prev[n] \in Members(q) /\ next[prev[n]] = n
                             /\ <<prev[n], n>> \in before
        /\ next[n] # NULL => /\ next[n] \in Members(q) /\ prev[next[n]] = n
                             /\ <<n, next[n]>> \in before
        /\ prev[n] = NULL => n = head[q]
        /\ next[n] = NULL => n = tail[q]
    BY <1>0, <1>4 DEF LinksOK
  <2> QED BY <1>0, <2>2, <2>3, <2>4
<1>6. ASSUME NEW r \in Queues \ {q} PROVE EndsOK(r)' /\ LinksOK(r)'
  <2>1. head'[r] = head[r] /\ tail'[r] = tail[r]
    BY <1>6 DEF Removed
  <2>2. \A m \in Members(r) : m # n /\ m \notin Members(q)
    BY <1>1 DEF Members
  <2>3. \A m \in Members(r) : prev'[m] = prev[m] /\ next'[m] = next[m]
    BY <1>0, <1>5, <2>2 DEF Removed
  <2>4. \A k, m \in Members(r) : <<k, m>> \in before' <=> <<k, m>> \in before
    BY <1>0, <1>2, <2>2
  <2>5. EndsOK(r) /\ LinksOK(r)
    BY DEF WellLinked
  <2> QED BY <1>1, <1>6, <2>1, <2>3, <2>4, <2>5 DEF EndsOK, LinksOK
<1>7. head'[q] = IF prev[n] = NULL THEN next[n] ELSE head[q]
  BY DEF Removed
<1>8. EndsOK(q)'
  <2>1. CASE next[n] = NULL /\ prev[n] = NULL
    <3>1. Members(q) = {n}
      <4>1. \A m \in Members(q) : m # n => <<n, m>> \in before /\ <<m, n>> \in before
        BY <1>0, <1>4, <1>5, <2>1 DEF EndsOK
      <4> QED BY <1>0, <4>1 DEF WellLinked, OrderOK
    <3> QED BY <1>1, <1>7, <2>1, <3>1 DEF EndsOK
  <2>2. CASE next[n] # NULL /\ prev[n] = NULL
    <3>1. /\ head'[q] = next[n] /\ tail'[q] = tail[q] /\ next[n] \in Members(q)'
          /\ tail[q] \in Members(q)'
      BY <1>0, <1>1, <1>5, <1>7, <2>2 DEF Removed
    <3>2. prev'[next[n]] = NULL /\ next'[tail[q]] = NULL
      BY <1>0, <1>5, <2>2 DEF Removed
    <3>3. \A m \in Members(q)' : m # next[n] => <<next[n], m>> \in before'
      <4>1. \A m \in Members(q) : m # n => <<n, m>> \in before
        BY <1>0, <1>4, <1>5, <2>2 DEF EndsOK
      <4> QED BY <1>0, <1>1, <1>2, <1>4, <1>5, <2>2, <4>1 DEF LinksOK
    <3>4. \A m \in Members(q)' : m # tail[q] => <<m, tail[q]>> \in before'
      BY <1>0, <1>1, <1>2, <1>4, <1>5, <2>2, <3>1 DEF EndsOK
    <3>5. head'[q] # NULL /\ Members(q)' # {}
      BY <1>0, <1>5, <2>2, <3>1
    <3> QED BY <3>1, <3>2, <3>3, <3>4, <3>5 DEF EndsOK
  <2>3. CASE prev[n] # NULL
    <3>1. /\ head'[q] = head[q] /\ head[q] # n /\ head[q] # NULL
          /\ head[q] \in Members(q)' /\ prev'[head[q]] = NULL
      BY <1>0, <1>1, <1>5, <1>7, <2>3 DEF Removed
    <3>2. /\ tail'[q] = IF next[n] = NULL THEN prev[n] ELSE tail[q]
          /\ tail'[q] \in Members(q)' /\ next'[tail'[q]] = NULL
      <4>1. tail'[q] = IF next[n] = NULL THEN prev[n] ELSE tail[q]
        BY <3>1 DEF Removed
      <4> QED BY <1>0, <1>1, <1>5, <2>3, <4>1 DEF Removed
    <3>3. \A m \in Members(q)' : m # head[q] => <<head[q], m>> \in before'
      BY <1>0, <1>1, <1>2, <1>4, <1>5, <3>1 DEF EndsOK
    <3>4. \A m \in Members(q)' : m # tail'[q] => <<m, tail'[q]>> \in before'
      <4>1. CASE next[n] # NULL
        BY <1>0, <1>1, <1>2, <1>4, <1>5, <3>1, <3>2, <4>1 DEF EndsOK
      <4>2. CASE next[n] = NULL
        <5>1. ASSUME NEW m \in Members(q), m # n, m # prev[n]
              PROVE  <<m, prev[n]>> \in before
          <6>1. <<m, n>> \in before
            BY <1>0, <1>4, <1>5, <4>2, <5>1 DEF EndsOK
          <6>2. CASE <<prev[n], m>> \in before
            <7>1. m = n \/ <<n, m>> \in before
              BY <1>4, <1>5, <2>3, <6>2, <1>0 DEF LinksOK
            <7> QED BY <1>0, <5>1, <6>1, <7>1 DEF WellLinked, OrderOK
          <6>3. CASE <<prev[n], m>> \notin before
            BY <1>0, <1>5, <2>3, <5>1, <6>3 DEF WellLinked, OrderOK
          <6> QED BY <6>2, <6>3
        <5> QED BY <1>0, <1>1, <1>2, <1>5, <2>3, <3>2, <4>2, <5>1
      <4> QED BY <4>1, <4>2
    <3>5. Members(q)' # {}
      BY <3>1
    <3> QED BY <3>1, <3>2, <3>3, <3>4, <3>5 DEF EndsOK
  <2> QED BY <2>1, <2>2, <2>3
<1>9. ASSUME NEW m \in Members(q)'
      PROVE  /\ prev'[m] = NULL => m = head'[q]
             /\ next'[m] = NULL => m = tail'[q]
             /\ prev'[m] # NULL => prev'[m] \in Members(q)' /\ next'[prev'[m]] = m
             /\ next'[m] # NULL =>
                  /\ next'[m] \in Members(q)' /\ prev'[next'[m]] = m
                  /\ <<m, next'[m]>> \in before'
                  /\ \A k \in Members(q)' :
                       <<m, k>> \in before' => k = next'[m] \/ <<next'[m], k>> \in before'
  <2>1. m \in Members(q) /\ m # n /\ m \in Nodes /\ m # NULL
    BY <1>0, <1>1
  <2>2. /\ prev[m] = NULL => m = head[q]
        /\ next[m] = NULL => m = tail[q]
        /\ prev[m] # NULL => prev[m] \in Members(q) /\ next[prev[m]] = m
        /\ next[m] # NULL =>
              /\ next[m] \in Members(q) /\ prev[next[m]] = m
              /\ <<m, next[m]>> \in before
              /\ \A k \in Members(q) :
                   <<m, k>> \in before => k = next[m] \/ <<next[m], k>> \in before
    BY <1>4, <2>1 DEF LinksOK
  <2>3. /\ next'[m] = IF m = prev[n] THEN next[n] ELSE next[m]
        /\ prev'[m] = IF m = next[n] THEN prev[n] ELSE prev[m]
    BY <2>1 DEF Removed
  <2>4. prev'[m] = NULL => m = head'[q]
    BY <1>5, <1>7, <2>1, <2>2, <2>3
  <2>5. next'[m] = NULL => m = tail'[q]
    <3>1. head'[q] # NULL
      BY <1>8, <1>9 DEF EndsOK
    <3>2. tail'[q] = IF next[n] = NULL THEN prev[n] ELSE tail[q]
      BY <3>1 DEF Removed
    <3> QED BY <1>5, <2>1, <2>2, <2>3, <3>2
  <2>6. prev'[m] # NULL => prev'[m] \in Members(q)' /\ next'[prev'[m]] = m
    <3>1. CASE m = next[n]
      BY <1>0, <1>1, <1>5, <2>1, <2>3, <3>1 DEF Removed
    <3>2. CASE m # next[n]
      BY <1>0, <1>1, <1>5, <2>1, <2>2, <2>3, <3>2 DEF Removed
    <3> QED BY <3>1, <3>2
  <2>7. next'[m] # NULL => next'[m] \in Members(q)' /\ prev'[next'[m]] = m
    <3>1. CASE m = prev[n]
      BY <1>0, <1>1, <1>5, <2>1, <2>3, <3>1 DEF Removed
    <3>2. CASE m # prev[n]
      BY <1>0, <1>1, <1>5, <2>1, <2>2, <2>3, <3>2 DEF Removed
    <3> QED BY <3>1, <3>2
  <2>8. ASSUME next'[m] # NULL
        PROVE  /\ <<m, next'[m]>> \in before'
               /\ \A k \in Members(q)' :
                    <<m, k>> \in before' => k = next'[m] \/ <<next'[m], k>> \in before'
    <3>1. CASE m = prev[n]
      <4>1. <<m, n>> \in before /\ <<n, next[n]>> \in before /\ next[n] \in Members(q)
        BY <1>0, <1>4, <1>5, <2>2, <2>3, <2>8, <3>1, <2>1 DEF LinksOK
      <4>2. <<m, next[n]>> \in before
        BY <1>0, <2>1, <4>1 DEF WellLinked, OrderOK
      <4>3. \A k \in Members(q) : <<m, k>> \in before => k = n \/ <<n, k>> \in before
        BY <1>0, <1>5, <2>1, <2>2, <3>1
      <4>4. \A k \in Members(q) : <<n, k>> \in before => k = next[n] \/ <<next[n], k>> \in before
        BY <1>4, <2>3, <2>8, <3>1 DEF LinksOK
      <4> QED BY <1>0, <1>1, <1>2, <1>5, <2>1, <2>3, <2>8, <3>1, <4>1, <4>2, <4>3, <4>4
    <3>2. CASE m # prev[n]
      <4>1. next'[m] = next[m] /\ next[m] # NULL /\ next[m] # n
        BY <1>5, <2>1, <2>2, <2>3, <2>8, <3>2
      <4> QED BY <1>0, <1>1, <1>2, <2>1, <2>2, <4>1
    <3> QED BY <3>1, <3>2
  <2> QED BY <2>4, <2>5, <2>6, <2>7, <2>8
<1>10. LinksOK(q)'
  BY <1>9 DEF LinksOK
<1> QED BY <1>3, <1>6, <1>8, <1>10 DEF WellLinked

-----------------------------------------------------------------------------
(* The steps that take a node off a queue do so by Removed. *)
LEMMA UnlinkHeadRemoves ==
  ASSUME QueueTypeOK, WellLinked, NEW q \in Queues, head[q] # NULL, UnlinkHead(q),
         NEW x, x \notin Queues, loc' = [loc EXCEPT ![head[q]] = x],
         \/ tail' = IF next[head[q]] = NULL THEN [tail EXCEPT ![q] = NULL] ELSE tail
         \/ tail' = tail
  PROVE  head[q] \in Members(q) /\ Removed(head[q], q)
<1>1. head[q] \in Members(q) /\ prev[head[q]] = NULL /\ head[q] \in Nodes
  BY DEF WellLinked, EndsOK, Members
<1>2. \A m \in Nodes : next[m] # head[q] \/ head[q] = NULL \/ m # prev[head[q]]
  BY <1>1, QueuesAssumption
<1>3. /\ \A m \in Nodes : m # head[q] => loc'[m] = loc[m]
      /\ loc'[head[q]] \notin Queues
  BY <1>1 DEF QueueTypeOK
<1>4. /\ \A m \in Nodes : next'[m] = IF m = head[q] THEN NULL ELSE next[m]
      /\ \A m \in Nodes : prev'[m] = IF m = head[q] \/ m = next[head[q]] THEN NULL ELSE prev[m]
      /\ \A r \in Queues : head'[r] = IF r = q THEN next[head[q]] ELSE head[r]
      /\ before' = Forget(head[q])
  BY <1>1 DEF UnlinkHead, QueueTypeOK
<1>5. \A m \in Nodes : m # NULL
  BY QueuesAssumption
<1>6. /\ \A r \in Queues : r # q => tail'[r] = tail[r]
      /\ head'[q] # NULL => tail'[q] = tail[q]
  BY <1>4 DEF QueueTypeOK
<1> QED BY <1>1, <1>3, <1>4, <1>5, <1>6 DEF Removed

LEMMA UnlinkDoneRemoves ==
  ASSUME QueueTypeOK, WellLinked, NEW n \in Nodes, loc[n] = "done", UnlinkDone(n),
         loc' = [loc EXCEPT ![n] = "reaped"], before' = Forget(n)
  PROVE  n \in Members("done") /\ Removed(n, "done")
<1>1. "done" \in Queues /\ "reaped" \notin Queues
  BY DEF Queues
<1>2. n \in Members("done")
  BY DEF Members
<1> QED BY <1>1, <1>2 DEF UnlinkDone, Removed, QueueTypeOK

(* One more node on q, or one fewer, and the other queues as they were. *)
LEMMA CountArrive ==
  ASSUME QueueTypeOK, NEW n \in Nodes, NEW q \in Queues, loc[n] \notin Queues, Arrive(n, q)
  PROVE  /\ Cardinality(Members(q)') = Cardinality(Members(q)) + 1
         /\ \A r \in Queues \ {q} : Members(r)' = Members(r)
         /\ Cardinality(Members(q)) \in Nat
<1>1. Members(q)' = Members(q) \cup {n} /\ n \notin Members(q)
  BY DEF Members, Arrive, QueueTypeOK
<1>2. \A r \in Queues \ {q} : Members(r)' = Members(r)
  BY DEF Members, Arrive, QueueTypeOK
<1>3. IsFiniteSet(Members(q))
  BY QueuesAssumption, FS_Subset, Members(q) \subseteq Nodes DEF Members
<1> QED BY <1>1, <1>2, <1>3, FS_AddElement, FS_CardinalityType

LEMMA CountRemove ==
  ASSUME QueueTypeOK, NEW q \in Queues, NEW n \in Members(q), Removed(n, q)
  PROVE  /\ Cardinality(Members(q)') = Cardinality(Members(q)) - 1
         /\ \A r \in Queues \ {q} : Members(r)' = Members(r)
         /\ Cardinality(Members(q)) \in Nat
<1>1. n \in Nodes
  BY DEF Members
<1>2. Members(q)' = Members(q) \ {n}
  BY <1>1 DEF Members, Removed
<1>3. \A r \in Queues \ {q} : Members(r)' = Members(r)
  BY <1>1 DEF Members, Removed
<1>4. IsFiniteSet(Members(q))
  BY QueuesAssumption, FS_Subset, Members(q) \subseteq Nodes DEF Members
<1> QED BY <1>2, <1>3, <1>4, FS_RemoveElement, FS_CardinalityType

-----------------------------------------------------------------------------
(* The local counter of clearAnIOQueue is zero outside its loop. *)
FreedReset == phase = "running" => nodesFreed = 0

QueueInv == QueueTypeOK /\ WellLinked /\ PendingExact /\ DoneNodeFound /\ FreedReset

LEMMA InvInit == QueueInit => QueueInv
<1> SUFFICES ASSUME QueueInit PROVE QueueInv
  OBVIOUS
<1>1. \A q \in Queues : Members(q) = {}
  BY DEF QueueInit, Members, Queues
<1>2. PendingExact
  BY <1>1, FS_EmptySet DEF PendingExact, QueueInit, Queues
<1>3. DoneNodeFound
  BY Zenon DEF QueueInit, DoneNodeFound
<1>4. FreedReset
  BY DEF QueueInit, FreedReset
<1> QED BY <1>2, <1>3, <1>4, TypeInit, WellLinkedInit DEF QueueInv

(* A node on the done queue is recognised as being on a list. *)
LEMMA DoneRecognised ==
  ASSUME QueueTypeOK, WellLinked, NEW n \in Members("done")
  PROVE  head["done"] # NULL /\ LooksQueued(n)
<1>1. EndsOK("done") /\ LinksOK("done")
  BY DEF WellLinked, Queues
<1> QED BY <1>1 DEF EndsOK, LinksOK, LooksQueued

LEMMA InvStep ==
  ASSUME QueueInv, [QueueNext]_queueVars
  PROVE  QueueInv'
<1> USE DEF QueueInv
<1>s. CASE UNCHANGED queueVars
  BY <1>s DEF queueVars, QueueTypeOK, WellLinked, OrderOK, EndsOK, LinksOK, Members,
              PendingExact, DoneNodeFound, FreedReset
<1>t. CASE QueueNext
  <2>0. QueueTypeOK'
    BY <1>t, TypeStep
  <2>r. FreedReset'
    BY <1>t DEF QueueNext, FreedReset, AllocNode, queueIORead, queueIOWrite, queueIODone,
      Arrive, getIODoneNode, FreeNode, getIOReadNode, getIOWriteNode, TakeForIO,
      AllThreadsEnded, ClearNode, ClearEnd, Queues
  <2>f. ASSUME UNCHANGED <<head, tail, prev, next, pending, before, missing, nodesFreed>>,
               \A m \in Nodes, q \in Queues : loc'[m] = q <=> loc[m] = q,
               phase' = phase \/ nodesFreed = 0
        PROVE  WellLinked' /\ PendingExact' /\ DoneNodeFound'
    <3>1. WellLinked'
      BY <2>0, <2>f, WellLinkedFrame DEF QueueTypeOK
    <3>2. \A q \in Queues : Members(q)' = Members(q)
      BY <2>f DEF Members
    <3>3. PendingExact'
      <4>1. CASE phase' = phase
        BY <2>f, <3>2, <4>1 DEF PendingExact
      <4>2. CASE nodesFreed = 0
        BY <2>f, <3>2, <4>2 DEF PendingExact
      <4> QED BY <2>f, <4>1, <4>2
    <3>4. DoneNodeFound'
      BY <2>f DEF DoneNodeFound
    <3> QED BY <3>1, <3>3, <3>4
  <2>a. ASSUME NEW n \in Nodes, NEW q \in Queues, loc[n] \notin Queues, Arrive(n, q)
        PROVE  WellLinked' /\ PendingExact' /\ DoneNodeFound'
    <3>1. WellLinked'
      BY <2>a, WellLinkedArrive
    <3>2. PendingExact'
      <4>1. /\ pending' = [pending EXCEPT ![q] = @ + 1]
            /\ phase' = phase /\ nodesFreed' = nodesFreed
        BY <2>a DEF Arrive
      <4>2. /\ Cardinality(Members(q)') = Cardinality(Members(q)) + 1
            /\ \A r \in Queues \ {q} : Members(r)' = Members(r)
            /\ Cardinality(Members(q)) \in Nat
        BY <2>a, CountArrive
      <4>3. ASSUME NEW r \in Queues
            PROVE  pending'[r] = Cardinality(Members(r)')
                                   + (IF phase' = r THEN nodesFreed' ELSE 0)
        BY <4>1, <4>2 DEF PendingExact, QueueTypeOK
      <4> QED BY <4>3 DEF PendingExact
    <3>3. DoneNodeFound'
      BY <2>a DEF Arrive, DoneNodeFound
    <3> QED BY <3>1, <3>2, <3>3
  <2>1. ASSUME NEW n \in Nodes, queueIORead(n) \/ queueIOWrite(n) \/ queueIODone(n)
        PROVE  QueueInv'
    BY <2>0, <2>r, <2>1, <2>a DEF queueIORead, queueIOWrite, queueIODone, Queues
  <2>2. ASSUME NEW n \in Nodes, AllocNode(n) PROVE QueueInv'
    <3>1. UNCHANGED <<head, tail, pending, before, missing, nodesFreed, phase>>
      BY <2>2 DEF AllocNode
    <3>2. \A m \in Nodes, q \in Queues : loc'[m] = q <=> loc[m] = q
      BY <2>2 DEF AllocNode, QueueTypeOK, Queues
    <3>3. \A q \in Queues : Members(q)' = Members(q) /\ n \notin Members(q)
      BY <2>2, <3>2 DEF Members, AllocNode, Queues
    <3>4. \A m \in Nodes : m # n => prev'[m] = prev[m] /\ next'[m] = next[m]
      BY <2>2 DEF AllocNode, QueueTypeOK
    <3>5. OrderOK'
      <4>1. \A m \in Nodes : loc[m] \in Queues => loc'[m] = loc[m]
        BY <3>2
      <4> QED BY <3>1, <3>3, <4>1 DEF WellLinked, OrderOK
    <3>6. ASSUME NEW q \in Queues PROVE EndsOK(q)' /\ LinksOK(q)'
      <4>1. EndsOK(q) /\ LinksOK(q)
        BY DEF WellLinked
      <4>2. \A m \in Members(q) : prev'[m] = prev[m] /\ next'[m] = next[m]
        BY <3>3, <3>4 DEF Members
      <4> QED BY <3>1, <3>3, <4>1, <4>2 DEF EndsOK, LinksOK
    <3>7. PendingExact'
      BY <3>1, <3>3 DEF PendingExact
    <3>8. DoneNodeFound'
      BY <3>1 DEF DoneNodeFound
    <3> QED BY <2>0, <2>r, <3>5, <3>6, <3>7, <3>8 DEF WellLinked
  <2>3. ASSUME NEW n \in Nodes, FreeNode(n) PROVE QueueInv'
    <3>1. \A m \in Nodes, q \in Queues : loc'[m] = q <=> loc[m] = q
      BY <2>3 DEF FreeNode, QueueTypeOK, Queues
    <3> QED BY <2>0, <2>r, <2>3, <2>f, <3>1 DEF FreeNode
  <2>4. ASSUME NEW n \in Nodes, getIODoneNode(n) PROVE QueueInv'
    <3>1. n \in Members("done") /\ "done" \in Queues /\ phase = "running"
      BY <2>4 DEF getIODoneNode, Members, Queues
    <3>2. /\ UnlinkDone(n) /\ before' = Forget(n)
          /\ loc' = [loc EXCEPT ![n] = "reaped"]
          /\ pending' = [pending EXCEPT !["done"] = @ - 1]
          /\ UNCHANGED <<missing, phase, nodesFreed>>
      BY <2>4, <3>1, DoneRecognised DEF getIODoneNode
    <3>3. loc[n] = "done"
      BY <2>4 DEF getIODoneNode
    <3>4. Removed(n, "done")
      BY <3>2, <3>3, UnlinkDoneRemoves
    <3>5. WellLinked'
      BY <3>1, <3>4, WellLinkedRemove
    <3>6. PendingExact'
      BY <3>1, <3>2, <3>4, CountRemove DEF PendingExact, QueueTypeOK, Queues
    <3>7. DoneNodeFound'
      BY <3>2 DEF DoneNodeFound
    <3> QED BY <2>0, <2>r, <3>5, <3>6, <3>7
  <2>5. ASSUME NEW q \in Queues, TakeForIO(q),
               \/ tail' = IF next[head[q]] = NULL THEN [tail EXCEPT ![q] = NULL] ELSE tail
               \/ tail' = tail
        PROVE  QueueInv'
    <3>1. head[q] \in Members(q) /\ Removed(head[q], q)
      BY <2>5, UnlinkHeadRemoves DEF TakeForIO, Queues
    <3>2. WellLinked'
      BY <3>1, WellLinkedRemove
    <3>3. PendingExact'
      <4>1. /\ pending' = [pending EXCEPT ![q] = @ - 1] /\ phase' = "running"
            /\ phase = "running" /\ "running" \notin Queues
        BY <2>5 DEF TakeForIO, Queues
      <4> QED BY <3>1, <4>1, CountRemove DEF PendingExact, QueueTypeOK
    <3>4. DoneNodeFound'
      BY <2>5 DEF TakeForIO, DoneNodeFound
    <3> QED BY <2>0, <2>r, <3>2, <3>3, <3>4
  <2>6. CASE getIOReadNode
    BY <2>6, <2>5 DEF getIOReadNode, Queues
  <2>7. CASE getIOWriteNode
    BY <2>7, <2>5 DEF getIOWriteNode, Queues
  <2>8. CASE AllThreadsEnded
    BY <2>0, <2>r, <2>8, <2>f DEF AllThreadsEnded, FreedReset
  <2>9. ASSUME NEW q \in Queues, ClearNode(q) PROVE QueueInv'
    <3>1. head[q] \in Members(q) /\ Removed(head[q], q)
      BY <2>9, UnlinkHeadRemoves DEF ClearNode, Queues
    <3>2. WellLinked'
      BY <3>1, WellLinkedRemove
    <3>3. PendingExact'
      BY <2>9, <3>1, CountRemove DEF ClearNode, PendingExact, QueueTypeOK
    <3>4. DoneNodeFound'
      BY <2>9 DEF ClearNode, DoneNodeFound
    <3> QED BY <2>0, <2>r, <3>2, <3>3, <3>4
  <2>10. ASSUME NEW q \in Queues, ClearEnd(q) PROVE QueueInv'
    <3>1. WellLinked'
      <4>1. /\ UNCHANGED <<head, prev, next, before, loc>>
            /\ \A r \in Queues : head[r] # NULL => tail'[r] = tail[r]
        BY <2>10 DEF ClearEnd, QueueTypeOK
      <4> QED BY <4>1, WellLinkedFrame DEF QueueTypeOK
    <3>2. PendingExact'
      <4>1. \A r \in Queues : Members(r)' = Members(r)
        BY <2>10 DEF ClearEnd, Members
      <4>2. \A r \in Queues : Cardinality(Members(r)) \in Nat
        <5>1. \A r \in Queues : IsFiniteSet(Members(r))
          BY QueuesAssumption, FS_Subset, \A r \in Queues : Members(r) \subseteq Nodes DEF Members
        <5> QED BY <5>1, FS_CardinalityType
      <4>3. /\ phase = q /\ nodesFreed' = 0
            /\ pending' = [pending EXCEPT ![q] = @ - nodesFreed]
        BY <2>10 DEF ClearEnd
      <4> QED BY <4>1, <4>2, <4>3 DEF PendingExact, QueueTypeOK
    <3>3. DoneNodeFound'
      BY <2>10 DEF ClearEnd, DoneNodeFound
    <3> QED BY <2>0, <2>r, <3>1, <3>2, <3>3
  <2> QED BY <1>t, <2>1, <2>2, <2>3, <2>4, <2>6, <2>7, <2>8, <2>9, <2>10 DEF QueueNext
<1> QED BY <1>s, <1>t

-----------------------------------------------------------------------------
(* The inductive invariant holds of every behaviour. *)
THEOREM QueuesInvariant == QueueSpec => []QueueInv
<1>1. QueueInv /\ [QueueNext]_queueVars => QueueInv'
  BY InvStep
<1> QED BY InvInit, <1>1, PTL DEF QueueSpec

(* The variables of the queues of dwh keep their types. *)
THEOREM QueueTypes == QueueSpec => []QueueTypeOK
BY QueuesInvariant, PTL DEF QueueInv

(* Whatever the order in which workers, I/O threads and main operate on the *)
(* three queues, their pointers describe their members in both directions   *)
(* and in order of arrival.                                                 *)
THEOREM ListsWellLinked == QueueSpec => []WellLinked
BY QueuesInvariant, PTL DEF QueueInv

(* pendingIOReads, pendingIOWrites and pendingIODone never drift from the   *)
(* lengths of the lists.                                                    *)
THEOREM CountersExact == QueueSpec => []PendingExact
BY QueuesInvariant, PTL DEF QueueInv

(* getIODoneNode never fails to take back a node that is on the done queue. *)
THEOREM DoneAlwaysFound == QueueSpec => []DoneNodeFound
BY QueuesInvariant, PTL DEF QueueInv

-----------------------------------------------------------------------------
(* The refinement: each step is a Put, a Take or a Pick, or it leaves the   *)
(* abstract queues alone.                                                   *)
LEMMA MembersMapped ==
  ASSUME QueueTypeOK, NEW q \in Queues
  PROVE  Fifo!Members(q) = Members(q)
BY DEF Fifo!Members, Members, Queues

LEMMA PutStep ==
  ASSUME QueueInv, NEW n \in Nodes, NEW q \in Queues, loc[n] \notin Queues, Arrive(n, q)
  PROVE  Fifo!Put(n, q)
<1>1. QueueTypeOK /\ Fifo!Members(q) = Members(q)
  BY MembersMapped DEF QueueInv
<1>2. before' = before \cup (Members(q) \X {n}) /\ loc' = [loc EXCEPT ![n] = q]
  BY DEF Arrive
<1> QED BY <1>1, <1>2 DEF Fifo!Put, QueueTypeOK

LEMMA LeaveStep ==
  ASSUME QueueInv, QueueInv', NEW q \in Queues, NEW n \in Members(q), Removed(n, q)
  PROVE  Fifo!Leave(n)
<1>1. n \in Nodes /\ QueueTypeOK /\ QueueTypeOK'
  BY DEF Members, QueueInv
<1>2. before' = Fifo!Forget(n)
  BY DEF Removed, Forget, Fifo!Forget
<1>3. \A m \in Nodes : (IF loc'[m] \in Queues THEN loc'[m] ELSE "out")
                        = IF m = n THEN "out"
                          ELSE IF loc[m] \in Queues THEN loc[m] ELSE "out"
  BY DEF Removed
<1> QED BY <1>1, <1>2, <1>3 DEF Fifo!Leave

LEMMA TakeStep ==
  ASSUME QueueInv, QueueInv', NEW q \in Queues, NEW n \in Members(q), n = head[q],
         Removed(n, q)
  PROVE  n \in Nodes /\ Fifo!Take(n, q)
<1>1. QueueTypeOK /\ WellLinked /\ n \in Nodes /\ loc[n] = q
  BY DEF QueueInv, Members
<1>2. Fifo!Leave(n)
  BY LeaveStep
<1>3. \A m \in Members(q) : <<m, n>> \notin before
  <2>1. n # NULL
    BY <1>1, QueuesAssumption
  <2>2. \A m \in Members(q) : m # n => <<n, m>> \in before
    BY <1>1, <2>1 DEF WellLinked, EndsOK
  <2> QED BY <1>1, <2>2 DEF WellLinked, OrderOK, Members
<1> QED BY <1>1, <1>2, <1>3, MembersMapped DEF Fifo!Take

LEMMA FrameStep ==
  ASSUME \A m \in Nodes, q \in Queues : loc'[m] = q <=> loc[m] = q,
         UNCHANGED before
  PROVE  UNCHANGED Fifo!vars
<1>1. \A m \in Nodes : (IF loc'[m] \in Queues THEN loc'[m] ELSE "out")
                        = IF loc[m] \in Queues THEN loc[m] ELSE "out"
  OBVIOUS
<1> QED BY <1>1 DEF Fifo!vars

(* The doubly linked lists of dwh implement first-in-first-out queues: the  *)
(* initial states are empty queues and every step is a step of FifoQueues   *)
(* or leaves the abstract queues unchanged.                                 *)
THEOREM ListsImplementFifo == QueueSpec => FifoSpec
<1>1. QueueInit => Fifo!Init
  BY DEF QueueInit, Fifo!Init, Queues
<1>2. ASSUME QueueInv, QueueInv', [QueueNext]_queueVars PROVE [Fifo!Next]_(Fifo!vars)
  <2> USE <1>2
  <2>0. QueueTypeOK /\ WellLinked
    BY DEF QueueInv
  <2>1. ASSUME NEW n \in Nodes, queueIORead(n) \/ queueIOWrite(n) \/ queueIODone(n)
        PROVE  Fifo!Next
    <3>1. \E q \in Queues : loc[n] \notin Queues /\ Arrive(n, q)
      BY <2>1 DEF queueIORead, queueIOWrite, queueIODone, Queues
    <3> QED BY <3>1, PutStep DEF Fifo!Next
  <2>2. ASSUME NEW n \in Nodes, AllocNode(n) \/ FreeNode(n)
        PROVE  UNCHANGED Fifo!vars
    <3>1. \A m \in Nodes, q \in Queues : loc'[m] = q <=> loc[m] = q
      BY <2>0, <2>2 DEF AllocNode, FreeNode, QueueTypeOK, Queues
    <3> QED BY <2>2, <3>1, FrameStep DEF AllocNode, FreeNode
  <2>3. ASSUME NEW n \in Nodes, getIODoneNode(n) PROVE Fifo!Next
    <3>1. n \in Members("done") /\ "done" \in Queues /\ loc[n] = "done"
      BY <2>3 DEF getIODoneNode, Members, Queues
    <3>2. UnlinkDone(n) /\ before' = Forget(n) /\ loc' = [loc EXCEPT ![n] = "reaped"]
      BY <2>0, <2>3, <3>1, DoneRecognised DEF getIODoneNode
    <3>3. Removed(n, "done")
      BY <2>0, <3>1, <3>2, UnlinkDoneRemoves
    <3>4. Fifo!Leave(n)
      BY <3>1, <3>3, LeaveStep
    <3>5. Fifo!Pick(n, "done")
      BY <3>1, <3>4 DEF Fifo!Pick
    <3> QED BY <3>1, <3>5 DEF Fifo!Next
  <2>4. ASSUME NEW q \in Queues, head[q] # NULL, UnlinkHead(q),
               NEW x, x \notin Queues, loc' = [loc EXCEPT ![head[q]] = x],
               \/ tail' = IF next[head[q]] = NULL THEN [tail EXCEPT ![q] = NULL] ELSE tail
               \/ tail' = tail
        PROVE  Fifo!Next
    <3>1. head[q] \in Members(q) /\ Removed(head[q], q)
      BY <2>0, <2>4, UnlinkHeadRemoves
    <3>2. PICK n \in Members(q) : n = head[q] /\ Removed(n, q)
      BY <3>1
    <3>3. n \in Nodes /\ Fifo!Take(n, q)
      BY <3>2, TakeStep
    <3> QED BY <3>3 DEF Fifo!Next
  <2>5. CASE getIOReadNode
    <3>1. "read" \in Queues /\ "io" \notin Queues
      BY DEF Queues
    <3>2. /\ head["read"] # NULL /\ UnlinkHead("read")
          /\ loc' = [loc EXCEPT ![head["read"]] = "io"]
          /\ tail' = IF next[head["read"]] = NULL THEN [tail EXCEPT !["read"] = NULL] ELSE tail
      BY <2>5 DEF getIOReadNode, TakeForIO
    <3> QED BY <2>4, <3>1, <3>2
  <2>6. CASE getIOWriteNode
    <3>1. "write" \in Queues /\ "io" \notin Queues
      BY DEF Queues
    <3>2. /\ head["write"] # NULL /\ UnlinkHead("write") /\ tail' = tail
          /\ loc' = [loc EXCEPT ![head["write"]] = "io"]
      BY <2>6 DEF getIOWriteNode, TakeForIO
    <3> QED BY <2>4, <3>1, <3>2
  <2>7. ASSUME NEW q \in Queues, ClearNode(q) PROVE Fifo!Next
    <3>1. "freed" \notin Queues
      BY DEF Queues
    <3>2. /\ head[q] # NULL /\ UnlinkHead(q)
          /\ loc' = [loc EXCEPT ![head[q]] = "freed"]
          /\ tail' = IF next[head[q]] = NULL THEN [tail EXCEPT ![q] = NULL] ELSE tail
      BY <2>7 DEF ClearNode
    <3> QED BY <2>4, <3>1, <3>2
  <2>8. ASSUME UNCHANGED <<loc, before>> PROVE UNCHANGED Fifo!vars
    BY <2>8, FrameStep
  <2>9. CASE AllThreadsEnded
    BY <2>8, <2>9 DEF AllThreadsEnded
  <2>10. ASSUME NEW q \in Queues, ClearEnd(q) PROVE UNCHANGED Fifo!vars
    BY <2>8, <2>10 DEF ClearEnd
  <2>11. CASE UNCHANGED queueVars
    BY <2>8, <2>11 DEF queueVars
  <2> QED BY <2>1, <2>2, <2>3, <2>5, <2>6, <2>7, <2>9, <2>10, <2>11 DEF QueueNext
<1> QED BY <1>1, <1>2, QueuesInvariant, PTL DEF QueueSpec, FifoSpec, Fifo!Spec
=============================================================================
