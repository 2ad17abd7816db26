----------------------------- MODULE FifoQueues -----------------------------
(***************************************************************************)
(* What the I/O queues of dwh promise: nodes join a queue at its end, the  *)
(* oldest node is the one a Take returns, and only a queue in Pickable     *)
(* lets go of a node that is not the oldest.  The order of arrival is kept *)
(* as the relation before: <<m, n>> \in before when m and n are on the     *)
(* same queue and m joined it first.                                       *)
(***************************************************************************)
CONSTANTS Nodes, Queues, Pickable, Outside

VARIABLES
  place,   \* place[n]: the queue node n is on, or Outside
  before   \* the order of arrival

vars == <<place, before>>

Members(q) == {n \in Nodes : place[n] = q}

Forget(n) == {p \in before : p[1] # n /\ p[2] # n}

Init ==
  /\ place = [n \in Nodes |-> Outside]
  /\ before = {}

Put(n, q) ==
  /\ place[n] = Outside
  /\ place' = [place EXCEPT ![n] = q]
  /\ before' = before \cup (Members(q) \X {n})

Leave(n) ==
  /\ place' = [place EXCEPT ![n] = Outside]
  /\ before' = Forget(n)

Take(n, q) ==
  /\ place[n] = q
  /\ \A m \in Members(q) : <<m, n>> \notin before
  /\ Leave(n)

Pick(n, q) ==
  /\ q \in Pickable
  /\ place[n] = q
  /\ Leave(n)

Next ==
  \E q \in Queues, n \in Nodes : Put(n, q) \/ Take(n, q) \/ Pick(n, q)

Spec == Init /\ [][Next]_vars
=============================================================================
