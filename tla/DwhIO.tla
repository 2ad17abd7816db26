------------------------------- MODULE DwhIO --------------------------------
(***************************************************************************)
(* The I/O hand-off of dwh.  A worker queues a node that names its buffer  *)
(* and its semaphore and polls the semaphore; an I/O thread takes the node *)
(* off, transfers the buffer, puts the node on the done queue and posts    *)
(* the semaphore; the worker takes the node back.  Main ends the run: it   *)
(* stops new I/O, looks at the queues one after the other until they are   *)
(* empty, tells the threads to end, waits for them and clears the queues.  *)
(*                                                                         *)
(* A worker has at most one node, so a node is named by its worker.  The   *)
(* queues are those of FifoQueues, which DwhQueues implements.  Thread     *)
(* creation and the counting of threads are exact here; DwhThreads models  *)
(* them step by step, with their failures.                                 *)
(***************************************************************************)
EXTENDS Integers, FiniteSets

CONSTANTS Workers, IOThreads, Nobody

ASSUME IOAssumption ==
  /\ IsFiniteSet(Workers) /\ IsFiniteSet(IOThreads)
  /\ IOThreads # {}
  /\ Nobody \notin Workers

VARIABLES
  EndAllIO, EndAllThreads,
  mpc,        \* where main stands
  wpc,        \* wpc[w]: where worker w stands
  iopc,       \* iopc[t]: where I/O thread t stands
  place,      \* place[w]: the queue w's node is on, or "out"
  before,     \* the order of arrival on the queues
  hand,       \* hand[t]: whose node I/O thread t is working on
  mem,        \* mem[w]: w has a buffer (myMem # NULL)
  memQueued,  \* memQueued[w]
  sem         \* sem[w]: the value of w's my_sem

mainVars == <<EndAllIO, EndAllThreads, mpc>>
queueVars == <<place, before>>
workerVars == <<wpc, mem, memQueued>>
vars == <<EndAllIO, EndAllThreads, mpc, wpc, iopc, place, before, hand, mem,
          memQueued, sem>>

Q == INSTANCE FifoQueues WITH
  Nodes <- Workers, Queues <- {"read", "write", "done"}, Pickable <- {"done"},
  Outside <- "out"

(***************************************************************************)
(* Workers: "loop" at the top of the work loop, "submit" about to test     *)
(* EndAllIO, "enqueue" past that test, "wait" polling the semaphore,       *)
(* "reap" about to take its node off the done queue, "leave" out of the    *)
(* loop, "ended" with its semaphore destroyed, "gone" no longer counted.   *)
(***************************************************************************)
WorkerPoints == {"loop", "submit", "enqueue", "wait", "reap", "leave", "ended", "gone"}

IOPoints == {"loop", "busy", "gone"}

(* Main: "run" its timed loop, "endio" to "scanDone" EndIOTasks, "kill" and *)
(* "join" EndPThreads, "clear" and "over" the end of main.                  *)
MainPoints == {"run", "endio", "scanRead", "scanWrite", "scanDone", "kill", "join",
               "clear", "over"}

Init ==
  /\ EndAllIO = FALSE /\ EndAllThreads = FALSE
  /\ mpc = "run"
  /\ wpc = [w \in Workers |-> "loop"]
  /\ iopc = [t \in IOThreads |-> "loop"]
  /\ Q!Init
  /\ hand = [t \in IOThreads |-> Nobody]
  /\ mem = [w \in Workers |-> FALSE]
  /\ memQueued = [w \in Workers |-> FALSE]
  /\ sem = [w \in Workers |-> 0]

LiveWorkers == {w \in Workers : wpc[w] # "gone"}
LiveIOThreads == {t \in IOThreads : iopc[t] # "gone"}

Move(w, from, to) == wpc[w] = from /\ wpc' = [wpc EXCEPT ![w] = to]

-----------------------------------------------------------------------------
(* Activities 0 and 1 of a worker: get a buffer, free it. *)
Allocate(w) ==
  /\ Move(w, "loop", "loop") /\ ~EndAllThreads
  /\ ~mem[w]
  /\ mem' = [mem EXCEPT ![w] = TRUE]
  /\ UNCHANGED <<mainVars, queueVars, iopc, hand, memQueued, sem>>

Free(w) ==
  /\ Move(w, "loop", "loop") /\ ~EndAllThreads
  /\ mem[w]
  /\ mem' = [mem EXCEPT ![w] = FALSE]
  /\ UNCHANGED <<mainVars, queueVars, iopc, hand, memQueued, sem>>

(* Activity 4: end this thread unless it is the only worker. *)
EndMe(w) ==
  /\ Move(w, "loop", "leave") /\ ~EndAllThreads
  /\ Cardinality(LiveWorkers) > 1
  /\ UNCHANGED <<mainVars, queueVars, iopc, hand, mem, memQueued, sem>>

(* Activity 7: ask for an I/O with the buffer. *)
StartIO(w) ==
  /\ Move(w, "loop", "submit") /\ ~EndAllThreads
  /\ mem[w]
  /\ LiveIOThreads # {}
  /\ UNCHANGED <<mainVars, queueVars, iopc, hand, mem, memQueued, sem>>

(* queueIORead and queueIOWrite test EndAllIO before they take the lock.   *)
(* When they refuse, the worker marks its buffer as queued all the same,   *)
(* and waits for a semaphore that nobody will post.                        *)
Submit(w) ==
  /\ IF EndAllIO
     THEN Move(w, "submit", "wait") /\ memQueued' = [memQueued EXCEPT ![w] = TRUE]
     ELSE Move(w, "submit", "enqueue") /\ UNCHANGED memQueued
  /\ UNCHANGED <<mainVars, queueVars, iopc, hand, mem, sem>>

Enqueue(w) ==
  /\ Move(w, "enqueue", "wait")
  /\ \E q \in {"read", "write"} : Q!Put(w, q)
  /\ memQueued' = [memQueued EXCEPT ![w] = TRUE]
  /\ UNCHANGED <<mainVars, iopc, hand, mem, sem>>

(* The wait loop: sem_trywait, and when that fails a look at EndAllThreads, *)
(* by which time the semaphore may have been posted.                        *)
TryWaitBlindly(w) ==
  /\ Move(w, "wait", "reap")
  /\ sem' = [sem EXCEPT ![w] = @ - 1]
  /\ UNCHANGED <<mainVars, queueVars, iopc, hand, mem, memQueued>>

TryWait(w) ==
  /\ Move(w, "wait", "reap")
  /\ sem[w] > 0
  /\ sem' = [sem EXCEPT ![w] = @ - 1]
  /\ UNCHANGED <<mainVars, queueVars, iopc, hand, mem, memQueued>>

WaitForEver(w) ==
  /\ Move(w, "wait", "leave")
  /\ EndAllThreads /\ place[w] = "done"
  /\ UNCHANGED <<mainVars, queueVars, iopc, hand, mem, memQueued, sem>>

GiveUpWaiting(w) ==
  /\ Move(w, "wait", "leave")
  /\ EndAllThreads
  /\ UNCHANGED <<mainVars, queueVars, iopc, hand, mem, memQueued, sem>>

(* getIODoneNode, after which the node is freed. *)
Reap(w) ==
  /\ Move(w, "reap", "loop")
  /\ Q!Pick(w, "done")
  /\ memQueued' = [memQueued EXCEPT ![w] = FALSE]
  /\ UNCHANGED <<mainVars, iopc, hand, mem, sem>>

LeaveLoop(w) ==
  /\ Move(w, "loop", "leave")
  /\ EndAllThreads
  /\ UNCHANGED <<mainVars, queueVars, iopc, hand, mem, memQueued, sem>>

(* After the loop: free the buffer unless it is queued, destroy the         *)
(* semaphore ...                                                            *)
CleanUpAnyBuffer(w) ==
  /\ Move(w, "leave", "ended")
  /\ mem' = [mem EXCEPT ![w] = FALSE]
  /\ UNCHANGED <<mainVars, queueVars, iopc, hand, memQueued, sem>>

CleanUp(w) ==
  /\ Move(w, "leave", "ended")
  /\ mem' = [mem EXCEPT ![w] = mem[w] /\ memQueued[w]]
  /\ UNCHANGED <<mainVars, queueVars, iopc, hand, memQueued, sem>>

(* ... and nThreads--. *)
CountOut(w) ==
  /\ Move(w, "ended", "gone")
  /\ UNCHANGED <<mainVars, queueVars, iopc, hand, mem, memQueued, sem>>

-----------------------------------------------------------------------------
(* An I/O thread draws reading or writing by lot and takes the oldest node. *)
PeekNode(t, q) ==
  /\ iopc[t] = "loop" /\ ~EndAllThreads
  /\ \E w \in Q!Members(q) : hand' = [hand EXCEPT ![t] = w]
  /\ iopc' = [iopc EXCEPT ![t] = "busy"]
  /\ UNCHANGED <<mainVars, workerVars, queueVars, sem>>

TakeNode(t, q) ==
  /\ iopc[t] = "loop" /\ ~EndAllThreads
  /\ \E w \in Workers : Q!Take(w, q) /\ hand' = [hand EXCEPT ![t] = w]
  /\ iopc' = [iopc EXCEPT ![t] = "busy"]
  /\ UNCHANGED <<mainVars, workerVars, sem>>

(* The transfer is over: queueIODone adds the node and posts the semaphore  *)
(* under one lock.                                                          *)
queueIODoneNoPost(t) ==
  /\ iopc[t] = "busy"
  /\ Q!Put(hand[t], "done")
  /\ hand' = [hand EXCEPT ![t] = Nobody]
  /\ iopc' = [iopc EXCEPT ![t] = "loop"]
  /\ UNCHANGED <<mainVars, workerVars, sem>>

queueIODone(t) ==
  /\ iopc[t] = "busy"
  /\ Q!Put(hand[t], "done")
  /\ sem' = [sem EXCEPT ![hand[t]] = @ + 1]
  /\ hand' = [hand EXCEPT ![t] = Nobody]
  /\ iopc' = [iopc EXCEPT ![t] = "loop"]
  /\ UNCHANGED <<mainVars, workerVars>>

EndIOThread(t) ==
  /\ iopc[t] = "loop" /\ EndAllThreads
  /\ iopc' = [iopc EXCEPT ![t] = "gone"]
  /\ UNCHANGED <<mainVars, workerVars, queueVars, hand, sem>>

-----------------------------------------------------------------------------
MainMove(from, to) == mpc = from /\ mpc' = to

Others == <<workerVars, iopc, queueVars, hand, sem>>

(* Main starts a worker in a free slot: a new semaphore and new locals. *)
StartWorker(w) ==
  /\ mpc = "run"
  /\ wpc[w] = "gone"
  /\ wpc' = [wpc EXCEPT ![w] = "loop"]
  /\ sem' = [sem EXCEPT ![w] = 0]
  /\ mem' = [mem EXCEPT ![w] = FALSE]
  /\ memQueued' = [memQueued EXCEPT ![w] = FALSE]
  /\ UNCHANGED <<mainVars, iopc, queueVars, hand>>

(* The time is up, or SIGUSR1 has come: EndIOTasks stops new I/O. *)
TimeUp ==
  /\ MainMove("run", "endio")
  /\ EndAllIO' = TRUE
  /\ UNCHANGED <<Others, EndAllThreads>>

(* EndIOTasks goes round while there are workers and a queue is not empty.  *)
(* The test that breaks the loop when no I/O thread is left is never true   *)
(* here: they do not end before EndAllThreads is set.                       *)
AnyWorkers ==
  /\ \/ MainMove("endio", "scanRead") /\ LiveWorkers # {}
     \/ MainMove("endio", "kill") /\ LiveWorkers = {}
  /\ UNCHANGED <<Others, EndAllIO, EndAllThreads>>

(* isIOPending locks and looks at one queue at a time. *)
Scan(here, q, onward) ==
  /\ \/ MainMove(here, "endio") /\ Q!Members(q) # {}
     \/ MainMove(here, onward) /\ Q!Members(q) = {}
  /\ UNCHANGED <<Others, EndAllIO, EndAllThreads>>

isReadQEmpty == Scan("scanRead", "read", "scanWrite")
isWriteQEmpty == Scan("scanWrite", "write", "scanDone")
isDoneQEmpty == Scan("scanDone", "done", "kill")

(* EndPThreads. *)
KillThreads ==
  /\ MainMove("kill", "join")
  /\ EndAllThreads' = TRUE
  /\ UNCHANGED <<Others, EndAllIO>>

JoinIOThreads ==
  /\ MainMove("join", "clear")
  /\ LiveIOThreads = {}
  /\ UNCHANGED <<Others, EndAllIO, EndAllThreads>>

Join ==
  /\ MainMove("join", "clear")
  /\ LiveWorkers = {} /\ LiveIOThreads = {}
  /\ UNCHANGED <<Others, EndAllIO, EndAllThreads>>

clearIOQueues ==
  /\ MainMove("clear", "over")
  /\ place' = [w \in Workers |-> "out"]
  /\ before' = {}
  /\ UNCHANGED <<EndAllIO, EndAllThreads, workerVars, iopc, hand, sem>>

(* exit(0). *)
Over == mpc = "over" /\ UNCHANGED vars

-----------------------------------------------------------------------------
WorkerStep(w) ==
  \/ Allocate(w) \/ Free(w) \/ EndMe(w) \/ StartIO(w) \/ Submit(w) \/ Enqueue(w)
  \/ TryWait(w) \/ GiveUpWaiting(w) \/ Reap(w) \/ LeaveLoop(w) \/ CleanUp(w)
  \/ CountOut(w)

IOStep(t) == TakeNode(t, "read") \/ TakeNode(t, "write") \/ queueIODone(t) \/ EndIOThread(t)

MainStep ==
  \/ TimeUp \/ AnyWorkers \/ isReadQEmpty \/ isWriteQEmpty \/ isDoneQEmpty
  \/ KillThreads \/ Join \/ clearIOQueues

Next ==
  \/ \E w \in Workers : WorkerStep(w) \/ StartWorker(w)
  \/ \E t \in IOThreads : IOStep(t)
  \/ MainStep
  \/ Over

Spec == Init /\ [][Next]_vars

(* Every thread keeps running, and the lot by which an I/O thread chooses   *)
(* between reading and writing falls on each of them again and again.       *)
Fairness ==
  /\ WF_vars(MainStep)
  /\ \A w \in Workers : WF_vars(WorkerStep(w))
  /\ \A t \in IOThreads :
       WF_vars(IOStep(t)) /\ \A q \in {"read", "write"} : SF_vars(TakeNode(t, q))

FairSpec == Spec /\ Fairness

-----------------------------------------------------------------------------
TypeOK ==
  /\ EndAllIO \in BOOLEAN /\ EndAllThreads \in BOOLEAN
  /\ mpc \in MainPoints
  /\ wpc \in [Workers -> WorkerPoints]
  /\ iopc \in [IOThreads -> IOPoints]
  /\ place \in [Workers -> {"read", "write", "done", "out"}]
  /\ before \subseteq Workers \X Workers
  /\ hand \in [IOThreads -> Workers \cup {Nobody}]
  /\ mem \in [Workers -> BOOLEAN] /\ memQueued \in [Workers -> BOOLEAN]
  /\ sem \in [Workers -> Nat]

InHand(w) == \E t \in IOThreads : hand[t] = w

(* A node is out of its worker's hands: queued or with an I/O thread. *)
Away(w) == place[w] # "out" \/ InHand(w)

(* dwh.cpp says of a worker's buffer, where the thread frees it on its way  *)
(* out, "it will not be on an I/O queue": as long as a node is on a queue   *)
(* or in the hands of an I/O thread, the buffer it names is allocated, even *)
(* if its worker gave up waiting and has ended.                             *)
BufferSafe == \A w \in Workers : Away(w) => mem[w]

(* The semaphore and the done queue tell the same story, so that a post is  *)
(* never lost, never left over for a later request, and getIODoneNode finds *)
(* the node: a worker that waits has one post exactly when its node is on   *)
(* the done queue, and a worker between requests has none.                  *)
PostedWhenDone ==
  \A w \in Workers :
    /\ wpc[w] = "wait" => sem[w] = IF place[w] = "done" THEN 1 ELSE 0
    /\ wpc[w] = "reap" => sem[w] = 0 /\ place[w] = "done"
    /\ wpc[w] \in {"loop", "submit", "enqueue"} =>
         sem[w] = 0 /\ ~Away(w)

(* Two I/O threads never work on one node, nor does one work on a node that *)
(* is still on a queue.                                                     *)
OneHolder ==
  \A t, u \in IOThreads :
    hand[t] # Nobody => place[hand[t]] = "out" /\ (hand[u] = hand[t] => u = t)

(* dwh.cpp, before EndIOTasks in main: "If there is pending I/O, let it     *)
(* finish before killing threads".                                          *)
IOFinishedFirst ==
  EndAllThreads => \A w \in Workers : ~Away(w)

(* After EndPThreads no thread is left to touch a queue or a buffer: the    *)
(* nodes that clearIOQueues frees are nobody's.                             *)
ClearedAlone ==
  mpc \in {"clear", "over"} =>
    /\ \A w \in Workers : wpc[w] = "gone"
    /\ \A t \in IOThreads : iopc[t] = "gone" /\ hand[t] = Nobody

(* Every queued request is served and its worker goes on, unless the        *)
(* program ends first.                                                      *)
RequestsServed ==
  \A w \in Workers :
    place[w] \in {"read", "write"} ~> wpc[w] = "loop" \/ EndAllThreads

(* dwh.cpp: "Run the test case for 200 seconds (--time)".  EndIOTasks and   *)
(* EndPThreads come to an end, although a refused request leaves its worker *)
(* waiting for a semaphore that is never posted.                            *)
RunEnds == <>(mpc = "over")
=============================================================================
