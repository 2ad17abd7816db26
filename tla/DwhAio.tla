------------------------------- MODULE DwhAio -------------------------------
(***************************************************************************)
(* One transfer of an I/O thread: ioFileRead and ioFileWrite lock a region *)
(* of the data file, hand the transfer to the C library's asynchronous I/O *)
(* (asyncRead, asyncWrite), poll it until it ends or the timeout has come, *)
(* cancel it in the second case, and unlock the region.  Every I/O thread  *)
(* has a file descriptor of its own, so the locks, which belong to the     *)
(* open file, keep the threads apart.                                      *)
(*                                                                         *)
(* The statistics are left out but for the one that tells how a transfer   *)
(* ended: outcome[t] names the counter that asyncRead or asyncWrite steps. *)
(* Positions are what DwhData says they are for a file larger than a       *)
(* buffer and not too large to be multiplied by rand().                    *)
(***************************************************************************)
EXTENDS Integers

CONSTANTS
  Threads,       \* the I/O threads
  fileSize,
  Lengths,       \* the values of io_len
  LockMayFail,   \* fcntl(F_OFD_SETLKW) may fail to lock
  UnlockMayFail  \* and to unlock

ASSUME AioAssumption ==
  /\ fileSize \in Nat /\ Lengths \subseteq Nat \ {0}
  /\ {LockMayFail, UnlockMayFail} \subseteq BOOLEAN

(* A transfer: pos is rand() scaled to fileSize - io_len - 1. *)
Ops ==
  {o \in [kind : {"read", "write"}, pos : 0 .. fileSize, len : Lengths] :
     o.pos <= fileSize - o.len - 1}

NoOp == [kind |-> "none"]

Region(o) == o.pos .. o.pos + o.len - 1

Conflict(o, p) ==
  /\ o # NoOp /\ p # NoOp
  /\ "write" \in {o.kind, p.kind}
  /\ Region(o) \cap Region(p) # {}

VARIABLES
  EndAllThreads,
  verbose_flag,  \* --verbose, set once
  pc,            \* pc[t]: where I/O thread t stands, see Points
  op,            \* op[t]: the transfer of t
  held,          \* held[t]: the lock on t's open file, a transfer or NoOp
  aio,           \* aio[t]: what the library does with t's aiocb, see AioStates
  res,           \* res[t]: what aio_return64 gives, once aio[t] is "done"
  timedOut,      \* timedOut[t]: the flag of asyncRead and asyncWrite
  result,        \* result[t]: what asyncRead or asyncWrite returns
  outcome,       \* outcome[t]: the counter it steps
  io_done        \* io_done[t]: the field of the node

aioVars == <<EndAllThreads, verbose_flag, pc, op, held, aio, res, timedOut, result,
          outcome, io_done>>

(* "closed" has closed its file and ended. *)
Points == {"idle", "take", "lock", "submit", "poll", "cancel", "count", "unlock",
           "closed"}

(* "queued" can be cancelled, "running" cannot; both are EINPROGRESS. *)
AioStates == {"none", "queued", "running", "done"}

Outcomes == {"none", "whole", "incomplete", "failed", "timeout"}

AioInit ==
  /\ EndAllThreads = FALSE
  /\ verbose_flag \in BOOLEAN
  /\ pc = [t \in Threads |-> "idle"]
  /\ op = [t \in Threads |-> NoOp]
  /\ held = [t \in Threads |-> NoOp]
  /\ aio = [t \in Threads |-> "none"]
  /\ res = [t \in Threads |-> 0]
  /\ timedOut = [t \in Threads |-> FALSE]
  /\ result = [t \in Threads |-> -1]
  /\ outcome = [t \in Threads |-> "none"]
  /\ io_done = [t \in Threads |-> 0]

Move(t, from, to) == pc[t] = from /\ pc' = [pc EXCEPT ![t] = to]

-----------------------------------------------------------------------------
(* ioFileRead or ioFileWrite returns and the node goes to the done queue:   *)
(* the locals are out of scope, and so is an aiocb the library is done with. *)
Return(t) ==
  /\ op' = [op EXCEPT ![t] = NoOp]
  /\ aio' = [aio EXCEPT ![t] = IF @ = "done" THEN "none" ELSE @]
  /\ res' = [res EXCEPT ![t] = 0]
  /\ timedOut' = [timedOut EXCEPT ![t] = FALSE]
  /\ result' = [result EXCEPT ![t] = -1]
  /\ outcome' = [outcome EXCEPT ![t] = "none"]
  /\ io_done' = [io_done EXCEPT ![t] = 0]

(* The head of the loop of IOThreadStart, and the way back to it when the    *)
(* queue it drew is empty.                                                  *)
LoopAgain(t) ==
  /\ \/ ~EndAllThreads /\ Move(t, "idle", "take")
     \/ Move(t, "take", "idle")
  /\ UNCHANGED <<EndAllThreads, verbose_flag, op, held, aio, res, timedOut, result,
                 outcome, io_done>>

(* It gets a node, which its worker made with io_done = 0; ioFileRead or    *)
(* ioFileWrite chooses the place.                                           *)
Begin(t, o) ==
  /\ Move(t, "take", "lock")
  /\ op' = [op EXCEPT ![t] = o]
  /\ UNCHANGED <<EndAllThreads, verbose_flag, held, aio, res, timedOut, result, outcome,
                 io_done>>

(* fcntl grants a lock that conflicts with no other thread's. *)
LockRead(t) ==
  /\ Move(t, "lock", "submit")
  /\ \A u \in Threads \ {t} :
       ~Conflict([op[t] EXCEPT !.kind = "read"], held[u])
  /\ held' = [held EXCEPT ![t] = [op[t] EXCEPT !.kind = "read"]]
  /\ UNCHANGED <<EndAllThreads, verbose_flag, op, aio, res, timedOut, result, outcome,
                 io_done>>

Lock(t) ==
  /\ Move(t, "lock", "submit")
  /\ \A u \in Threads \ {t} : ~Conflict(op[t], held[u])
  /\ held' = [held EXCEPT ![t] = op[t]]
  /\ UNCHANGED <<EndAllThreads, verbose_flag, op, aio, res, timedOut, result, outcome,
                 io_done>>

(* It fails: the transfer is given up. *)
LockFails(t) ==
  /\ LockMayFail
  /\ Move(t, "lock", "idle")
  /\ Return(t)
  /\ UNCHANGED <<EndAllThreads, verbose_flag, held>>

(* aio_read64, aio_write64. *)
Submit(t) ==
  /\ Move(t, "submit", "poll")
  /\ aio' = [aio EXCEPT ![t] = "queued"]
  /\ UNCHANGED <<EndAllThreads, verbose_flag, op, held, res, timedOut, result, outcome,
                 io_done>>

(* They fail.  Only with --verbose does asyncRead return at once, with      *)
(* nothing counted.  Otherwise it goes on to poll the zeroed aiocb, which   *)
(* looks finished, with zero bytes moved or with an error.                  *)
SubmitFails(t) ==
  /\ \/ /\ verbose_flag
        /\ Move(t, "submit", "unlock")
        /\ UNCHANGED <<aio, res>>
     \/ /\ ~verbose_flag
        /\ Move(t, "submit", "poll")
        /\ aio' = [aio EXCEPT ![t] = "done"]
        /\ \E r \in {-1, 0} : res' = [res EXCEPT ![t] = r]
  /\ UNCHANGED <<EndAllThreads, verbose_flag, op, held, timedOut, result, outcome, io_done>>

InFlight(t) == aio[t] \in {"queued", "running"}

(* The polling loop: it ends when the transfer does (a failed one still goes *)
(* through aio_cancel64), when a second has gone by and the time of start is *)
(* not known, or when the timeout has come.                                  *)
PollDone(t) ==
  /\ aio[t] = "done"
  /\ Move(t, "poll", IF res[t] = -1 THEN "cancel" ELSE "count")
  /\ result' = [result EXCEPT ![t] = res[t]]
  /\ UNCHANGED <<EndAllThreads, verbose_flag, op, held, aio, res, timedOut, outcome,
                 io_done>>

PollGivesUp(t) ==
  /\ InFlight(t)
  /\ Move(t, "poll", "cancel")
  /\ \E b \in BOOLEAN : timedOut' = [timedOut EXCEPT ![t] = b]
  /\ UNCHANGED <<EndAllThreads, verbose_flag, op, held, aio, res, result, outcome,
                 io_done>>

(* aio_cancel64, repeated as long as it says AIO_NOTCANCELED. *)
CancelOnce(t) ==
  /\ Move(t, "cancel", "count")
  /\ \/ /\ aio[t] = "queued"
        /\ aio' = [aio EXCEPT ![t] = "none"]
        /\ UNCHANGED result
     \/ /\ aio[t] = "running"
        /\ UNCHANGED <<aio, result>>
     \/ /\ aio[t] = "done"
        /\ result' = [result EXCEPT ![t] = res[t]]
        /\ UNCHANGED aio
  /\ UNCHANGED <<EndAllThreads, verbose_flag, op, held, res, timedOut, outcome, io_done>>

CancelIgnoringLateEnd(t) ==
  /\ Move(t, "cancel", "count")
  /\ aio[t] # "running"
  /\ aio' = [aio EXCEPT ![t] = IF @ = "queued" THEN "none" ELSE @]
  /\ UNCHANGED <<EndAllThreads, verbose_flag, op, held, res, timedOut, outcome, io_done,
                 result>>

Cancel(t) ==
  /\ Move(t, "cancel", "count")
  /\ \/ /\ aio[t] = "queued"
        /\ aio' = [aio EXCEPT ![t] = "none"]
        /\ UNCHANGED result
     \/ /\ aio[t] = "done"
        /\ result' = [result EXCEPT ![t] = res[t]]
        /\ UNCHANGED aio
  /\ UNCHANGED <<EndAllThreads, verbose_flag, op, held, res, timedOut, outcome, io_done>>

(* The counters (a timeout also counts as a failure), and io_done, which     *)
(* the caller sets to the whole length whatever was moved.                  *)
CountRawResult(t) ==
  /\ Move(t, "count", "unlock")
  /\ outcome' = [outcome EXCEPT ![t] = IF result[t] = -1 THEN "failed" ELSE "whole"]
  /\ io_done' = [io_done EXCEPT ![t] = result[t]]
  /\ UNCHANGED <<EndAllThreads, verbose_flag, op, held, aio, res, timedOut, result>>

CountTransfer(t) ==
  /\ Move(t, "count", "unlock")
  /\ outcome' = [outcome EXCEPT ![t] =
       CASE result[t] = -1 /\ timedOut[t] /\ aio[t] = "none" -> "timeout"
         [] result[t] = -1 /\ ~(timedOut[t] /\ aio[t] = "none") -> "failed"
         [] result[t] \notin {-1, op[t].len} -> "incomplete"
         [] OTHER -> "whole"]
  /\ io_done' = [io_done EXCEPT ![t] = IF result[t] = -1 THEN @ ELSE op[t].len]
  /\ UNCHANGED <<EndAllThreads, verbose_flag, op, held, aio, res, timedOut, result>>

(* Unlock the region and return; a failure ends all threads. *)
Unlock(t) ==
  /\ Move(t, "unlock", "idle")
  /\ held' = [held EXCEPT ![t] = NoOp]
  /\ Return(t)
  /\ UNCHANGED <<EndAllThreads, verbose_flag>>

UnlockFailsQuietly(t) ==
  /\ UnlockMayFail
  /\ Move(t, "unlock", "idle")
  /\ Return(t)
  /\ UNCHANGED <<EndAllThreads, verbose_flag, held>>

UnlockFails(t) ==
  /\ UnlockMayFail
  /\ Move(t, "unlock", "idle")
  /\ EndAllThreads' = TRUE
  /\ Return(t)
  /\ UNCHANGED <<verbose_flag, held>>

(* The end of IOThreadStart: close drops the locks of the open file. *)
CloseForgotten(t) ==
  /\ EndAllThreads
  /\ Move(t, "idle", "closed")
  /\ UNCHANGED <<EndAllThreads, verbose_flag, op, held, aio, res, timedOut, result,
                 outcome, io_done>>

Close(t) ==
  /\ EndAllThreads
  /\ Move(t, "idle", "closed")
  /\ held' = [held EXCEPT ![t] = NoOp]
  /\ UNCHANGED <<EndAllThreads, verbose_flag, op, aio, res, timedOut, result, outcome,
                 io_done>>

-----------------------------------------------------------------------------
(* The library's side of a transfer: it starts, and it ends with some       *)
(* number of bytes moved or with an error.                                  *)
StartTransfer(t) ==
  /\ aio[t] = "queued"
  /\ aio' = [aio EXCEPT ![t] = "running"]
  /\ UNCHANGED <<EndAllThreads, verbose_flag, pc, op, held, res, timedOut, result,
                 outcome, io_done>>

EndTransfer(t) ==
  /\ aio[t] = "running"
  /\ aio' = [aio EXCEPT ![t] = "done"]
  /\ \E r \in -1 .. op[t].len : res' = [res EXCEPT ![t] = r]
  /\ UNCHANGED <<EndAllThreads, verbose_flag, pc, op, held, timedOut, result, outcome,
                 io_done>>

(* main's EndPThreads. *)
EndPThreads ==
  /\ ~EndAllThreads
  /\ EndAllThreads' = TRUE
  /\ UNCHANGED <<verbose_flag, pc, op, held, aio, res, timedOut, result, outcome, io_done>>

AllClosed == \A t \in Threads : pc[t] = "closed"

AioOver == AllClosed /\ UNCHANGED aioVars

ThreadStep(t) ==
  \/ LoopAgain(t) \/ Lock(t) \/ LockFails(t) \/ Submit(t) \/ SubmitFails(t)
  \/ PollDone(t) \/ PollGivesUp(t) \/ Cancel(t) \/ CountTransfer(t)
  \/ Unlock(t) \/ UnlockFails(t) \/ Close(t)

LibraryStep(t) == StartTransfer(t) \/ EndTransfer(t)

AioNext ==
  \/ \E t \in Threads :
       \/ \E o \in Ops : Begin(t, o)
       \/ ThreadStep(t)
       \/ LibraryStep(t)
  \/ EndPThreads
  \/ AioOver

AioSpec == AioInit /\ [][AioNext]_aioVars

(* What a thread does by itself: one that waits for a region is not saved   *)
(* by an error of fcntl.                                                    *)
ThreadRuns(t) == ThreadStep(t) /\ ~LockFails(t)

-----------------------------------------------------------------------------
AioTypeOK ==
  /\ EndAllThreads \in BOOLEAN /\ verbose_flag \in BOOLEAN
  /\ pc \in [Threads -> Points]
  /\ op \in [Threads -> Ops \cup {NoOp}]
  /\ held \in [Threads -> Ops \cup {NoOp}]
  /\ aio \in [Threads -> AioStates]
  /\ res \in [Threads -> Int] /\ result \in [Threads -> Int]
  /\ timedOut \in [Threads -> BOOLEAN]
  /\ outcome \in [Threads -> Outcomes]
  /\ io_done \in [Threads -> Nat]

(* "Lock our write region": no transfer is under way in the library while   *)
(* another one writes the same bytes, even after a timeout or when an       *)
(* unlock has failed.                                                       *)
RegionsExclusive ==
  \A t, u \in Threads :
    t # u /\ InFlight(t) /\ InFlight(u) => ~Conflict(op[t], op[u])

(* Once ioFileRead or ioFileWrite has returned, the library no longer uses  *)
(* the buffer, which goes back to its worker, nor the aiocb, which was on   *)
(* the stack: a timed-out transfer is cancelled or waited for.              *)
NothingLeftBehind ==
  \A t \in Threads : InFlight(t) => pc[t] \in {"poll", "cancel"}

(* A timeout that races with the end of the transfer: if the library has    *)
(* moved the data the transfer counts as done, and it counts as timed out   *)
(* only if it was cancelled in time.                                        *)
LateEndCounts ==
  \A t \in Threads :
    outcome[t] # "none" =>
      /\ outcome[t] = "timeout" => aio[t] = "none"
      /\ io_done[t] > 0 <=> (aio[t] = "done" /\ res[t] # -1)

(* A lock outlives its transfer only when unlocking failed, and that ends   *)
(* all threads, which closes the files and so drops the locks.              *)
LocksDropped ==
  \A t \in Threads : held[t] # NoOp /\ pc[t] \in {"idle", "take", "lock", "closed"} =>
       EndAllThreads

(* Once the threads are told to end they all do: none waits for ever for a  *)
(* region that another one has left locked.                                 *)
AllThreadsEnd == EndAllThreads ~> AllClosed
=============================================================================
