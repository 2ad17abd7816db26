----------------------------- MODULE DwhThreads -----------------------------
(***************************************************************************)
(* The life of the threads of dwh: main creates the I/O threads and the    *)
(* first workers, waits until they have counted themselves, starts further *)
(* workers in free slots of wktinfo while it runs, and in the end tells    *)
(* all threads to end and waits for nThreads to become zero.  A thread     *)
(* counts itself in when it starts to run and out when it ends, and a      *)
(* worker gives its slot back by writing zero to its thread_num, without   *)
(* the mutex that main holds when it looks for a free slot.                *)
(*                                                                         *)
(* What the threads do in between is in DwhMemory and DwhIO; so is the     *)
(* waiting of EndIOTasks, which is left out here.                          *)
(***************************************************************************)
EXTENDS Integers, FiniteSets

CONSTANTS
  iothreads, minthreads, maxthreads,  \* the options, as VerifySettings wants them
  short_threads,                      \* --shortthreads
  CreateMayFail,                      \* pthread_create may fail
  SetupMayFail,                       \* sem_init or open may fail in a thread
  TableMayFail,                       \* wktinfo may not fit in --maxmem
  MaxStarts                           \* bound: the threads ever created

ASSUME ThreadsAssumption ==
  /\ iothreads \in Nat /\ minthreads \in Nat /\ maxthreads \in Nat
  /\ iothreads < minthreads /\ minthreads <= maxthreads
  /\ MaxStarts \in Nat
  /\ {short_threads, CreateMayFail, SetupMayFail, TableMayFail} \subseteq BOOLEAN

minworkers == minthreads - iothreads
maxworkers == maxthreads - iothreads

Slots == 0 .. maxworkers - 1
Threads == 1 .. MaxStarts

VARIABLES
  mpc,            \* where main stands
  tnum,           \* the loop counter of SetupIOThreads and SetupWorkerThreads
  EndAllThreads,
  wktilock,       \* TRUE while main holds the mutex; no other thread takes it
  threadNum,
  wktinfo,        \* wktinfo[s]: the thread_num of slot s
  tables,         \* wktinfo is "unset" (NULL), "live" or "freed"
  nThreads, nIOThreads,
  created,        \* how many threads have been created
  kind,           \* kind[i]: "io" or "worker", "none" before i is created
  slot, num,      \* slot[i], num[i]: the slot and the number worker i was given
  tpc,            \* tpc[i]: where thread i stands
  seen            \* seen[i]: the counter worker i has loaded first, in EndMe

mainVars == <<mpc, tnum, wktilock, threadNum, created, kind, slot, num, tables>>
vars == <<mpc, tnum, EndAllThreads, wktilock, threadNum, wktinfo, tables, nThreads,
          nIOThreads, created, kind, slot, num, tpc, seen>>

MainPoints == {"io", "waitio", "table", "workers", "waitworkers", "run", "lock",
               "kill", "join", "over", "crashed"}

(***************************************************************************)
(* "created" but not running yet; "counting" between nThreads++ and        *)
(* nIOThreads++; "starting" both done; "run"; "sawAll" or "sawIO" between  *)
(* the loads of nThreads and nIOThreads; "leaving" out of the loop;        *)
(* "cleared" thread_num is zero; "uncounting" between nIOThreads-- and     *)
(* nThreads--; "gone"; "lost" returned without counting itself out.        *)
(***************************************************************************)
ThreadPoints == {"unborn", "created", "counting", "starting", "run", "sawAll", "sawIO",
                 "leaving", "cleared", "uncounting", "gone", "lost"}

Init ==
  /\ mpc = "io" /\ tnum = 0
  /\ EndAllThreads = FALSE /\ wktilock = FALSE
  /\ threadNum = 0
  /\ wktinfo = [s \in Slots |-> 0]
  /\ tables = "unset"
  /\ nThreads = 0 /\ nIOThreads = 0
  /\ created = 0
  /\ kind = [i \in Threads |-> "none"]
  /\ slot = [i \in Threads |-> 0]
  /\ num = [i \in Threads |-> 0]
  /\ tpc = [i \in Threads |-> "unborn"]
  /\ seen = [i \in Threads |-> 0]

MainMove(from, to) ==
  /\ mpc = from /\ mpc' = to
  /\ UNCHANGED <<tnum, EndAllThreads, wktilock, threadNum, wktinfo, tables, nThreads,
                 nIOThreads, created, kind, slot, num, tpc, seen>>

-----------------------------------------------------------------------------
(* pthread_create of a thread of kind k, in slot s when it is a worker. *)
Create(k, s) ==
  LET i == created + 1 IN
  /\ created < MaxStarts
  /\ created' = i
  /\ kind' = [kind EXCEPT ![i] = k]
  /\ slot' = [slot EXCEPT ![i] = s]
  /\ num' = [num EXCEPT ![i] = threadNum]
  /\ tpc' = [tpc EXCEPT ![i] = "created"]
  /\ threadNum' = threadNum + 1

CreateFails ==
  /\ CreateMayFail
  /\ threadNum' = threadNum + 1
  /\ UNCHANGED <<created, kind, slot, num, tpc>>

(* SetupIOThreads, one thread at a time; after a failure main goes on to    *)
(* the workers without waiting for the I/O threads.                         *)
StartIOThread ==
  /\ mpc = "io" /\ tnum < iothreads
  /\ \/ Create("io", 0) /\ tnum' = tnum + 1 /\ UNCHANGED mpc
     \/ CreateFails /\ mpc' = "table" /\ UNCHANGED tnum
  /\ UNCHANGED <<EndAllThreads, wktilock, wktinfo, tables, nThreads, nIOThreads, seen>>

(* iotinfo does not fit in --maxmem: no I/O threads, and no waiting. *)
NoIOTable ==
  /\ MainMove("io", "table")
  /\ TableMayFail /\ tnum = 0 /\ iothreads > 0

IOThreadsStarted ==
  /\ MainMove("io", "waitio")
  /\ tnum = iothreads

WaitForIOThreads ==
  /\ MainMove("waitio", "table")
  /\ nIOThreads >= iothreads

(* SetupWorkerThreads allocates wktinfo; if that fails main runs without. *)
AllocateTable ==
  /\ mpc = "table"
  /\ tnum' = 0
  /\ \/ tables' = "live" /\ mpc' = "workers"
     \/ TableMayFail /\ mpc' = "run" /\ UNCHANGED tables
  /\ UNCHANGED <<EndAllThreads, wktilock, threadNum, wktinfo, nThreads, nIOThreads,
                 created, kind, slot, num, tpc, seen>>

(* startOneWorkerThread with the mutex free: on success the slot holds the  *)
(* new number and the mutex is free again, on failure the slot is zero and  *)
(* the mutex is NOT given back.                                             *)
StartIn(s) ==
  /\ ~wktilock
  /\ \/ /\ Create("worker", s)
        /\ wktinfo' = [wktinfo EXCEPT ![s] = threadNum]
        /\ UNCHANGED wktilock
     \/ /\ CreateFails
        /\ wktinfo' = [wktinfo EXCEPT ![s] = 0]
        /\ wktilock' = TRUE
  /\ UNCHANGED <<EndAllThreads, tables, nThreads, nIOThreads, seen>>

StartFirstWorkers ==
  /\ mpc = "workers" /\ tnum < minworkers
  /\ StartIn(tnum)
  /\ tnum' = tnum + 1
  /\ mpc' = IF wktilock' THEN "run" ELSE "workers"

WorkersStarted ==
  /\ MainMove("workers", "waitworkers")
  /\ tnum = minworkers

(* nThreads and nIOThreads are loaded one after the other.  They are        *)
(* compared in one step because main goes on only if at some moment         *)
(* between the loads nThreads was the greater: if both were equal at the    *)
(* first, an I/O thread has left nIOThreads, and not yet nThreads, since.   *)
WaitForWorkers ==
  /\ MainMove("waitworkers", "run")
  /\ nThreads > nIOThreads

-----------------------------------------------------------------------------
(* The timed loop: main sees room for another worker ... *)
WantWorker ==
  /\ MainMove("run", "lock")
  /\ short_threads /\ ~EndAllThreads /\ nThreads < maxthreads
  /\ created < MaxStarts

(* ... and starts it in a slot that getUnusedWorkerThreadNum finds free.    *)
(* Workers free slots while it looks, so which free slot it is is open.     *)
StartAnyFree ==
  /\ mpc = "lock" /\ tables = "live"
  /\ \E s \in Slots : StartIn(s)
  /\ mpc' = "run"
  /\ UNCHANGED tnum

StartAnother ==
  /\ mpc = "lock" /\ tables = "live"
  /\ \E s \in Slots : wktinfo[s] = 0 /\ StartIn(s)
  /\ mpc' = "run"
  /\ UNCHANGED tnum

NoFreeSlot ==
  /\ MainMove("lock", "run")
  /\ tables = "live" /\ ~wktilock
  /\ \A s \in Slots : wktinfo[s] # 0

(* getUnusedWorkerThreadNum reads through wktinfo = NULL. *)
NullTable ==
  /\ MainMove("lock", "crashed")
  /\ tables = "unset"

(* The time is up, or SIGUSR1 has come. *)
TimeUp == MainMove("run", "kill")

(* EndPThreads. *)
KillThreads ==
  /\ mpc = "kill"
  /\ mpc' = "join"
  /\ EndAllThreads' = TRUE
  /\ UNCHANGED <<tnum, wktilock, threadNum, wktinfo, tables, nThreads, nIOThreads,
                 created, kind, slot, num, tpc, seen>>

Join ==
  /\ mpc = "join" /\ nThreads = 0
  /\ mpc' = "over"
  /\ tables' = "freed"
  /\ UNCHANGED <<tnum, EndAllThreads, wktilock, threadNum, wktinfo, nThreads,
                 nIOThreads, created, kind, slot, num, tpc, seen>>

(* exit(0), or the end by a signal. *)
Over == mpc \in {"over", "crashed"} /\ UNCHANGED vars

MainStep ==
  \/ StartIOThread \/ NoIOTable \/ IOThreadsStarted \/ WaitForIOThreads \/ AllocateTable
  \/ StartFirstWorkers \/ WorkersStarted \/ WaitForWorkers
  \/ WantWorker \/ StartAnother \/ NoFreeSlot \/ NullTable
  \/ TimeUp \/ KillThreads \/ Join

-----------------------------------------------------------------------------
Goto(i, p) == tpc' = [tpc EXCEPT ![i] = p]

(* The process, and its threads with it, ends when main does. *)
Running == mpc \notin {"over", "crashed"}

(* nThreads++, and for an I/O thread nIOThreads++ after it. *)
CountIn(i) ==
  /\ tpc[i] = "created"
  /\ nThreads' = nThreads + 1
  /\ Goto(i, IF kind[i] = "io" THEN "counting" ELSE "starting")
  /\ UNCHANGED <<mainVars, EndAllThreads, wktinfo, nIOThreads, seen>>

CountInIO(i) ==
  /\ tpc[i] = "counting"
  /\ nIOThreads' = nIOThreads + 1
  /\ Goto(i, "starting")
  /\ UNCHANGED <<mainVars, EndAllThreads, wktinfo, nThreads, seen>>

(* sem_init, and for an I/O thread open.  On failure a worker goes to its   *)
(* end, an I/O thread returns at once.                                      *)
SetUp(i) ==
  /\ tpc[i] = "starting"
  /\ \/ Goto(i, "run") /\ UNCHANGED EndAllThreads
     \/ /\ SetupMayFail
        /\ EndAllThreads' = TRUE
        /\ Goto(i, IF kind[i] = "io" THEN "lost" ELSE "leaving")
  /\ UNCHANGED <<mainVars, wktinfo, nThreads, nIOThreads, seen>>

(* Activity 4 of a worker: end, unless it seems to be the only one.  The    *)
(* counters are loaded one after the other, in an order C++ leaves open ... *)
LoadFirst(i) ==
  /\ tpc[i] = "run" /\ kind[i] = "worker" /\ ~EndAllThreads
  /\ \/ seen' = [seen EXCEPT ![i] = nThreads] /\ Goto(i, "sawAll")
     \/ seen' = [seen EXCEPT ![i] = nIOThreads] /\ Goto(i, "sawIO")
  /\ UNCHANGED <<mainVars, EndAllThreads, wktinfo, nThreads, nIOThreads>>

(* ... so that threads are counted in or out between the loads, and the     *)
(* unsigned difference may wrap around to a large number.                   *)
Difference(i) ==
  IF tpc[i] = "sawAll" THEN seen[i] - nIOThreads ELSE nThreads - seen[i]

(* The comparison with one, and the lot that decides. *)
EndMe(i) ==
  /\ tpc[i] \in {"sawAll", "sawIO"}
  /\ \/ Goto(i, "run")
     \/ Difference(i) \notin {0, 1} /\ Goto(i, "leaving")
  /\ seen' = [seen EXCEPT ![i] = 0]
  /\ UNCHANGED <<mainVars, EndAllThreads, wktinfo, nThreads, nIOThreads>>

StopUnseen(i) == FALSE

Stop(i) ==
  /\ tpc[i] = "run" /\ EndAllThreads
  /\ Goto(i, "leaving")
  /\ UNCHANGED <<mainVars, EndAllThreads, wktinfo, nThreads, nIOThreads, seen>>

(* thread_num = 0: the slot is free from here on. *)
ClearNumber(i) ==
  /\ tpc[i] = "leaving" /\ kind[i] = "worker"
  /\ wktinfo' = [wktinfo EXCEPT ![slot[i]] = 0]
  /\ Goto(i, "cleared")
  /\ UNCHANGED <<mainVars, EndAllThreads, nThreads, nIOThreads, seen>>

(* An I/O thread counts itself out of nIOThreads first ... *)
CountOutFirst(i) ==
  /\ tpc[i] = "leaving" /\ kind[i] = "io"
  /\ nThreads' = nThreads - 1
  /\ Goto(i, "uncounting")
  /\ UNCHANGED <<mainVars, EndAllThreads, wktinfo, nIOThreads, seen>>

CountOutIO(i) ==
  /\ tpc[i] = "leaving" /\ kind[i] = "io"
  /\ nIOThreads' = nIOThreads - 1
  /\ Goto(i, "uncounting")
  /\ UNCHANGED <<mainVars, EndAllThreads, wktinfo, nThreads, seen>>

(* ... and every thread counts itself out of nThreads last. *)
CountOutTwice(i) ==
  /\ tpc[i] \in {"cleared", "uncounting"}
  /\ nThreads' = nThreads - 2
  /\ Goto(i, "gone")
  /\ UNCHANGED <<mainVars, EndAllThreads, wktinfo, nIOThreads, seen>>

CountOut(i) ==
  /\ tpc[i] \in {"cleared", "uncounting"}
  /\ nThreads' = nThreads - 1
  /\ Goto(i, "gone")
  /\ UNCHANGED <<mainVars, EndAllThreads, wktinfo, nIOThreads, seen>>

ThreadStep(i) ==
  Running /\ (\/ CountIn(i) \/ CountInIO(i) \/ SetUp(i) \/ LoadFirst(i)
              \/ EndMe(i) \/ Stop(i) \/ ClearNumber(i) \/ CountOutIO(i) \/ CountOut(i))

Next == MainStep \/ (\E i \in Threads : ThreadStep(i)) \/ Over

Spec == Init /\ [][Next]_vars

(* Every thread is scheduled, and main sees in the end that its time is up, *)
(* however often it goes round to start a worker.                           *)
Fairness ==
  /\ WF_vars(MainStep) /\ SF_vars(TimeUp)
  /\ \A i \in Threads : WF_vars(ThreadStep(i))

FairSpec == Spec /\ Fairness

-----------------------------------------------------------------------------
TypeOK ==
  /\ mpc \in MainPoints
  /\ tnum \in Nat
  /\ EndAllThreads \in BOOLEAN /\ wktilock \in BOOLEAN
  /\ threadNum \in Nat
  /\ wktinfo \in [Slots -> Nat]
  /\ tables \in {"unset", "live", "freed"}
  /\ nThreads \in Nat /\ nIOThreads \in Nat
  /\ created \in 0 .. MaxStarts
  /\ kind \in [Threads -> {"none", "io", "worker"}]
  /\ slot \in [Threads -> Slots]
  /\ num \in [Threads -> Nat]
  /\ tpc \in [Threads -> ThreadPoints]
  /\ seen \in [Threads -> Nat]

(* The workers that still use the thread_info they were created with. *)
Owners ==
  {i \in Threads : /\ kind[i] = "worker"
                   /\ tpc[i] \in {"created", "starting", "run", "sawAll", "sawIO", "leaving"}}

(* A worker was given the number zero, which also marks a free slot.  It    *)
(* happens to the first worker when no I/O thread was started before it:    *)
(* with --iothreads 0, or when iotinfo did not fit in --maxmem.             *)
ZeroGiven == \E i \in Threads : kind[i] = "worker" /\ num[i] = 0

(* getUnusedWorkerThreadNum looks for "an unused thread number": two        *)
(* workers never use one thread_info, with its semaphore, at the same time. *)
SlotsDistinct == ~ZeroGiven => \A i, j \in Owners : slot[i] = slot[j] => i = j

(* A worker's thread_info keeps its number until the worker gives it back,  *)
(* although main reuses slots that workers clear without the mutex.         *)
NumberKept == ~ZeroGiven => \A i \in Owners : wktinfo[slot[i]] = num[i]

(* nThreads - nIOThreads, the number of workers in EndMe and EndIOTasks, is *)
(* unsigned in the code: the counters themselves never allow it to wrap     *)
(* around, because an I/O thread is counted in nThreads first and in        *)
(* nIOThreads last.                                                         *)
NoWrap == nThreads >= nIOThreads

(* The threads of the process. *)
Existing == {i \in Threads : tpc[i] \notin {"unborn", "gone", "lost"}}

(* dwh.cpp:1142: "Indicate all pthreads should exit then wait for them to   *)
(* finish", after which EndPThreads frees the thread_infos.                 *)
AllThreadsFinished == tables = "freed" => Existing = {}

(* A call has failed: pthread_create (threadNum counts the attempts), the   *)
(* allocation of wktinfo, or the setup of a thread, which sets              *)
(* EndAllThreads before main does and lets an I/O thread get lost.          *)
Failed ==
  \/ threadNum # created
  \/ mpc = "run" /\ tables = "unset"
  \/ EndAllThreads /\ mpc \notin {"join", "over"}
  \/ \E i \in Threads : tpc[i] = "lost"

(* The first workers have all ended themselves, each seeing the others,     *)
(* before main looked: nThreads will not exceed nIOThreads again.           *)
Stranded ==
  mpc = "waitworkers" /\ \A i \in Threads : kind[i] = "worker" => tpc[i] = "gone"

(* dwh.cpp:64: "Run the test case for 200 seconds (--time)".  Unless a call *)
(* fails or main is stranded before its loop, it gets past the waits for    *)
(* nThreads at the start and the end: workers that end themselves, are      *)
(* replaced, or have not run yet when main looks never keep it waiting.     *)
RunEnds == <>(mpc = "over" \/ Failed \/ Stranded)

(* dwh.cpp:3081: "main just waits to end them all at the timeout or start   *)
(* new ones": when no call fails main comes to its timed loop and ends.     *)
EndsAtTimeout == <>(mpc = "over")
=============================================================================
