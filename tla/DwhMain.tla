------------------------------ MODULE DwhMain -------------------------------
(***************************************************************************)
(* The main function of dwh around its threads: the steps of the setup,    *)
(* each of which may fail and jump to "finished", the loop that watches    *)
(* the clock, and the cleanup that every way through main shares.  What    *)
(* the threads do meanwhile is in DwhThreads.                              *)
(*                                                                         *)
(* The clock is the system's: time(NULL) gives whole seconds, may be set   *)
(* back, and may fail, which is the value -1.                              *)
(***************************************************************************)
EXTENDS Integers, FiniteSets

CONSTANTS
  maxruntime,     \* --time
  SetupMayFail,   \* the steps of the setup and of the cleanup may fail
  ClockMayFail,   \* time(NULL) may return -1
  ClockMaySlip,   \* the clock may be set back while main sleeps
  StartTime,      \* the clock at the start, how far it can be set back
  MaxTime         \* bound: the clock and the count of the loop stop here

ASSUME MainAssumption ==
  /\ maxruntime \in Nat \ {0}
  /\ MaxTime \in Nat /\ StartTime \in Nat /\ StartTime + maxruntime < MaxTime
  /\ {SetupMayFail, ClockMayFail, ClockMaySlip} \subseteq BOOLEAN

(* The mutexes, in the order setupSyncObjects makes them. *)
SyncObjects == 1 .. 6

Unset == -2      \* the indeterminate value of i before the loop
Invalid == -1    \* (time_t)-1

VARIABLES
  mpc,          \* where main stands
  initObjects,  \* the mutexes that are initialised
  rd, wr,       \* ioReadStream and ioWriteStream are open
  file,         \* the data file exists
  undoFailed,   \* a call that undoes the setup has failed
  now,          \* the system's clock
  start, tElapsed, i, dElapsed, \* the variables of main
  sigStop,
  garbage       \* i was read before it was set

setupVars == <<initObjects, rd, wr, file, undoFailed>>
timeVars == <<now, start, tElapsed, i, dElapsed>>
mainVars == <<mpc, setupVars, timeVars, sigStop, garbage>>

Points == {"sigmask", "sync", "file", "threads", "loop", "sleep", "end", "finished",
           "cleanup", "destroy", "exit"}

MainInit ==
  /\ mpc = "sigmask"
  /\ initObjects = {}
  /\ rd = FALSE /\ wr = FALSE /\ file = FALSE /\ undoFailed = FALSE
  /\ now = StartTime
  /\ start = Invalid /\ tElapsed = Invalid /\ i = Unset /\ dElapsed = 0
  /\ sigStop = FALSE /\ garbage = FALSE

Move(from, to) == mpc = from /\ mpc' = to

(* GetElapsed: no duration shorter than a second, and none that is negative. *)
GetElapsedSigned(from, to) ==
  CASE from = Invalid \/ to = Invalid -> Invalid
    [] from # Invalid /\ to # Invalid /\ to = from -> 1
    [] OTHER -> to - from

GetElapsed(from, to) ==
  CASE from = Invalid \/ to = Invalid -> Invalid
    [] from # Invalid /\ to # Invalid /\ to = from -> 1
    [] from # Invalid /\ to # Invalid /\ to > from -> to - from
    [] OTHER -> Invalid

(* What time(NULL) may return when the clock stands at t. *)
Readings(t) == {t} \cup (IF ClockMayFail THEN {Invalid} ELSE {})

AtMost(n) == IF n > MaxTime THEN MaxTime ELSE n

-----------------------------------------------------------------------------
setSigMask ==
  /\ mpc = "sigmask"
  /\ mpc' \in {"sync"} \cup (IF SetupMayFail THEN {"finished"} ELSE {})
  /\ UNCHANGED <<setupVars, timeVars, sigStop, garbage>>

setupSyncObjects ==
  /\ mpc = "sync"
  /\ \/ /\ initObjects' = SyncObjects
        /\ mpc' = "file"
     \/ /\ SetupMayFail
        /\ \E k \in SyncObjects : initObjects' = 1 .. k - 1
        /\ mpc' = "finished"
  /\ UNCHANGED <<rd, wr, file, undoFailed, timeVars, sigStop, garbage>>

(* The file is created by the first fopen; the second, or the filling of the *)
(* file, may fail after it.                                                 *)
setupDataFile ==
  /\ mpc = "file"
  /\ \/ /\ wr' = TRUE /\ rd' = TRUE /\ file' = TRUE
        /\ mpc' = "threads"
     \/ /\ SetupMayFail
        /\ \/ UNCHANGED <<wr, rd, file>>
           \/ wr' = TRUE /\ file' = TRUE /\ rd' \in BOOLEAN
        /\ mpc' = "finished"
  /\ UNCHANGED <<initObjects, undoFailed, timeVars, sigStop, garbage>>

(* The threads are started, and the clock is read. *)
StartThreads ==
  /\ Move("threads", "loop")
  /\ start' \in Readings(now)
  /\ tElapsed' = 0
  /\ i' = 0
  /\ UNCHANGED <<setupVars, now, dElapsed, sigStop, garbage>>

LoopGuard ==
  \/ tElapsed < maxruntime
  \/ tElapsed = Invalid /\ i < maxruntime

(* A second or two pass, or the clock is set back. *)
Pass ==
  \/ now' \in {AtMost(now + 1), AtMost(now + 2)}
  \/ ClockMaySlip /\ now' \in 0 .. now

(* One round of the loop: sleep(1), then read the clock and count. *)
Sleep ==
  /\ Move("loop", "sleep")
  /\ LoopGuard /\ ~sigStop
  /\ Pass
  /\ UNCHANGED <<setupVars, start, tElapsed, i, dElapsed, sigStop, garbage>>

TickUnread ==
  /\ Move("sleep", "loop")
  /\ i' = AtMost(i + 1)
  /\ UNCHANGED <<setupVars, now, start, tElapsed, dElapsed, sigStop, garbage>>

Tick ==
  /\ Move("sleep", "loop")
  /\ \E t \in Readings(now) : tElapsed' = GetElapsed(start, t)
  /\ i' = AtMost(i + 1)
  /\ UNCHANGED <<setupVars, now, start, dElapsed, sigStop, garbage>>

(* The loop ends: the time is up, a worker has seen SIGUSR1, or             *)
(* pthread_attr_destroy has failed.                                         *)
LoopEnd ==
  /\ Move("loop", "end")
  /\ ~LoopGuard \/ sigStop \/ SetupMayFail
  /\ UNCHANGED <<setupVars, timeVars, sigStop, garbage>>

(* A worker gets SIGUSR1 from sigtimedwait. *)
Signal ==
  /\ mpc \in {"loop", "sleep"} /\ ~sigStop
  /\ sigStop' = TRUE
  /\ UNCHANGED <<mpc, setupVars, timeVars, garbage>>

(* EndIOTasks, which may have to wait, the clock once more, EndPThreads. *)
EndThreads ==
  /\ Move("end", "finished")
  /\ Pass \/ UNCHANGED now
  /\ \E t \in Readings(now') : tElapsed' = GetElapsed(start, t)
  /\ UNCHANGED <<setupVars, start, i, dElapsed, sigStop, garbage>>

(* The label "finished": the time to report. *)
ReportFrom(useCount) ==
  /\ Move("finished", "cleanup")
  /\ IF useCount
     THEN /\ tElapsed' = i
          /\ dElapsed' = IF i <= 0 THEN 1 ELSE i
          /\ garbage' = (i = Unset)
     ELSE UNCHANGED <<tElapsed, dElapsed, garbage>>
  /\ UNCHANGED <<setupVars, now, start, i, sigStop>>

FinishedWhenInvalid == ReportFrom(tElapsed = Invalid)

Finished == ReportFrom(tElapsed # Invalid)

(* cleanupDataFile, after clearIOQueues: the file goes with the stream that *)
(* created it.                                                              *)
CleanupByReader ==
  /\ Move("cleanup", "destroy")
  /\ rd' = FALSE /\ wr' = FALSE
  /\ \/ file' = (file /\ ~rd) /\ UNCHANGED undoFailed
     \/ SetupMayFail /\ undoFailed' = TRUE /\ file' \in {file, FALSE}
  /\ UNCHANGED <<initObjects, timeVars, sigStop, garbage>>

cleanupDataFile ==
  /\ Move("cleanup", "destroy")
  /\ rd' = FALSE /\ wr' = FALSE
  /\ \/ file' = (file /\ ~wr) /\ UNCHANGED undoFailed
     \/ SetupMayFail /\ undoFailed' = TRUE /\ file' \in {file, FALSE}
  /\ UNCHANGED <<initObjects, timeVars, sigStop, garbage>>

(* Last made first; it stops at the first failure. *)
destroySyncObjects ==
  /\ Move("destroy", "exit")
  /\ \/ initObjects' = {} /\ UNCHANGED undoFailed
     \/ /\ SetupMayFail
        /\ \E k \in initObjects : initObjects' = 1 .. k
        /\ undoFailed' = TRUE
  /\ UNCHANGED <<rd, wr, file, timeVars, sigStop, garbage>>

MainOver == mpc = "exit" /\ UNCHANGED mainVars

MainStep ==
  \/ setSigMask \/ setupSyncObjects \/ setupDataFile \/ StartThreads
  \/ Sleep \/ Tick \/ LoopEnd \/ EndThreads \/ Finished \/ cleanupDataFile \/ destroySyncObjects

MainNext == MainStep \/ Signal \/ MainOver

MainSpec == MainInit /\ [][MainNext]_mainVars

-----------------------------------------------------------------------------
MainTypeOK ==
  /\ mpc \in Points
  /\ initObjects \subseteq SyncObjects
  /\ {rd, wr, file, undoFailed, sigStop, garbage} \subseteq BOOLEAN
  /\ now \in Nat /\ dElapsed \in Nat
  /\ start \in Nat \cup {Invalid}
  /\ tElapsed \in Nat \cup {Invalid}
  /\ i \in Nat \cup {Unset}

(* The jumps to "finished" leave i unset, and main never reads it then: it  *)
(* reads i only when tElapsed was computed, which is after the loop.        *)
CountKnown == ~garbage

(* Whatever step of the setup fails, main undoes the steps before it: at    *)
(* exit no data file and no mutex is left unless undoing it has failed.     *)
SetupUndone == mpc = "exit" /\ ~undoFailed => ~file /\ initObjects = {}

(* dwh.cpp:64: "Run the test case for 200 seconds (--time)": main comes to  *)
(* its end if from some time on the clock can be read and goes forward,     *)
(* however often it could not be read or was set back before.  (A clock     *)
(* that is never readable keeps the loop going for ever: tElapsed is then   *)
(* -1, below maxruntime, and the count of rounds is not looked at.)         *)
RunEnds ==
  /\ <>[](tElapsed # Invalid)
  /\ <>[][Sleep => now' > now \/ now = MaxTime]_mainVars
  => <>(mpc = "exit")

(* dwh.cpp:3157: "If the computed elapsed time is invalid use the number of *)
(* runtime loop iterations as-if they were seconds and if that isn't usable *)
(* assume 1 second": the time that the rates are computed from is the one   *)
(* computed by GetElapsed when there is one, and never zero.                *)
ElapsedReported ==
  [][Finished => IF tElapsed = Invalid
                 THEN dElapsed' >= 1
                 ELSE dElapsed' = tElapsed]_mainVars
=============================================================================
