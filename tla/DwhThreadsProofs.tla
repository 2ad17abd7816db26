-------------------------- MODULE DwhThreadsProofs --------------------------
(***************************************************************************)
(* Proofs about DwhThreads, for every number of threads and restarts and   *)
(* with every failure allowed.  The counters equal the sizes of two sets   *)
(* of threads, one contained in the other, so their difference does not    *)
(* wrap.  Slots are never shared as long as no worker is given the number  *)
(* zero, which holds when there are I/O threads, created before the first  *)
(* worker, and the table of the I/O threads can be allocated.              *)
(***************************************************************************)
EXTENDS DwhThreads, FiniteSetTheorems, TLAPS

(* The threads that have added to nThreads and not subtracted. *)
Counted ==
  {i \in Threads : tpc[i] \in {"counting", "starting", "run", "sawAll", "sawIO",
                               "leaving", "cleared", "uncounting", "lost"}}

IOCounted ==
  {i \in Threads : kind[i] = "io" /\ tpc[i] \in {"starting", "run", "leaving", "lost"}}

(* Kind and point go together, and only created threads have either. *)
KindsOK ==
  \A i \in Threads :
    /\ tpc[i] = "unborn" <=> i > created
    /\ tpc[i] # "unborn" <=> kind[i] \in {"io", "worker"}
    /\ tpc[i] \in {"counting", "uncounting", "lost"} => kind[i] = "io"
    /\ tpc[i] \in {"sawAll", "sawIO", "cleared"} => kind[i] = "worker"

CountsOK == nThreads = Cardinality(Counted) /\ nIOThreads = Cardinality(IOCounted)

CountInv == TypeOK /\ KindsOK /\ CountsOK

LEMMA SettingsFacts ==
  /\ minworkers \in Nat /\ minworkers > 0 /\ maxworkers \in Nat /\ minworkers <= maxworkers
  /\ 0 \in Slots
BY ThreadsAssumption DEF minworkers, maxworkers, Slots

LEMMA SetsFinite ==
  /\ IsFiniteSet(Threads)
  /\ IsFiniteSet(Counted) /\ IsFiniteSet(IOCounted)
  /\ Cardinality(Counted) \in Nat /\ Cardinality(IOCounted) \in Nat
<1>1. IsFiniteSet(Threads)
  BY FS_Interval, ThreadsAssumption DEF Threads
<1>2. IsFiniteSet(Counted) /\ IsFiniteSet(IOCounted)
  BY <1>1, FS_Subset, Counted \subseteq Threads, IOCounted \subseteq Threads
     DEF Counted, IOCounted
<1> QED BY <1>1, <1>2, FS_CardinalityType

LEMMA CountInit == Init => CountInv
<1> SUFFICES ASSUME Init PROVE CountInv
  OBVIOUS
<1>1. Counted = {} /\ IOCounted = {}
  BY DEF Init, Counted, IOCounted
<1>2. CountsOK
  BY <1>1, FS_EmptySet DEF CountsOK, Init
<1>3. KindsOK
  BY DEF Init, KindsOK, Threads
<1>4. EndAllThreads \in BOOLEAN /\ wktilock \in BOOLEAN
  BY Zenon DEF Init
<1>5. TypeOK
  BY <1>4, SettingsFacts, ThreadsAssumption
     DEF Init, TypeOK, MainPoints, ThreadPoints, Slots
<1> QED BY <1>2, <1>3, <1>5 DEF CountInv

(* A step that leaves the counters and the sets they count alone. *)
LEMMA CountFrame ==
  ASSUME CountsOK, UNCHANGED <<nThreads, nIOThreads>>,
         Counted' = Counted, IOCounted' = IOCounted
  PROVE  CountsOK'
BY DEF CountsOK

LEMMA CreateKeeps ==
  ASSUME CountInv, NEW k \in {"io", "worker"}, NEW s \in Slots,
         Create(k, s) \/ CreateFails, UNCHANGED <<nThreads, nIOThreads>>
  PROVE  /\ KindsOK' /\ CountsOK'
         /\ created' \in 0 .. MaxStarts /\ threadNum' \in Nat
         /\ kind' \in [Threads -> {"none", "io", "worker"}]
         /\ slot' \in [Threads -> Slots] /\ num' \in [Threads -> Nat]
         /\ tpc' \in [Threads -> ThreadPoints]
<1> USE ThreadsAssumption
<1>1. CASE CreateFails
  <2>1. UNCHANGED <<created, kind, slot, num, tpc>> /\ threadNum' = threadNum + 1
    BY <1>1 DEF CreateFails
  <2>2. Counted' = Counted /\ IOCounted' = IOCounted
    BY <2>1 DEF Counted, IOCounted
  <2> QED BY <2>1, <2>2, CountFrame DEF CountInv, TypeOK, KindsOK
<1>2. CASE Create(k, s)
  <2>1. PICK i \in Threads : i = created + 1
    BY <1>2 DEF Create, CountInv, TypeOK, Threads
  <2>2. /\ created' = i /\ kind' = [kind EXCEPT ![i] = k] /\ slot' = [slot EXCEPT ![i] = s]
        /\ num' = [num EXCEPT ![i] = threadNum] /\ tpc' = [tpc EXCEPT ![i] = "created"]
        /\ threadNum' = threadNum + 1
    BY <1>2, <2>1 DEF Create
  <2>3. tpc[i] = "unborn"
    BY <2>1 DEF CountInv, KindsOK, TypeOK
  <2>4. Counted' = Counted /\ IOCounted' = IOCounted
    BY <2>2, <2>3 DEF Counted, IOCounted, CountInv, TypeOK
  <2>5. KindsOK'
    <3>1. \A j \in Threads : j # i => kind'[j] = kind[j] /\ tpc'[j] = tpc[j]
      BY <2>2 DEF CountInv, TypeOK
    <3>2. kind'[i] = k /\ tpc'[i] = "created"
      BY <2>2 DEF CountInv, TypeOK
    <3>3. \A j \in Threads : j # i => (j > created' <=> j > created)
      BY <2>1, <2>2 DEF CountInv, TypeOK, Threads
    <3>4. ~(i > created')
      BY <2>2 DEF Threads
    <3> QED BY <3>1, <3>2, <3>3, <3>4 DEF KindsOK, CountInv
  <2>6. created' \in 0 .. MaxStarts /\ threadNum' \in Nat
    BY <2>1, <2>2 DEF CountInv, TypeOK, Threads
  <2> QED BY <2>2, <2>4, <2>5, <2>6, CountFrame DEF CountInv, TypeOK, ThreadPoints
<1> QED BY <1>1, <1>2

LEMMA MainCounts ==
  ASSUME CountInv, MainStep
  PROVE  CountInv'
<1> USE DEF CountInv
<1>m. ASSUME NEW from \in MainPoints, NEW to \in MainPoints, MainMove(from, to)
      PROVE  CountInv'
  <2>1. Counted' = Counted /\ IOCounted' = IOCounted
    BY <1>m DEF MainMove, Counted, IOCounted
  <2> QED BY <1>m, <2>1, CountFrame DEF MainMove, TypeOK, KindsOK
<1>1. CASE StartIOThread
  <2>1. \/ Create("io", 0) \/ CreateFails
    BY <1>1 DEF StartIOThread
  <2>2. /\ tnum' \in Nat /\ mpc' \in MainPoints
        /\ UNCHANGED <<EndAllThreads, wktilock, wktinfo, tables, nThreads, nIOThreads, seen>>
    BY <1>1 DEF StartIOThread, TypeOK, MainPoints
  <2> QED BY <2>1, <2>2, CreateKeeps, SettingsFacts DEF TypeOK
<1>2. CASE AllocateTable
  <2>1. /\ tnum' = 0 /\ tables' \in {"unset", "live", "freed"} /\ mpc' \in MainPoints
        /\ UNCHANGED <<EndAllThreads, wktilock, threadNum, wktinfo, nThreads, nIOThreads,
                 created, kind, slot, num, tpc, seen>>
    BY <1>2 DEF AllocateTable, TypeOK, MainPoints
  <2>2. Counted' = Counted /\ IOCounted' = IOCounted
    BY <2>1 DEF Counted, IOCounted
  <2> QED BY <2>1, <2>2, CountFrame DEF TypeOK, KindsOK
<1>s. ASSUME NEW s \in Slots, StartIn(s), tnum' \in Nat, mpc' \in MainPoints
      PROVE  CountInv'
  <2>1. Create("worker", s) \/ CreateFails
    BY <1>s DEF StartIn
  <2>2. wktinfo' \in [Slots -> Nat] /\ UNCHANGED <<EndAllThreads, tables, nThreads, nIOThreads, seen>>
    BY <1>s DEF StartIn, TypeOK
  <2>3. wktilock' \in BOOLEAN
    <3>1. wktilock' = wktilock \/ wktilock' = TRUE
      BY <1>s DEF StartIn
    <3> QED BY <3>1, Zenon DEF TypeOK
  <2> QED BY <1>s, <2>1, <2>2, <2>3, CreateKeeps DEF TypeOK
<1>3. CASE StartFirstWorkers
  <2>1. tnum \in Slots /\ tnum' \in Nat /\ mpc' \in MainPoints /\ StartIn(tnum)
    BY <1>3, SettingsFacts DEF StartFirstWorkers, TypeOK, Slots, MainPoints
  <2> QED BY <2>1, <1>s
<1>4. CASE StartAnother
  <2>1. PICK s \in Slots : StartIn(s)
    BY <1>4 DEF StartAnother
  <2>2. tnum' \in Nat /\ mpc' \in MainPoints
    BY <1>4 DEF StartAnother, TypeOK, MainPoints
  <2> QED BY <2>1, <2>2, <1>s
<1>5. CASE KillThreads
  <2>1. /\ mpc' = "join" /\ EndAllThreads' = TRUE
        /\ UNCHANGED <<tnum, wktilock, threadNum, wktinfo, tables, nThreads, nIOThreads,
                       created, kind, slot, num, tpc, seen>>
    BY <1>5 DEF KillThreads
  <2>2. Counted' = Counted /\ IOCounted' = IOCounted
    BY <2>1 DEF Counted, IOCounted
  <2>3. EndAllThreads' \in BOOLEAN
    BY <2>1, Zenon
  <2> QED BY <2>1, <2>2, <2>3, CountFrame DEF TypeOK, KindsOK, MainPoints
<1>6. CASE Join
  <2>1. /\ mpc' = "over" /\ tables' = "freed"
        /\ UNCHANGED <<tnum, EndAllThreads, wktilock, threadNum, wktinfo, nThreads,
                       nIOThreads, created, kind, slot, num, tpc, seen>>
    BY <1>6 DEF Join
  <2>2. Counted' = Counted /\ IOCounted' = IOCounted
    BY <2>1 DEF Counted, IOCounted
  <2> QED BY <2>1, <2>2, CountFrame DEF TypeOK, KindsOK, MainPoints
<1>7. CASE NoIOTable \/ IOThreadsStarted \/ WaitForIOThreads \/ WorkersStarted
           \/ WaitForWorkers \/ WantWorker \/ NoFreeSlot \/ NullTable \/ TimeUp
  BY <1>7, <1>m DEF NoIOTable, IOThreadsStarted, WaitForIOThreads, WorkersStarted,
       WaitForWorkers, WantWorker, NoFreeSlot, NullTable, TimeUp, MainPoints
<1> QED BY <1>1, <1>2, <1>3, <1>4, <1>5, <1>6, <1>7 DEF MainStep

LEMMA ThreadCounts ==
  ASSUME CountInv, NEW i \in Threads, ThreadStep(i)
  PROVE  CountInv'
<1> USE DEF CountInv
<1>0. /\ tpc \in [Threads -> ThreadPoints] /\ kind[i] \in {"none", "io", "worker"}
      /\ nThreads \in Nat /\ nIOThreads \in Nat /\ slot[i] \in Slots
  BY DEF TypeOK
<1>t. ASSUME UNCHANGED mainVars, NEW p \in ThreadPoints, tpc' = [tpc EXCEPT ![i] = p],
             nThreads' \in Nat, nIOThreads' \in Nat, EndAllThreads' \in BOOLEAN,
             wktinfo' \in [Slots -> Nat], seen' \in [Threads -> Nat]
      PROVE  TypeOK'
  BY <1>t DEF TypeOK, mainVars
<1>1. CASE CountIn(i)
  <2>1. PICK p \in {"counting", "starting"} : /\ tpc' = [tpc EXCEPT ![i] = p]
                                              /\ p = "counting" <=> kind[i] = "io"
    BY <1>1 DEF CountIn, Goto
  <2>2. /\ tpc[i] = "created" /\ nThreads' = nThreads + 1
        /\ UNCHANGED <<mainVars, EndAllThreads, wktinfo, nIOThreads, seen>>
    BY <1>1 DEF CountIn
  <2>3. Counted' = Counted \cup {i} /\ i \notin Counted /\ IOCounted' = IOCounted
    BY <1>0, <2>1, <2>2 DEF Counted, IOCounted, mainVars
  <2>4. CountsOK'
    BY <2>2, <2>3, SetsFinite, FS_AddElement DEF CountsOK
  <2>5. KindsOK'
    BY <1>0, <2>1, <2>2 DEF KindsOK, mainVars
  <2>6. p \in ThreadPoints /\ nThreads' \in Nat /\ nIOThreads' \in Nat
    BY <1>0, <2>2 DEF ThreadPoints
  <2>7. TypeOK'
    BY <1>t, <2>1, <2>2, <2>6 DEF TypeOK
  <2> QED BY <2>4, <2>5, <2>7
<1>2. CASE CountInIO(i)
  <2>1. /\ tpc[i] = "counting" /\ tpc' = [tpc EXCEPT ![i] = "starting"]
        /\ nIOThreads' = nIOThreads + 1
        /\ UNCHANGED <<mainVars, EndAllThreads, wktinfo, nThreads, seen>>
    BY <1>2 DEF CountInIO, Goto
  <2>2. kind[i] = "io"
    BY <2>1 DEF KindsOK
  <2>3. IOCounted' = IOCounted \cup {i} /\ i \notin IOCounted /\ Counted' = Counted
    BY <1>0, <2>1, <2>2 DEF Counted, IOCounted, mainVars
  <2>4. CountsOK'
    BY <2>1, <2>3, SetsFinite, FS_AddElement DEF CountsOK
  <2>5. KindsOK'
    BY <1>0, <2>1, <2>2 DEF KindsOK, mainVars
  <2> QED BY <1>0, <1>t, <2>1, <2>4, <2>5 DEF TypeOK, ThreadPoints
<1>3. CASE SetUp(i)
  <2>1. PICK p \in {"run", "lost", "leaving"} :
          tpc' = [tpc EXCEPT ![i] = p] /\ (p = "lost" => kind[i] = "io")
    BY <1>3 DEF SetUp, Goto
  <2>2. tpc[i] = "starting" /\ UNCHANGED <<mainVars, wktinfo, nThreads, nIOThreads, seen>>
    BY <1>3 DEF SetUp
  <2>3. EndAllThreads' \in BOOLEAN
    <3>1. EndAllThreads' = EndAllThreads \/ EndAllThreads' = TRUE
      BY <1>3 DEF SetUp
    <3> QED BY <3>1, Zenon DEF TypeOK
  <2>4. Counted' = Counted /\ IOCounted' = IOCounted
    BY <1>0, <2>1, <2>2 DEF Counted, IOCounted, mainVars
  <2>5. KindsOK'
    BY <1>0, <2>1, <2>2 DEF KindsOK, mainVars
  <2>6. p \in ThreadPoints
    BY DEF ThreadPoints
  <2> QED BY <1>0, <1>t, <2>1, <2>2, <2>3, <2>4, <2>5, <2>6, CountFrame DEF TypeOK
<1>4. CASE LoadFirst(i) \/ EndMe(i) \/ Stop(i)
  <2>1. PICK p \in {"run", "sawAll", "sawIO", "leaving"} :
          /\ tpc' = [tpc EXCEPT ![i] = p]
          /\ p \in {"sawAll", "sawIO"} => kind[i] = "worker"
    BY <1>4 DEF LoadFirst, EndMe, Stop, Goto
  <2>2. /\ tpc[i] \in {"run", "sawAll", "sawIO"}
        /\ UNCHANGED <<mainVars, EndAllThreads, wktinfo, nThreads, nIOThreads>>
    BY <1>4 DEF LoadFirst, EndMe, Stop
  <2>3. seen' \in [Threads -> Nat]
    BY <1>4 DEF LoadFirst, EndMe, Stop, TypeOK
  <2>4. Counted' = Counted /\ IOCounted' = IOCounted
    BY <1>0, <2>1, <2>2 DEF Counted, IOCounted, mainVars, KindsOK
  <2>5. KindsOK'
    BY <1>0, <2>1, <2>2 DEF KindsOK, mainVars
  <2>6. p \in ThreadPoints
    BY DEF ThreadPoints
  <2> QED BY <1>0, <1>t, <2>1, <2>2, <2>3, <2>4, <2>5, <2>6, CountFrame DEF TypeOK
<1>5. CASE ClearNumber(i)
  <2>1. /\ tpc[i] = "leaving" /\ kind[i] = "worker"
        /\ tpc' = [tpc EXCEPT ![i] = "cleared"]
        /\ wktinfo' = [wktinfo EXCEPT ![slot[i]] = 0]
        /\ UNCHANGED <<mainVars, EndAllThreads, nThreads, nIOThreads, seen>>
    BY <1>5 DEF ClearNumber, Goto
  <2>2. Counted' = Counted /\ IOCounted' = IOCounted
    BY <1>0, <2>1 DEF Counted, IOCounted, mainVars
  <2>3. KindsOK'
    BY <1>0, <2>1 DEF KindsOK, mainVars
  <2>4. wktinfo' \in [Slots -> Nat]
    BY <1>0, <2>1 DEF TypeOK
  <2> QED BY <1>0, <1>t, <2>1, <2>2, <2>3, <2>4, CountFrame DEF TypeOK, ThreadPoints
<1>6. CASE CountOutIO(i)
  <2>1. /\ tpc[i] = "leaving" /\ kind[i] = "io" /\ tpc' = [tpc EXCEPT ![i] = "uncounting"]
        /\ nIOThreads' = nIOThreads - 1
        /\ UNCHANGED <<mainVars, EndAllThreads, wktinfo, nThreads, seen>>
    BY <1>6 DEF CountOutIO, Goto
  <2>2. IOCounted' = IOCounted \ {i} /\ i \in IOCounted /\ Counted' = Counted
    BY <1>0, <2>1 DEF Counted, IOCounted, mainVars
  <2>3. CountsOK' /\ nIOThreads' \in Nat
    <3>1. /\ Cardinality(IOCounted \ {i}) = Cardinality(IOCounted) - 1
          /\ IsFiniteSet(IOCounted \ {i})
      BY <2>2, SetsFinite, FS_RemoveElement
    <3>2. Cardinality(IOCounted \ {i}) \in Nat
      BY <3>1, FS_CardinalityType
    <3> QED BY <2>1, <2>2, <3>1, <3>2 DEF CountsOK
  <2>4. KindsOK'
    BY <1>0, <2>1 DEF KindsOK, mainVars
  <2> QED BY <1>0, <1>t, <2>1, <2>3, <2>4 DEF TypeOK, ThreadPoints
<1>7. CASE CountOut(i)
  <2>1. /\ tpc[i] \in {"cleared", "uncounting"} /\ tpc' = [tpc EXCEPT ![i] = "gone"]
        /\ nThreads' = nThreads - 1
        /\ UNCHANGED <<mainVars, EndAllThreads, wktinfo, nIOThreads, seen>>
    BY <1>7 DEF CountOut, Goto
  <2>2. Counted' = Counted \ {i} /\ i \in Counted /\ IOCounted' = IOCounted
    BY <1>0, <2>1 DEF Counted, IOCounted, mainVars
  <2>3. CountsOK' /\ nThreads' \in Nat
    <3>1. /\ Cardinality(Counted \ {i}) = Cardinality(Counted) - 1
          /\ IsFiniteSet(Counted \ {i})
      BY <2>2, SetsFinite, FS_RemoveElement
    <3>2. Cardinality(Counted \ {i}) \in Nat
      BY <3>1, FS_CardinalityType
    <3> QED BY <2>1, <2>2, <3>1, <3>2 DEF CountsOK
  <2>4. KindsOK'
    BY <1>0, <2>1 DEF KindsOK, mainVars
  <2> QED BY <1>0, <1>t, <2>1, <2>3, <2>4 DEF TypeOK, ThreadPoints
<1> QED BY <1>1, <1>2, <1>3, <1>4, <1>5, <1>6, <1>7 DEF ThreadStep

LEMMA CountUnchanged ==
  ASSUME CountInv, UNCHANGED vars
  PROVE  CountInv'
<1>1. Counted' = Counted /\ IOCounted' = IOCounted
  BY DEF vars, Counted, IOCounted
<1> QED BY <1>1, CountFrame DEF vars, CountInv, TypeOK, KindsOK

(* The counters are the sizes of the sets of threads they stand for, with   *)
(* every failure and restart.                                               *)
THEOREM CountsExact == Spec => []CountInv
<1>1. CountInv /\ [Next]_vars => CountInv'
  BY MainCounts, ThreadCounts, CountUnchanged DEF Next, Over
<1> QED BY CountInit, <1>1, PTL DEF Spec

(* The variables of the thread life cycle keep their types; in particular   *)
(* the unsigned counters never go below zero.                               *)
THEOREM ThreadTypes == Spec => []TypeOK
BY CountsExact, PTL DEF CountInv

(* nThreads - nIOThreads never wraps around, in any interleaving.           *)
THEOREM WorkersNeverWrap == Spec => []NoWrap
<1>1. CountInv => NoWrap
  <2> SUFFICES ASSUME CountInv PROVE NoWrap
    OBVIOUS
  <2>1. IOCounted \subseteq Counted
    BY DEF IOCounted, Counted
  <2>2. Cardinality(IOCounted) <= Cardinality(Counted)
    BY <2>1, SetsFinite, FS_Subset
  <2> QED BY <2>2, SetsFinite DEF CountInv, CountsOK, NoWrap
<1> QED BY <1>1, CountsExact, PTL

-----------------------------------------------------------------------------
(* Slots.  A slot that holds zero has no owner, because every number given  *)
(* to a worker is positive; and the first workers get slots 0, 1, 2, ...    *)
SlotInv ==
  /\ \A i \in Threads : kind[i] = "worker" => mpc \notin {"io", "waitio", "table"}
  /\ mpc = "workers" => \A i \in Threads : kind[i] = "worker" => slot[i] < tnum
  /\ NumberKept /\ SlotsDistinct

LEMMA SlotInit == Init => SlotInv
BY DEF Init, SlotInv, Owners, NumberKept, SlotsDistinct

(* A worker is started in a slot that nobody owns. *)
LEMMA SlotStart ==
  ASSUME CountInv, SlotInv, NEW s \in Slots, StartIn(s), mpc \in {"workers", "lock"},
         ~ZeroGiven => \A i \in Owners : slot[i] # s
  PROVE  /\ NumberKept' /\ SlotsDistinct'
         /\ \A i \in Threads : kind'[i] = "worker" /\ slot'[i] # s => kind[i] = "worker" /\ slot'[i] = slot[i]
<1> USE DEF CountInv
<1>1. CASE CreateFails /\ wktinfo' = [wktinfo EXCEPT ![s] = 0]
  <2>1. UNCHANGED <<created, kind, slot, num, tpc>>
    BY <1>1 DEF CreateFails
  <2>2. Owners' = Owners /\ ZeroGiven' = ZeroGiven
    BY <2>1 DEF Owners, ZeroGiven
  <2>3. \A i \in Owners : i \in Threads /\ slot[i] \in Slots
    BY DEF Owners, TypeOK
  <2>4. ~ZeroGiven => \A i \in Owners : wktinfo'[slot[i]] = wktinfo[slot[i]]
    BY <1>1, <2>3 DEF TypeOK
  <2>5. NumberKept'
    BY <2>1, <2>2, <2>4 DEF SlotInv, NumberKept
  <2>6. SlotsDistinct'
    BY <2>1, <2>2 DEF SlotInv, SlotsDistinct
  <2> QED BY <2>1, <2>5, <2>6
<1>2. CASE Create("worker", s) /\ wktinfo' = [wktinfo EXCEPT ![s] = threadNum]
  <2>1. PICK k \in Threads : k = created + 1
    BY <1>2, ThreadsAssumption DEF Create, TypeOK, Threads
  <2>2. /\ kind' = [kind EXCEPT ![k] = "worker"] /\ slot' = [slot EXCEPT ![k] = s]
        /\ num' = [num EXCEPT ![k] = threadNum] /\ tpc' = [tpc EXCEPT ![k] = "created"]
    BY <1>2, <2>1 DEF Create
  <2>3. k \notin Owners /\ kind[k] # "worker"
    BY <2>1 DEF KindsOK, Owners, TypeOK
  <2>4. Owners' = Owners \cup {k}
    BY <2>2 DEF Owners, TypeOK
  <2>5. ZeroGiven => ZeroGiven'
    BY <2>2, <2>3 DEF ZeroGiven, TypeOK
  <2>6. ~ZeroGiven =>
          \A i \in Owners : /\ i \in Threads /\ slot[i] \in Slots /\ slot'[i] = slot[i]
                            /\ num'[i] = num[i] /\ wktinfo'[slot[i]] = wktinfo[slot[i]]
    BY <1>2, <2>2, <2>3 DEF Owners, TypeOK
  <2>7. num'[k] = threadNum /\ slot'[k] = s /\ wktinfo'[s] = threadNum
    BY <1>2, <2>2 DEF TypeOK
  <2>8. NumberKept'
    BY <2>4, <2>5, <2>6, <2>7 DEF SlotInv, NumberKept
  <2>9. SlotsDistinct'
    BY <2>4, <2>5, <2>6, <2>7 DEF SlotInv, SlotsDistinct
  <2>10. \A i \in Threads : kind'[i] = "worker" /\ slot'[i] # s => kind[i] = "worker" /\ slot'[i] = slot[i]
    BY <2>2 DEF TypeOK
  <2> QED BY <2>8, <2>9, <2>10
<1> QED BY <1>1, <1>2 DEF StartIn

(* A step that gives no slot away and adds no worker. *)
LEMMA SlotFrame ==
  ASSUME CountInv, CountInv', SlotInv, UNCHANGED <<kind, slot, num>>,
         Owners' \subseteq Owners,
         ~ZeroGiven => \A i \in Owners' : wktinfo'[slot[i]] = wktinfo[slot[i]]
  PROVE  NumberKept' /\ SlotsDistinct'
<1>1. ZeroGiven' = ZeroGiven
  BY DEF ZeroGiven
<1> QED BY <1>1 DEF SlotInv, NumberKept, SlotsDistinct

LEMMA SlotMain ==
  ASSUME CountInv, CountInv', SlotInv, MainStep
  PROVE  SlotInv'
<1>0. tnum \in Nat
  BY DEF CountInv, TypeOK
<1>m. ASSUME UNCHANGED <<wktinfo, kind, slot, num, tpc>>
      PROVE  NumberKept' /\ SlotsDistinct'
  <2>1. Owners' = Owners
    BY <1>m DEF Owners
  <2> QED BY <1>m, <2>1, SlotFrame
<1>1. CASE StartIOThread
  <2>1. CASE CreateFails
    BY <1>1, <1>m, <2>1 DEF StartIOThread, CreateFails, SlotInv
  <2>2. CASE Create("io", 0)
    <3>1. PICK k \in Threads : k = created + 1
      BY <2>2, ThreadsAssumption DEF Create, CountInv, TypeOK, Threads
    <3>2. kind' = [kind EXCEPT ![k] = "io"]
      BY <2>2, <3>1 DEF Create
    <3>3. mpc = "io" /\ mpc' # "workers"
      BY <1>1 DEF StartIOThread
    <3>4. \A i \in Threads : kind'[i] # "worker"
      BY <3>2, <3>3 DEF SlotInv, CountInv, TypeOK
    <3>5. Owners' = {}
      BY <3>4 DEF Owners
    <3> QED BY <3>3, <3>4, <3>5 DEF SlotInv, NumberKept, SlotsDistinct
  <2> QED BY <1>1, <2>1, <2>2 DEF StartIOThread
<1>2. CASE AllocateTable
  BY <1>2, <1>m DEF AllocateTable, SlotInv
<1>3. CASE StartFirstWorkers
  <2>1. /\ tnum \in Slots /\ StartIn(tnum) /\ mpc = "workers" /\ tnum' = tnum + 1
        /\ mpc' \in {"run", "workers"}
    BY <1>0, <1>3, SettingsFacts DEF StartFirstWorkers, Slots
  <2>2. \A i \in Threads : kind[i] = "worker" => slot[i] < tnum
    BY <2>1 DEF SlotInv
  <2>3. \A i \in Owners : slot[i] # tnum
    BY <1>0, <2>2 DEF Owners
  <2>4. /\ NumberKept' /\ SlotsDistinct'
        /\ \A i \in Threads : kind'[i] = "worker" /\ slot'[i] # tnum =>
                                kind[i] = "worker" /\ slot'[i] = slot[i]
    BY <2>1, <2>3, SlotStart
  <2>5. \A i \in Threads : slot[i] \in Nat /\ slot'[i] \in Nat
    BY SettingsFacts DEF CountInv, TypeOK, Slots
  <2>6. \A i \in Threads : kind'[i] = "worker" => slot'[i] < tnum'
    BY <1>0, <2>1, <2>2, <2>4, <2>5
  <2> QED BY <2>1, <2>4, <2>6 DEF SlotInv
<1>4. CASE StartAnother
  <2>1. PICK s \in Slots : wktinfo[s] = 0 /\ StartIn(s)
    BY <1>4 DEF StartAnother
  <2>2. mpc = "lock" /\ mpc' = "run"
    BY <1>4 DEF StartAnother
  <2>3. ~ZeroGiven => \A i \in Owners : slot[i] # s
    BY <2>1 DEF SlotInv, NumberKept, ZeroGiven, Owners
  <2>4. NumberKept' /\ SlotsDistinct'
    BY <2>1, <2>2, <2>3, SlotStart
  <2> QED BY <2>2, <2>4 DEF SlotInv
<1>5. CASE KillThreads
  BY <1>5, <1>m DEF KillThreads, SlotInv
<1>6. CASE Join
  BY <1>6, <1>m DEF Join, SlotInv
<1>7. CASE IOThreadsStarted \/ NoIOTable \/ WaitForIOThreads
  BY <1>7, <1>m DEF IOThreadsStarted, NoIOTable, WaitForIOThreads, MainMove, SlotInv
<1>8. CASE WorkersStarted \/ WaitForWorkers \/ WantWorker \/ NoFreeSlot \/ NullTable \/ TimeUp
  <2>1. /\ mpc \notin {"io", "waitio", "table"}
        /\ mpc' \notin {"io", "waitio", "table", "workers"}
        /\ UNCHANGED <<wktinfo, kind, slot, num, tpc>>
    BY <1>8 DEF WorkersStarted, WaitForWorkers, WantWorker, NoFreeSlot, NullTable,
                TimeUp, MainMove
  <2> QED BY <1>m, <2>1 DEF SlotInv
<1> QED BY <1>1, <1>2, <1>3, <1>4, <1>5, <1>6, <1>7, <1>8 DEF MainStep

LEMMA SlotThread ==
  ASSUME CountInv, CountInv', SlotInv, NEW i \in Threads, ThreadStep(i)
  PROVE  SlotInv'
<1>0. UNCHANGED <<mpc, tnum, kind, slot, num>>
  BY DEF ThreadStep, CountIn, CountInIO, SetUp, LoadFirst, EndMe, Stop, ClearNumber, CountOutIO,
         CountOut, mainVars
<1>1. /\ Owners' \subseteq Owners
      /\ ~ZeroGiven => \A j \in Owners' : wktinfo'[slot[j]] = wktinfo[slot[j]]
  <2>t. tpc \in [Threads -> ThreadPoints]
    BY DEF CountInv, TypeOK
  <2>1. CASE ClearNumber(i)
    <3>1. /\ tpc[i] = "leaving" /\ kind[i] = "worker" /\ i \in Owners
          /\ tpc' = [tpc EXCEPT ![i] = "cleared"]
          /\ wktinfo' = [wktinfo EXCEPT ![slot[i]] = 0]
      BY <2>1 DEF ClearNumber, Goto, Owners
    <3>2. Owners' = Owners \ {i}
      BY <1>0, <2>t, <3>1 DEF Owners
    <3>3. ~ZeroGiven => \A j \in Owners' : slot[j] # slot[i] /\ slot[j] \in Slots
      BY <3>1, <3>2 DEF SlotInv, SlotsDistinct, Owners, CountInv, TypeOK
    <3> QED BY <3>1, <3>2, <3>3 DEF CountInv, TypeOK
  <2>2. CASE ~ClearNumber(i)
    <3>1. UNCHANGED wktinfo
      BY <2>2 DEF ThreadStep, CountIn, CountInIO, SetUp, LoadFirst, EndMe, Stop, CountOutIO, CountOut
    <3>2. Owners' \subseteq Owners
      <4>1. \A j \in Threads : j # i => tpc'[j] = tpc[j]
        BY <2>2, <2>t DEF ThreadStep, CountIn, CountInIO, SetUp, LoadFirst, EndMe, Stop, CountOutIO,
                          CountOut, Goto
      <4>2. i \in Owners' => i \in Owners
        BY <1>0, <2>2, <2>t DEF ThreadStep, CountIn, CountInIO, SetUp, LoadFirst, EndMe, Stop,
                          CountOutIO, CountOut, Goto, Owners, CountInv, KindsOK
      <4> QED BY <1>0, <4>1, <4>2 DEF Owners
    <3> QED BY <3>1, <3>2
  <2> QED BY <2>1, <2>2
<1>2. NumberKept' /\ SlotsDistinct'
  BY <1>0, <1>1, SlotFrame
<1> QED BY <1>0, <1>2 DEF SlotInv

(* The slot invariant holds in every state: the invariant that the two      *)
(* theorems below rest on.                                                  *)
THEOREM SlotsInvariant == Spec => []SlotInv
<1>1. CountInv /\ CountInv' /\ SlotInv /\ [Next]_vars => SlotInv'
  <2> SUFFICES ASSUME CountInv, CountInv', SlotInv, [Next]_vars PROVE SlotInv'
    OBVIOUS
  <2>1. CASE UNCHANGED vars
    <3>1. Owners' = Owners
      BY <2>1 DEF vars, Owners
    <3> QED BY <2>1, <3>1 DEF vars, SlotInv, NumberKept, SlotsDistinct, ZeroGiven
  <2> QED BY <2>1, SlotMain, SlotThread DEF Next, Over
<1> QED BY SlotInit, <1>1, CountsExact, PTL DEF Spec

(* As long as no worker has the number zero, no two workers use one         *)
(* thread_info, and each finds its own number there, whatever fails and     *)
(* however workers end and are replaced.                                    *)
THEOREM SlotsNeverShared == Spec => [](SlotsDistinct /\ NumberKept)
<1>1. SlotInv => SlotsDistinct /\ NumberKept
  BY DEF SlotInv
<1> QED BY <1>1, SlotsInvariant, PTL

-----------------------------------------------------------------------------
(* Why the number zero does not go to a worker: I/O threads take the first  *)
(* numbers, whether or not they could be created.                           *)
PositiveInv ==
  /\ mpc = "io" => threadNum = tnum
  /\ mpc # "io" => threadNum > 0
  /\ \A i \in Threads : kind[i] = "worker" => num[i] > 0

LEMMA PositiveStep ==
  ASSUME iothreads > 0, ~TableMayFail, CountInv, PositiveInv, [Next]_vars
  PROVE  PositiveInv'
<1>0. threadNum \in Nat /\ tnum \in Nat /\ kind \in [Threads -> {"none", "io", "worker"}]
      /\ num \in [Threads -> Nat]
  BY DEF CountInv, TypeOK
<1>1. ASSUME NEW k \in {"io", "worker"}, NEW s \in Slots, Create(k, s),
             k = "worker" => threadNum > 0
      PROVE  (\A i \in Threads : kind'[i] = "worker" => num'[i] > 0) /\ threadNum' = threadNum + 1
  BY <1>0, <1>1 DEF Create, PositiveInv
<1>2. CASE StartIOThread
  <2>1. 0 \in Slots /\ mpc = "io"
    BY <1>2, SettingsFacts DEF StartIOThread, Slots
  <2>2. CASE Create("io", 0) /\ tnum' = tnum + 1 /\ mpc' = mpc
    <3>1. (\A i \in Threads : kind'[i] = "worker" => num'[i] > 0) /\ threadNum' = threadNum + 1
      BY <1>1, <2>1, <2>2
    <3> QED BY <2>1, <2>2, <3>1 DEF PositiveInv
  <2>3. CASE CreateFails /\ mpc' = "table"
    BY <1>0, <2>3 DEF CreateFails, PositiveInv
  <2> QED BY <1>2, <2>2, <2>3 DEF StartIOThread
<1>3. ASSUME NEW s \in Slots, StartIn(s), mpc # "io", mpc' # "io"
      PROVE  PositiveInv'
  <2>1. threadNum > 0
    BY <1>3 DEF PositiveInv
  <2>2. CASE Create("worker", s)
    <3>1. (\A i \in Threads : kind'[i] = "worker" => num'[i] > 0) /\ threadNum' = threadNum + 1
      BY <1>1, <2>1, <2>2
    <3> QED BY <1>0, <1>3, <2>1, <3>1 DEF PositiveInv
  <2>3. CASE CreateFails
    BY <1>0, <1>3, <2>3 DEF CreateFails, PositiveInv
  <2> QED BY <1>3, <2>2, <2>3 DEF StartIn
<1>4. CASE StartFirstWorkers
  <2>1. tnum \in Slots /\ StartIn(tnum) /\ mpc # "io" /\ mpc' # "io"
    BY <1>0, <1>4, SettingsFacts DEF StartFirstWorkers, Slots
  <2> QED BY <1>3, <2>1
<1>5. CASE StartAnother
  BY <1>3, <1>5 DEF StartAnother
<1>6. CASE IOThreadsStarted
  BY <1>0, <1>6 DEF IOThreadsStarted, MainMove, PositiveInv
<1>7. CASE NoIOTable
  BY <1>7 DEF NoIOTable
<1>8. CASE AllocateTable \/ KillThreads \/ Join
  BY <1>8 DEF AllocateTable, KillThreads, Join, PositiveInv
<1>9. CASE \/ WaitForIOThreads \/ WorkersStarted \/ WaitForWorkers \/ WantWorker
           \/ NoFreeSlot \/ NullTable \/ TimeUp
  BY <1>9 DEF WaitForIOThreads, WorkersStarted, WaitForWorkers, WantWorker, NoFreeSlot,
              NullTable, TimeUp, MainMove, PositiveInv
<1>10. ASSUME NEW i \in Threads, ThreadStep(i)
       PROVE  PositiveInv'
  <2>1. UNCHANGED <<mpc, tnum, threadNum, kind, num>>
    BY <1>10 DEF ThreadStep, CountIn, CountInIO, SetUp, LoadFirst, EndMe, Stop, ClearNumber,
                 CountOutIO, CountOut, mainVars
  <2> QED BY <2>1 DEF PositiveInv
<1>11. CASE UNCHANGED vars
  BY <1>11 DEF vars, PositiveInv
<1> QED BY <1>2, <1>4, <1>5, <1>6, <1>7, <1>8, <1>9, <1>10, <1>11 DEF Next, MainStep, Over

(* With at least one I/O thread, and if the tables fit in --maxmem, no      *)
(* worker is ever given the number zero, so that the condition of           *)
(* SlotsDistinct and NumberKept is always met.                              *)
THEOREM ZeroNeverGiven ==
  ASSUME iothreads > 0, ~TableMayFail
  PROVE  Spec => []~ZeroGiven
<1>1. Init => PositiveInv
  BY DEF Init, PositiveInv
<1>2. CountInv /\ PositiveInv /\ [Next]_vars => PositiveInv'
  BY PositiveStep
<1>3. PositiveInv => ~ZeroGiven
  BY DEF PositiveInv, ZeroGiven
<1> QED BY <1>1, <1>2, <1>3, CountsExact, PTL DEF Spec
=============================================================================
