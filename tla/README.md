# Verification of avocado-misc-tests

avocado-misc-tests is a collection of Avocado tests. Two kinds of code in it
have behaviour worth a model:

* **Test classes in Python** that change the machine they run on, its peer, or
  the management console of its partition, and must put everything back:
  bonding, virtual adapters, NVMe over TCP, RAID and LVM, SMT, processor and
  memory hotplug, persistent memory, DLPAR, EEH, tracing. They are sequential;
  what is hard is that any command may fail at any point, that tearDown must
  cope with a half-finished test, that the next test meets what the last one
  left, and that a failure which was seen must be reported.
* **dwh** (`src/cpu/dwh.py.data/dwh.cpp`, 3179 lines), a C++ stress program with
  worker and I/O threads, which `src/cpu/dwh.py` builds and runs. What is hard
  there is concurrency.

The first kind is modelled by a small machine that executes test scripts
(`TestJob`) and by the scripts of 44 files; dynamic partitioning (`dlpar/`) has
a module of its own because its tests are about quantities. The second kind is
modelled part by part and proved about. A bare line number below is a line of
`dwh.cpp`.

## 1. Inventory

### The Python tests

| part (under `src/`) | what it changes | how it puts it back | module |
|---|---|---|---|
| `io/net/` bonding.py, nmcli_bonding.py, hnv_bond_failover.py | bonds on host and peer, addresses, MTU, links, default route | a clean-up test of the same job, or tearDown from states read before | `BondTests` |
| `io/net/` virt-net/network_virtualization.py, sriov_device_test.py, ltp_fsstress_nfs.py | vNIC adapters and backing devices through the HMC, logical ports, NFS mounts | a removal test; tearDown of each test | `VirtNetTests` |
| `io/net/` irqbalance.py, htx_nic_devices.py, vlan_test.py, virt-net/lpm.py | interrupt affinity, SMT, firewalls, HTX, switch ports, the server a partition runs on | tearDown, a stop test, a migration back | `NicTests` |
| `io/disk/` nvme_tcp_initiator.py, nvmetest.py, softwareraid.py, virtual_fc.py, multipath_test.py, port_bounce.py | controllers and discovery, namespaces and firmware, arrays and volumes, adapters, multipath.conf, switch ports | tearDown by flags, a clean-up test, a saved file | `StorageTests` |
| `io/disk/` fiotest.py, ltp_fs.py, ltp_fsstress.py, bonnie.py, tiobench.py, fs_mark.py, disktest.py, iozone.py | a RAID, a volume on it, a file system on that, and a mount | tearDown takes down what flags say was built | `DiskTests` |
| `cpu/` ppc64_cpu_test.py, scheduler_tunables_test.py, cpu_die_topology.py, cpuhotplug.py, ebizzy.py, numactl.py | SMT, cores, tunables, processors off line | tearDown from values read in setUp | `CpuTests` |
| `memory/` memhotplug.py, thp_stress_test.py, stressng_mem.py, libhugetlbfs.py | memory blocks, huge page settings, mounts | tearDown | `MemTests` |
| `memory/ndctl.py` | regions, namespaces, file systems on persistent memory | the tests themselves, and tearDown | `NdctlTests` |
| `io/pci/` dlpar.py, EEH.py, pci_hotplug.py | slots, freezes, drivers | the same test | `PciTests` |
| `ras/` ras_lsvpd.py, ras_ppcutils.py, sosreport.py | vpd.db, boot list, service settings, processors and memory during a report | the same test; threads in sosreport | `RasTests` |
| `trace/function_graph_retval.py`, `kernel/qspinlock_tracepoint.py`, `fs/xfstests.py` | tracing files, modules, loop devices and mounts | `finally` blocks and tearDown | `KernelTests` |
| `dlpar/` dlpar_main.py, dlpar_api/api.py | processors, units and memory of two partitions, config.txt | later tests of the job, through config.txt | `Dlpar` |

What makes a test class correct: a job that passes leaves the machine as it
found it; a job that fails anywhere leaves only what it cannot help leaving; a
check that went wrong makes its test fail. For `dlpar/` also: a test that
passes has moved what it set out to move although the HMC may do a part of a
command in silence, the removal undoes the addition, and the quantities
computed respect the profile.

The rest of the repository (ltp, kselftest, perf, security, toolchain, ...)
builds an external suite, runs it and scans its output; see section 6 and
`PROJECT.json`.

### dwh, the threaded stress program (`cpu/dwh.py.data/dwh.cpp`)

| part | state | operations | talks to |
|---|---|---|---|
| memory budget | `memUsed` (atomic), each worker's `myMem` and `sz` | `CountingCalloc`, `CountingFree`, activities 0 and 1 of `WorkerThreadStart` | every worker shares `memUsed`; no lock |
| I/O queues | three doubly linked lists with head, tail and a counter (`io_readQHead` ...) | `queueIORead/Write/Done`, `getIORead/Write/DoneNode`, `isReadQEmpty` ..., `clearAnIOQueue` | one mutex per queue |
| I/O hand-off and shutdown | `EndAllIO`, `EndAllThreads`, a semaphore per worker, `memQueued` | activities 5 and 6 of a worker, the loop of `IOThreadStart`, `EndIOTasks`, `EndPThreads`, `clearIOQueues` | workers to I/O threads by the read and write queues, back by the done queue and `sem_post`; main stops both |
| thread life cycle | `nThreads`, `nIOThreads`, `threadNum`, the tables `iotinfo` and `wktinfo`, `wktilock` | `SetupIOThreads`, `SetupWorkerThreads`, `startOneWorkerThread`, `getUnusedWorkerThreadNum`, the first and last lines of the thread functions | main starts threads; threads count themselves; a worker frees its slot without the mutex |
| asynchronous transfers | region locks on the data file, an `aiocb` on the I/O thread's stack, `timedOut` | `ioFileRead`, `ioFileWrite`, `asyncRead`, `asyncWrite` | the C library's AIO, `fcntl(F_OFD_SETLKW)` |
| main, clock and cleanup | `initObjects`, the two streams, the data file, `start`, `tElapsed`, `i`, `dElapsed`, `sigStop` | `main`, `setupSyncObjects`, `setupDataFile`, `cleanupDataFile`, `destroySyncObjects`, `GetElapsed` | starts and ends everything else |
| sizes and positions | the options, `fileSize`, buffer sizes, `io_len`, file positions | `memsztoull`, `VerifySettings`, `setupDataFile`, activity 0, `ioFileRead`, `ioFileWrite` | feed the memory budget and the transfers |
| figures | local variables | `doubleToScale`, `doubleToDecimalScale`, `timespec_elapsed` | the report |
| report, help | totals | `showIOData`, `ShowHelp` ... | output only |

Hard behaviour: a lock-free counter that is charged, compared and undone in
separate steps; nodes passed between three kinds of threads with a pointer in
each hand; a shutdown that looks at three queues one after the other; threads
that count themselves only when they run; a timeout that races with the end of
a transfer; setup that may fail at any of its steps; a clock that may fail; and
integer arithmetic on `rand()` at the width of the machine.

## 2. Modules

| module | what it models | composed with |
|---|---|---|
| `Statements` | the statements of a test method: commands that change or restore something, checks, branches, attributes, exceptions and their handlers | |
| `TestJob` | the Avocado runner and the meaning of the statements: the tests of a file one after another on one host | extended by `MCTests` |
| `BondTests` ... `NicTests` | the scripts of the files in the table above, one definition per method | combined into `AllJobs` in `MCTests` |
| `TestRules` | rules about scripts alone (every path from a change comes to what puts it back, every record to a check that raises) under which the properties of `TestJob` hold | used by `TestJobProofs` and `RuleWitnesses` |
| `RuleWitnesses` | the sets of statements the rules ask for, computed from a script; for TLC only | extended by `MCTests` |
| `Dlpar` | the eleven tests of `dlpar/`, their quantities, config.txt, the HMC and its validation | |
| `Totals` | sums over a finite set of owners, or of a list, defined as cardinalities so that they can be proved about | `DwhMemory`, `Dlpar` |
| `DwhMemory` | one step per access to `memUsed` or to the heap | |
| `FifoQueues` | abstract specification: nodes are put, taken in order of arrival, or picked | implemented by `DwhQueues`, used by `DwhIO` |
| `DwhQueues` | the lists with every `prev`, `next`, head and tail | refines `FifoQueues` |
| `DwhIO` | workers, I/O threads and main around the three queues | instantiates `FifoQueues` |
| `DwhThreads` | creation, counting, slots, restarts, joining | |
| `DwhAio` | one transfer with lock, timeout and cancellation | |
| `DwhMain` | the ways through `main` and the clock | |
| `DwhData` | sizes, lengths and positions on a small machine | |
| `DwhScale`, `DwhTimespec` | the scaling of figures and the subtraction of clock values | |
| `DwhShared` | what the threads share, one thing at a time: the budget, the lists, the file's regions | `DwhMemory`, `DwhQueues`, `DwhAio` |
| `DwhNumbers` | one of the four sequential parts of dwh at a time | `DwhMain`, `DwhData`, `DwhScale`, `DwhTimespec` |
| `...Proofs` | the theorems about the module of that name | |
| `MC...` | constants, and symmetry where it is sound, for TLC; `MCDlpar` also has the loops of the payload functions, round by round | |

### How a test class becomes a script

A method `m` of a file with the short name `f` is the definition `f_m`: the
sequence of its statements in the order of the code. `map` gives the lines.

* A command is `Run`, or `Change(r)` or `Restore(r)` when it takes resource `r`
  away from the state the job found it in or puts it back. Its second argument
  says what the code does when it goes wrong: `fail`, `cancel`, an `error` (an
  exception nobody catches), `note` (put on record for later), `ignore`, `drop`
  (a check whose result is not used), `return`. `ignore` and `drop` differ: a
  command whose status does not matter, and a check that was meant to matter.
* `try`, `except`, `finally` and re-raising are `Try`, `TryFinally`, `TryUndo`;
  `except Exception` also catches `self.fail` and `self.cancel`, as in Avocado.
* Attributes matter where tearDown, or a flag, reads them: `Assign`, `Clear`,
  `Use` (an `AttributeError` when unset) and `IfSet`.
* A branch on an input or an option is `Choose`: both ways are explored. A
  branch on what an earlier statement did is `IfChanged`, `IfSet` or `IfNoted`.
* A loop over interfaces, disks or processors is its body once, for one
  representative; where two of them matter (a failure at the second with the
  first changed) the script has two. A loop that retries is one command that
  succeeds or not in the end.
* What a command prints is right or wrong; parsing and formatting are left out.
  A `Choose` over defects of the code keeps them: an unbound variable, a wrong
  number of arguments, a loop over the characters of a string.

`TestJob` executes the script: `CommandWorks` and `CommandGoesWrong` are the two
outcomes of any command, `Throw` finds the handler, `StartTearDown` follows a
failed setUp as well as the test, `StartTest` makes a new object (attributes
gone) on the same host (changes still there). The runner and `process.run` are
not in the repository and are modelled from the way the tests use them.

Each job states three sets, which the properties refer to: `keeps`, what it
leaves changed although every test passed (because nothing puts it back, or
because the command that does is not checked); `leaves`, what it leaves after a
failure even if the commands that put things back work; `unreported`, its tests
that can pass with a failed check. They are kept as small as the code allows,
so they are also the list of what the code does not restore (section 5). A
change to a test class that forgets to restore anything else violates the run.
For `htx_nic_devices.py`, which has no tearDown, `keeps` is everything.
`PassRestoresHost`, `FailureLeavesKnown` and `FailureReported` are relative to
these sets. Of the hazards that a set names they are the record: what they show
is that nothing goes wrong beyond it.

### How Dlpar corresponds to the code

`cpu_payload_data`, `mem_payload_data` and `mix_payload_data` compute the
sequences of quantities. The code does it with loops; the module states what
they come to (`Series`: step, 2 step, ... while the sum fits; `Doubling`: 1, 2,
4, ... and what is left), so that the lists can be proved about, and `MCDlpar`
follows the loops round by round (`CpuLoop`, `MemLoop`, `MixLoop`) and has TLC
compare the two (`ClosedForms`: rooms up to 60 and 30, sums up to 6). `test_...`
computes the commands a test sends (with mode, the number of
`Iterations` of the move, the quantities of the partition and the lines of config.txt as inputs), and one
action sends each command: `Obeyed`, `Refused` (with the cancel or fail of
`_cancel_on_capacity_exceeded`), or the two validations of the engine, which
catch a command done in part and in silence. `Pass` includes what a test does at
its end (config.txt deleted by the mix, the processor on line again).
`Interrupt` ends a job between two commands; the next one meets its config.txt.
The last three tests (`Lenient`) only log a command that was refused and send the next
one. Units are counted in quarters of a processor and memory in blocks.

### How the dwh modules correspond to the code

* **DwhMemory.** `ChooseSize` is activity 0 up to the call, `ChargeFirst`,
  `CheckLimit`, `CallHeap` and `UndoCharge` are the statements of
  `CountingCalloc`, `ReleaseCharge` and `FreeHeap` those of `CountingFree`.
  `Avail` wraps around as the unsigned subtraction at line 2417 does while a
  refused charge has not been undone. A worker that leaves with its buffer
  queued leaves it allocated (line 2686), so a run can use up the memory.
* **DwhQueues.** An operation holds its queue's mutex from end to end and is
  one action. `getIOWriteNode` leaves a stale tail behind when it empties its
  queue, as the code does; `LooksQueued` is the test by which `getIODoneNode`
  tells a queued node from another one. `before` and `missing` are history
  variables. Clearing goes node by node. Reads and writes are the same code
  twice in the source and share their definitions here.
* **DwhIO.** A worker has at most one request, so a node is named by its
  worker. `Submit` is the unlocked test of `EndAllIO`, `Enqueue` the insertion
  after it; `TryWait` and `GiveUpWaiting` are the polling with
  `sem_timedwait` and its end; `Reap` is `getIODoneNode`. Main's `Scan` looks at
  one queue per step. A worker whose request was refused polls a semaphore that
  nobody posts until `EndAllThreads`.
* **DwhThreads.** The counters are changed in the steps in which the code
  changes them, separately for `nThreads` and `nIOThreads`. A worker that
  thinks of ending itself loads both at line 2558, one in `LoadFirst` and the
  other in `EndMe`, in either order (C++ leaves it open), and subtracts them as
  unsigned numbers. `StartIn` is
  `startOneWorkerThread`, including the path on which it returns with
  `wktilock` held; `SetUp` includes the path on which an I/O thread returns
  without counting itself out (`"lost"`); `NullTable` is the read through a
  null `wktinfo`. Which free slot main finds is left open, because workers
  free slots while it looks.
* **DwhAio.** `Lock` waits for conflicting regions, `Submit` may fail,
  `PollGivesUp` is the timeout, `Cancel` loops on `AIO_NOTCANCELED`. The library
  and the kernel (`StartTransfer`, `EndTransfer`, `Conflict`) are external. A
  failed unlock sets `EndAllThreads`, as in the code, and only closing the file
  gives the region back.
* **DwhMain.** One action per setup step, each with its failure; `Sleep` and
  `Tick` are a round of the timed loop; `Finished` is the code at the label.
  `time(NULL)` is external and may give -1 or an earlier time.
* **DwhData.** C arithmetic is modelled by `Unsigned` and `Signed` (modulo
  `Word`) and by truncating division.
* **DwhScale, DwhTimespec.** The loops and switches of the functions; a double
  is kept exactly as a value and a power.

## 3. Runs

| run | properties | what it shows |
|---|---|---|
| `tests` | `PassRestoresHost`, `FailureLeavesKnown`, `FailureReported` | for the scripts of 44 files, with any command failing: what a job that passes, and one that fails, leaves behind, and which tests can pass with a failed check |
| `dlpar` | `PassMeansDone`, `RemoveUndoesAdd`, `RequestsAllowed`, `MemoryKept`, `LenientDrift` | a passing test has done what it set out to do; removal undoes addition unless an old config.txt is there; computed requests stay within the profile; memory is never taken below a fifth; the tests that go on after a refused command leave the partition off by one processor at most |
| `shared` | `ChargeExact`, `GrantedWithinLimit`, `WellLinked`, `PendingExact`, `DoneNodeFound`, `FifoSpec`, `RegionsExclusive`, `NothingLeftBehind`, `LateEndCounts`, `LocksDropped`, `AllThreadsEnd` | memory: the counter is the sum of the outstanding charges in every interleaving, and granted memory stays within `--maxmem` although `memUsed` itself may exceed it; queues: the lists are well formed, the counters right, every done node is recognised, and the lists implement FIFO queues; transfers: none runs against a write of the same bytes, none outlives its call, a late end is counted as success, a stray lock only in a run that is ending, and it keeps nobody from ending |
| `io` | `BufferSafe`, `PostedWhenDone`, `OneHolder`, `ClearedAlone`, `RequestsServed`, `RunEnds` | buffers outlive their nodes, posts match done nodes, nodes have one holder, the queues are cleared after the last thread; requests are served and the program ends |
| `io_drain` (violation) | `IOFinishedFirst` | threads are killed with I/O outstanding |
| `threads` | `SlotsDistinct`, `NoWrap`, `RunEnds` | slots are not shared, the unsigned count of workers never wraps, and the program ends unless a call failed or main is stranded at its start |
| `threads_start` (violation) | `EndsAtTimeout` | both first workers end themselves before main looks, and it waits for ever |
| `threads_join` (violation) | `AllThreadsFinished` | the tables are freed under a thread that has not run yet |
| `numbers` | `CountKnown`, `SetupUndone`, `RunEnds`, `TransferInBounds`, `FiguresScaled`, `ElapsedExact` | main: `i` is never read unset, setup is undone on every path, main ends once the clock behaves; every length fits its buffer and every position its file, where file and word are large enough; the letter of a scaled figure fits the divisions made, and a binary figure is in its range; the difference of times against its reference |
| `main_elapsed` (violation) | `ElapsedReported` | a valid elapsed time is replaced by the count of rounds |
| `data_read` (violation) | `ReadInOwnFile` | with the default 6 GiB file the position of a read becomes negative |
| `scale_decimal` (violation) | `DecimalInRange` | decimal figures of a million and more stay unscaled |

The passing runs of dwh also check types: `TypeOK`, and in `shared`
`MemoryTypeOK`, `QueueTypeOK` and `AioTypeOK`.

### Bounds, and why they are enough

* `tests`: no bound. A script is finite, a job has the tests of its file (the
  largest files are split into several jobs), and every command works or not.
  The tests of a job run in the order of the class; the disk workloads, which
  have one test each, run it twice, so that it meets what the first pass left.
  The run also evaluates which jobs keep which rule of `TestRules`.
* `dlpar`: three processors that may become six or seven (`MaxProcsSet`: one on
  each side of `Many`, the code's 20), six quarters of units, five blocks of
  memory out of two to fourteen (three steps and more), two iterations of the
  move, so that the partition can lose more than one processor, and two jobs
  (`MaxJobs`), so that the second meets the config.txt of the first.
* `shared`: for the memory, three workers, a limit of 6 and sizes up to 3, so
  that two fit and the third is refused, and a word of 64 so that `Avail` wraps;
  for the queues, four nodes: a node between two others on the done queue while
  a fourth is elsewhere; for the transfers, two threads, four bytes of file and
  lengths 1 and 2: overlapping, adjacent and disjoint regions. No symmetry,
  because the run checks liveness. Deadlock is reported: `Over` is the end of
  the memory part (each place taken by a buffer that stays charged) and of the
  queues (cleared), and nothing else may stop.
* `io`: three workers and two I/O threads: two requests in hands and a third
  queued. No symmetry, because the run checks liveness.
* `threads`: one I/O thread, two workers at the start, either of which may end
  itself, and `MaxStarts = 5` threads ever created, so that a slot can be reused
  twice. All failures are possible. Deadlock is not reported: a run in which
  `pthread_create` failed, or main is stranded, really may stop.
* `threads_start`: the same without failures and with three threads, so that
  nothing but the workers' own ends can keep main waiting.
* `numbers`: three seconds of run time and a clock that starts at
  `StartTime = 2`, so that it can be set back before the start, and stops at
  `MaxTime = 6`: below, at and beyond the limit. A machine with `RAND_MAX` 31 and
  words of 12 bits keeps the relation of the real one (`4 * (RAND_MAX + 1)^2` is
  the word, the default file is about three times `RAND_MAX`); every value of
  `rand()` is tried. Base 2 and the values around its powers up to 2^9 pass
  every letter and go beyond the last; seconds of three parts have every order.
* `scale_decimal`: base 2 and the values up to 9, which need up to three letters.

### Fairness

* Threads are scheduled: weak fairness of each thread's step and of main's.
* An I/O thread draws lots between reading and writing in each round; that each
  side comes up again and again when there is work is strong fairness of
  `TakeNode` for each queue (`rand()` is fair in that sense).
* Main's time comes to its end: strong fairness of `TimeUp` in `DwhThreads`,
  since the loop goes round once a second and reads the clock.
* In `DwhShared` the I/O threads run (`ThreadRuns`), and the library ends a
  transfer it has started: weak fairness of `LibraryStep`.
  A failing `fcntl` is not among the steps assumed to be taken: a thread that
  waits for a region must get out because the region is released.
* Nothing is assumed of signals, of the choice of a worker's activity, or of
  failures. In `DwhMain` what is assumed of the clock is the hypothesis of
  `RunEnds`.
* `TestJob` and `Dlpar` state no liveness: their properties are about what a job
  has left when it is over, and a command that hangs is ended by the runner.

## 4. Proofs

TLAPS proves the following for every value of the constants that meets the
named assumptions. `MemoryAssumption`, `QueuesAssumption`, `IOAssumption`,
`ThreadsAssumption` and `AioAssumption` ask for finite sets of threads or nodes,
natural numbers, and what `VerifySettings` enforces. `MainAssumption` asks that
the model's clock reaches the end of the run. `DataAssumption` asks that the
word holds `RAND_MAX` times the largest request (an `int`, a page, the smallest
size) and the default file, as on the real machine. `TimespecAssumption` and
`ScaleAssumption` ask for a base and a second of at least two parts. The provers
have no theory of `^`: that powers of the constants are natural numbers is
stated in those assumptions, where TLC evaluates it. `DlparAssumption` says that the
partition starts within its profile and that a selection is a list of tests in
the order of the class, which is how the runner takes them. `JobsAssumption`
says that a file has at least one test.

* **Memory** (`CounterExact`, `LimitRespected`, `MemoryTypes`). `MemoryInv` adds
  to the two properties that a worker's location agrees with its block and
  size. `LimitRespected` is not inductive alone: that a grant fits follows from
  `memUsed` being at least the granted sum plus the charge just made, that is
  from `ChargeExact` and `TotalMonotone`. The lemmas on `Total` say how a
  sum changes when one entry does.
* **Queues** (`ListsWellLinked`, `CountersExact`, `DoneAlwaysFound`,
  `QueueTypes`, `ListsImplementFifo`). `WellLinked` states for each list that
  `next` and `prev` are the neighbours in the order of arrival `before`, and
  the head and tail its ends; it is inductive, with one lemma for the insertion
  and one for the removal of any node. The refinement maps a queue to its
  members and their order; `WellLinked` shows that the head is the oldest node.
* **I/O** (`BuffersSafe`, `PostsMatchDone`, `NodesHaveOneHolder`,
  `QueuesClearedAlone`, `IOTypes`). `IOInv` ties together where a worker
  stands, where its node is, its semaphore and its flags: a buffer is safe
  because `memQueued` is set whenever the node is away.
* **Threads** (`WorkersNeverWrap`, `SlotsNeverShared`, `ZeroNeverGiven`,
  `ThreadTypes`). `CountInv` states that the counters are the numbers of threads
  at the points between counting in and out; `SlotInv` that a slot holding
  zero has no owner. `SlotsDistinct` and `NumberKept` are conditional on no
  worker having the number zero; `ZeroNeverGiven` shows that this is so whenever
  there is an I/O thread and the tables fit in memory. `NumberKept` is proved
  only, as a part of `SlotsNeverShared`.
* **Transfers** (`WritesExclusive`, `TransfersEndFirst`, `LateEndsCounted`,
  `StrayLocksEndRun`, `AioTypes`). `AioInv` relates the lock held, the operation
  and the library's state to the place of the thread.

* **Main, numbers, times** (`SetupAlwaysUndone`, `CountAlwaysKnown`,
  `TransferAlwaysInBounds`, `FiguresAlwaysScaled`, `ElapsedAlwaysExact`,
  `NumbersTyped`). `PartSteps` splits a step of `DwhNumbers` into steps of its
  parts, and each part has an invariant of its own. `MainInv`: until the cleanup
  the data file exists just when the write stream is open, which is why the file
  is removed where that stream is closed, and there is no elapsed time before
  `i` has a value. `DataInv`: `RandMax * sz < Word` once a buffer is allocated,
  and the file is larger than its nominal size; with these a product of `rand()`
  does not wrap (`UnsignedType`, `SignedSmall`) and the quotient is at most its
  factor. `ScaleInv`: how often the value was divided and its letter go together,
  and `Base^k` has been reached; for binary figures that puts the result in its
  range. `TimespecInv`: the borrow and the carry keep the
  instant the argument stands for.
* **Dlpar** (`PassAlwaysMeansDone`, `RemoveAlwaysUndoesAdd`,
  `RequestsAlwaysAllowed`, `MemoryAlwaysKept`, `LenientAlwaysDriftsLittle`,
  `DlparTyped`), for every profile, every selection in order and any number of
  jobs and iterations. All need to know what the running test has still to send.
  `DlparInv` has one part for each thing
  that has to be remembered:
  - `GoalInv`: what is left of the plan leads from the partition as it is to the
    goal. A command that is obeyed moves its quantity from one to the other, and
    every other outcome ends the test, so an empty plan means the goal is
    reached.
  - `UndoneInv`: while test_cpu_add is still to come the partition is as the job
    found it, and with no old config.txt the lines it writes are what it adds;
    the removal has the same total (in shared mode read from the end,
    `TotalReverse`), so its goal is what the job found.
  - `OrderInv`: a test that has passed comes before those that are left. Without
    it test_cpu_add could run again between the removal and the mix.
  - `MemAddInv`, `MemRemInv`, `MemMixInv`, `CpuAddInv`, `CpuRmInv`, `CpuMixInv`:
    the shape of the plan (`OneKind`: one kind of command; `Turns`: additions and
    removals in turn) and how far what is left of it goes. In the mixes each
    removal is no larger than (`Covered`), or equal to (`Matched`), the addition
    before it, and the partition has in hand what the next command owes; that
    is what holds when a test stops half-way with an addition done in part.
  - `DriftInv`: in a test that goes on after a refused command, all additions
    still to be sent, and likewise all removals, would stay within the drift. A
    command that is done takes its quantity from what is to come, one that is
    refused only makes that less; the plan is one addition and one removal
    (`LenientPlan`, `DriftStep`).
  - `TypedInv`: types, and both partitions within the profile.

  Under it lie lemmas on the lists: a series of n rounds has the total
  `step * n * (n + 1) / 2`, the doubled values `2^m - 1` (powers of two as the
  numbers of subsets, since `^` has no theory), a split of n keeps each value
  at most n, a share rounded up to a block and then without its last value is at
  most eight tenths; and on plans: a loop over a list comes to the total of the
  list, two loops in turn to the sum of both (`AlternateAmount`). Where they need
  induction it is the least counterexample of a set of numbers
  (`NoCounterexample`, `LeastNatural`), which the provers can use.
  TLC checked every part of `DlparInv` on the instance of the run `dlpar`.

* **TestJob** (`PassingRestores`, `FailuresReported`, `FailuresKnown`,
  `RunnerSafe`, `ScriptsSafe`, `VerdictSticks`), for every function `Jobs` of
  files of tests. The properties are not true of every script: one that forgets
  to restore something violates them. What is proved is that they follow from
  rules about the scripts, which a reader can check in a file without running
  anything:
  - `PassRule`: each thing the tests change, and that is not in `keeps`, is put
    back by a *barrier*, a statement that is not passed while the thing is
    changed but by an exception (a checked command, a branch both ways of which
    end in one, a call of a method that has one). The barrier may stand in the
    same method behind each change (`FollowedIn`), in the test or in tearDown
    (`BarrierIn`), in tearDown under a flag that is known to be set (`Gated`), or
    in a later test of the job. A barrier may also put the failure on record, if
    the record is reported.
  - `ReportRule`: a test makes no check it may lose, or it forgets no record and
    a barrier against passing with one follows.
  - `FailureRule`: on every path tearDown reaches a command that puts the thing
    back, although anything may have raised before: what comes first in tearDown
    raises only inside a `try`, uses only attributes that are set, and the flag
    it asks is set before the change or with nothing in between that can raise
    (`Flagged`). Or what makes the change is followed by what undoes it with
    nothing in between that can raise (`SettledAfter`).

  The rules quantify over sets of statements closed under execution (`Covers`,
  `Flow`), because induction over the nesting of a script is out of the prover's
  reach; a route through a method is then a condition on positions in a sequence
  (`ReachesAt`) and the proof follows it step by step. The properties are far
  from inductive: they speak of the end of a job. `ScriptInv` says in every state
  what the rest of the running method will do. Beside `RunnerInv` it has:
  - `CoverInv`, `FootInv`: what is left to execute, and what is changed, comes
    from the scripts;
  - `BarrierInv`: as long as the test passes, the barrier of a phase is ahead, or
    it is behind and the condition does not hold and will not again;
  - `FollowInv`: the same for barriers that stand behind each opener: what is
    left reaches one, or the condition does not hold;
  - `GateInv`: tearDown has put the thing back, or its flags are set and what is
    left of it goes to do so;
  - `PassInv`: in a job that passes so far, what is back at the end of each test;
  - `ReportInv`: a check that went wrong is on record;
  - `UnsetInv`, `MendInv`: an attribute that nothing assigns is unset; whatever
    failed, the flags agree with what is changed, what is left of tearDown
    reaches a command that puts it back, and at the end of a test it is back,
    as long as such commands work.

  These parts quantify over all sets of statements and TLC cannot evaluate them;
  the conclusions are what the run `tests` checks.

  The lemmas under it are one for each way the machine changes what is left
  (`Continue`, `Instead`, `Leave`, `Throw`): a route survives taking a statement
  off, putting the body of a call or branch in its place, a return, which goes
  to the end of the method, and an exception, which goes to the first handler
  that takes it.

  The theorems are about real files because TLC evaluates three assumptions of
  `MCTests` in the run `tests`: `RuleWitnesses` computes the sets of statements
  and the definitions of `TestRules` accept them. Of the 61 jobs 54 keep
  `PassRule`, 59 `ReportRule` and 49 `FailureRule`. The others, and what it is
  in them that no rule accounts for:

  | rule | job: what is changed |
  |---|---|
  | `PassRule` | fgret: tracer; mpath: conf, lost; numactl: ip; ppccpu_basic, ppccpu_stress: smt; qspin: tracepoint, perf, perf_data; xfs: namespaces, logs |
  | `ReportRule` | sos_host: in test_fs `run_cmd` raises because `is_fail` is not set; vfc: the record is emptied at the start of two tests |
  | `FailureRule` | fgret: module, tracer; hnv: down1, down2; mpath: conf, lost; ndctl_writes: mount; netvirt_outage: debug; nmcli, nmcli_peer: bond; numactl: ip; qspin: perf; sraid: fs; sriov, sriov_max: hnv_bond |

  There the reason why the thing is put back is a relation between two pieces
  of state (a flag assigned on the one branch that makes the change, one
  resource changed only while another is, a later test that is reached only with
  the thing in place), and a rule follows one condition at a time. For these the
  run `tests` is what there is.

Only model-checked:

* the liveness properties (`RunEnds`, `RequestsServed`, `AllThreadsEnd`):
  fairness and `ENABLED` are out of the prover's reach;
* the three properties of `TestJob` for the jobs in the table above, which keep
  no rule, and that the other jobs do keep one: this is a computation over
  their scripts (`PassRuleKept`, `ReportRuleKept`, `FailureRuleKept`), which
  needs recursive definitions;
* that the closed forms of `Dlpar` are what the loops compute, for every room:
  this is induction over a recursive definition (`ClosedForms`, bounded);
* the violation runs.

## 5. What the models show of the code

### dwh, against its comments

Six departures have a run and are listed as findings: `io_drain`,
`threads_start`, `threads_join`, `main_elapsed`, `data_read` and
`scale_decimal`. Others were met while modelling.
The models contain them, and the passing properties are stated so as to say
what does hold:

* line 2763: after a failed `pthread_create`, `startOneWorkerThread` returns
  with `wktilock` held, and main's next start waits for its own mutex for ever;
* line 2205: an I/O thread whose `sem_init` or `open` fails is never counted
  out, and `EndPThreads` waits for ever;
* line 3072: when all first workers have ended before main polls `nThreads`,
  main waits for a worker that only it could start. Two workers that find each
  other counted are enough (`threads_start`). `RunEnds` of `DwhThreads` says
  that apart from this (`Stranded`) and from failed calls the program ends;
* line 2725: with `--iothreads 0` the first worker's number is zero, the mark of
  a free slot (the condition of `SlotsDistinct`);
* line 3102: threads that have not run yet are not counted, so `--maxthreads`
  can be exceeded for a moment (line 47 says "at any time");
* line 2558: workers end themselves with `--longthreads` too (line 62 says they
  do not), and the last two workers may both end (line 2557);
* line 3092: when `time(NULL)` never works, `tElapsed` is -1, which is below
  `maxruntime`, and the loop does not end (the hypothesis of `RunEnds`);
* line 365: a block is given back to `memUsed` before it is freed, so the heap
  can exceed `--maxmem` by the blocks about to be freed;
* line 1091: the data file is larger than `--maxfilesize` by up to a chunk;
* line 522: the first decimal letter is `k` and the switch knows `K`, so values
  from a million on are returned unscaled (`scale_decimal`); the letter, when
  one is given, is right, and binary figures are in range (`FiguresScaled`);
* line 1872: a failed submission returns early only with `--verbose`; otherwise
  the zeroed control block looks finished and the whole length is counted;
* line 1950: `fileSize - io_len - 1` wraps around for a file not larger than a
  buffer, which `VerifySettings` does not exclude (`TransferInBounds` assumes
  room for a buffer).

### The Python tests, against "the machine is as before"

Each of these is in the scripts and in the sets of its job.

* bonding.py: for the peer's interface it is the host's backup that is restored
  (558); a bond that does not answer passes test_setup (514); a cancelled setUp
  ends in an `AttributeError` in tearDown (588).
* ltp_fsstress_nfs.py: the address goes before the NFS directory is unmounted.
* network_virtualization.py: the active device, priorities and automatic
  failover stay changed when a check in between fails; debug messages stay on.
* sriov_device_test.py: `list_device(mac='')` is true of any line (472), so the
  devices test_add_max_logical_devices added are not checked.
* irqbalance.py: `curr_smt` is looked for and never set, so SMT stays at the
  value of the test, and the affinity of the interrupt is not restored;
  processors that SMT added are beyond the range tearDown brings back; what is
  found in the kernel log is not used; a load whose process is not found stays.
* htx_nic_devices.py: no tearDown; "restoring" flushes the addresses again; the
  three attempts to set up the networks are one.
* vlan_test.py: the answers of the switch are not looked at; the port mode is
  written and kept; when the VLAN interface was never made, deleting it fails
  and neither the host's address nor the peer is restored.
* lpm.py: `wait_for` is given a Boolean, so restarting RMC always ends in a
  `TypeError`.
* nvme_tcp_initiator.py: the clean-up is a test of the next job and stops early
  when no controller is connected; nvmetest.py: the firmware version compared
  after an upgrade is the one cached before (140).
* virtual_fc.py: the check after a deletion looks for a partition's name in a
  list of slot numbers and adapter types (541), finds nothing and says deleted:
  an adapter whose deletion failed stays and test_create_delete_vfchost passes.
* softwareraid.py: `lv_created` is set after the group and the volume (252);
  multipath_test.py: a `.bkp` of an earlier job is restored, and without one the
  test's configuration stays (365); port_bounce.py: the loop goes over the
  characters of the output (296).
* the disk workloads: an `append` with two arguments ends tearDown with a
  `TypeError` before the volume and the array are removed; deletions that fail
  are only warned of; what is made before its flag is set is not removed;
  disktest.py takes the characters of its directory for directories; iozone.py
  runs outside the file system it made; ltp_fsstress.py ignores the exit status.
* ppc64_cpu_test.py: SMT is switched on and then read as the value to restore
  (74); cpuhotplug.py calls `collect_dmesg` without its argument when the kernel
  log is bad (139), and its busy loops stay after a failure.
* memhotplug.py: blocks of a node are not among those put back (229);
  thp_stress_test.py overwrites a mode it could not read (110); libhugetlbfs.py
  does not give the huge pages back.
* ndctl.py: a file system that cannot be wiped ends tearDown before the
  namespaces are removed (1192).
* io/pci/dlpar.py: a slot is given back by the same test only; EEH.py: the loop
  that stops the ping flood is never reached (385).
* ras_lsvpd.py: an empty vpd.db stays when the tool does not complain (161);
  ras_ppcutils.py: test_ls_vdev does not look at its list of failures (401);
  sosreport.py: exceptions in its threads are not seen by the runner (396), and
  a failed report is an `AttributeError` with the loop device mounted (425).
* qspinlock_tracepoint.py: the tracepoint stays enabled after a failure (336);
  function_graph_retval.py switches tracing off whatever it was (267);
  xfstests.py removes a directory that may still be mounted (462).
* dlpar_main.py: config.txt is appended to and read from its first line, so
  after an interrupted job the removal takes back what that one added (123); it
  is written before the first addition (254); a refused command of the three
  tests of SMT state and off-line processors is only logged (592), and the partition may end
  with a processor more or less (`LenientDrift`).

## 6. What is left out

Of dwh:

* Calls that do not fail in the program's own circumstances: locking
  initialised default mutexes, `pthread_attr_init` and `_destroy` in the threads'
  modules, `clock_gettime`. `clearIOQueues` locks mutexes that were never
  initialised when setup failed early; on Linux a zeroed mutex is a valid one.
* Totals and statistics, but for the one that says how a transfer ended.
  `elapsedSigWaits` (2597) is added to without atomicity; only a figure depends
  on it.
* The lifetime of a worker's semaphore: a worker that gives up destroys it
  (2693) while an I/O thread may still post it.
* `strtoui` and the options on threads: their result is `ThreadsAssumption`.
* Report, help and the Python wrapper: output, and sequential commands.

Of the Python tests:

* Text: command lines, parsing, regular expressions, log messages. Time: sleeps
  and polls are the command they wait for. Durations of a hang are the runner's.
* Interruption of a job by its timeout is modelled in `Dlpar`, where a file
  outlives the job, and not in `TestJob`, where tearDown would simply not run.
* Package installation: taken to change nothing that must be put back.
* Arithmetic on sizes and alignments in ndctl.py.

Not modelled (`not_modelled` in `PROJECT.json`): the other files of `io/net`,
`io/disk`, `io/driver`, `cpu`, `memory` and `ras`, which repeat the patterns
above and could be added to `TestJob` as scripts; and the wrappers of external
suites (ltp, kselftest, perf, security, fuzz, kvm, gpu, toolchain, workload,
accelerator), which build a suite, run it and scan its output, change nothing
they must restore, and have no protocol of their own.

## 7. Plan

Done: dwh in the order memory, queues, hand-off, threads, transfers, main,
arithmetic, and `Dlpar`, with proofs of every invariant the runs check of them;
the test machine and the scripts of 44 files, with proofs of its three
invariants for every file that keeps the rules.

1. `DwhIO`: the lifetime of `my_sem`, with the post to a destroyed semaphore.
2. More scripts: `io/driver`, the rest of `io/net` and `io/disk`.
3. Rules that follow two conditions at once, for the jobs of the last table of
   section 4.
