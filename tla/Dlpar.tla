-------------------------------- MODULE Dlpar ---------------------------------
(***************************************************************************)
(* dlpar/dlpar_main.py and dlpar/dlpar_api/api.py: processors, processing  *)
(* units and memory are added to a partition, removed from it and moved to *)
(* a second one by commands to the HMC, while the partition runs.  The     *)
(* quantities are computed from what the partition has; those added are    *)
(* written to config.txt in the current directory, from which the removal  *)
(* and the mix read them, and which only a mix that ends well deletes.     *)
(*                                                                         *)
(* The HMC (external) does what it is told if the profile allows it, or    *)
(* does a part of it, and says so or not.  Units are counted in quarters   *)
(* of a processor, memory in memory blocks (LMB).  A job runs the tests of *)
(* a selection in the order of the class; it may be interrupted (the job's *)
(* timeout) between two commands, and config.txt outlives it.              *)
(***************************************************************************)
EXTENDS Integers, Sequences, SequencesExt, Totals

CONSTANTS
    MinProcs, MaxProcsSet, InitProcs, InitUnits,   \* of the profile
    Many,                                          \* 20: above it vcpus go up by two
    MinMem, MaxMem, InitMem,
    MoveProcs, MoveUnits, MemQuant,                \* the *_quantity_to_test
    Iterations,                                    \* of a move of processors
    Selections,                                    \* the tests of a job, in order
    MaxJobs                                        \* bound: jobs one after another

\* The methods of the class, in the order in which the runner takes them.
Order == [test_cpu_add |-> 1, test_cpu_rm |-> 2, test_mix_cpu |-> 3, test_mem_add |-> 4,
          test_mem_rem |-> 5, test_mem_mix |-> 6, test_cpu_move |-> 7, test_mem_mov |-> 8,
          test_check_smt_state |-> 9, test_offline_cpu_persistence |-> 10,
          test_offline_proc_persistence |-> 11]
Tests == DOMAIN Order
Lenient == {"test_check_smt_state", "test_offline_cpu_persistence",
            "test_offline_proc_persistence"}
InOrder(s) == \A i, j \in 1..Len(s) : i < j => Order[s[i]] < Order[s[j]]

ASSUME DlparAssumption ==
    /\ {MinProcs, InitProcs, InitUnits, Many, MinMem, MaxMem, InitMem, MoveProcs,
        MoveUnits, MemQuant, MaxJobs} \subseteq Nat \ {0}
    /\ Iterations \in Nat
    /\ MinProcs <= InitProcs /\ \A m \in MaxProcsSet : m \in Nat /\ InitProcs <= m
    /\ MinMem <= InitMem /\ InitMem <= MaxMem
    /\ InitUnits <= 4 * InitProcs /\ 5 * InitUnits >= InitProcs
    /\ \A s \in Selections : s \in Seq(Tests) /\ s # << >> /\ InOrder(s)

VARIABLES
    mode,      \* lp_mode: "dedicated" or "shared"
    maxProcs,  \* curr_max_procs
    selection, \* the tests of a job
    job,       \* its number
    left,      \* the tests it has still to run
    test,      \* the test that runs, or that ran last
    verdict,   \* "RUNNING", "PASS", "FAIL", "CANCEL" or "ERROR"
    passed,    \* the tests of this job that have passed
    plan,      \* the commands the test has still to send
    lpar,      \* what the partition has
    other,     \* and the second one
    file,      \* the lines of config.txt
    host,      \* what the last three tests changed: smt, cpu1, cores
    before,    \* lpar when the test started
    goal,      \* lpar if every command of the test does what it says
    found,     \* lpar when the job started
    fresh      \* the job found no config.txt

machine == <<lpar, other>>
constantVars == <<mode, maxProcs, selection>>
jobVars == <<job, found, fresh>>
vars == <<constantVars, jobVars, left, test, verdict, passed, plan, machine, file, host,
          before, goal>>

Resources == {"procs", "units", "mem"}

(***************************************************************************)
(* The quantities.                                                         *)
(***************************************************************************)

\* step, 2 * step, ... as long as the sum, step * n * (n + 1) / 2, fits.
Series(n, step) == [i \in 1..n |-> i * step]
Fitting(room, step) == Max({n \in 0..room : step * (n * (n + 1)) <= 2 * room})
cpu_payload_dataOneOver(max, curr, step) == Series(Fitting(max + 1 - curr, step), step)
cpu_payload_data(max, curr, step) ==
    IF curr > max THEN << >> ELSE Series(Fitting(max - curr, step), step)

\* Each value doubles the one before it as long as the sum, 2^m - 1, fits; the
\* last takes what is left.
Doubling(m) == [i \in 1..m |-> 2 ^ (i - 1)]
\* To add: up to the maximum.  To remove: four or eight tenths of what the
\* partition has, rounded up to a block beyond.
mem_payload_data(room) ==
    LET m    == Max({n \in 0..room : 2 ^ n <= room + 1})
        rest == room + 1 - 2 ^ m
    IN IF rest = 0 THEN Doubling(m) ELSE Append(Doubling(m), rest)
Share(curr, tenths) == (curr * tenths) \div 10 + 1

\* mix_payload_data: random positive values with the sum of the list.
mix_payload_data(values) ==
    LET n == Total(values)
    IN UNION {{m \in [1..k -> 1..n - k + 1] : Total(m) = n} : k \in 0..n}

(***************************************************************************)
(* The commands: chhwres -o a, r or m, on procs, units or mem.             *)
(***************************************************************************)
Add(r, q)  == [op |-> "a", res |-> r, qty |-> q]
Rem(r, q)  == [op |-> "r", res |-> r, qty |-> q]
Move(r, q) == [op |-> "m", res |-> r, qty |-> q]

\* The methods of DedicatedCpu, CpuUnit and Memory, each one command.
add_ded_cpu(q)    == Add("procs", q)
rem_ded_cpu(q)    == Rem("procs", q)
move_ded_cpu      == Move("procs", MoveProcs)
add_proc(q, r)    == Add(r, q)
remove_proc(q, r) == Rem(r, q)
move_proc         == Move("units", MoveUnits)
mem_add(q)        == Add("mem", q)
mem_rem(q)        == Rem("mem", q)
mem_move          == Move("mem", MemQuant)

\* Dlpar_engine, on the two partitions ms = <<lpar, other>>, for amount d.
Done(ms, c, d) ==
    CASE c.op = "a" -> << [ms[1] EXCEPT ![c.res] = @ + d], ms[2] >>
      [] c.op = "r" -> << [ms[1] EXCEPT ![c.res] = @ - d], ms[2] >>
      [] c.op = "m" -> << [ms[1] EXCEPT ![c.res] = @ - d], [ms[2] EXCEPT ![c.res] = @ + d] >>

\* What the profile allows: limits, and in shared mode between a twentieth
\* of a processor and one for each virtual processor.
Within(m) ==
    /\ MinProcs <= m.procs /\ m.procs <= maxProcs
    /\ MinMem <= m.mem /\ m.mem <= MaxMem
    /\ mode = "shared" => m.units <= 4 * m.procs /\ 5 * m.units >= m.procs
Allowed(c) == \A i \in 1..2 : Within(Done(machine, c, c.qty)[i])

\* What the commands of a plan for r come to.
Amount(p, ops, r) ==
    Total([i \in 1..Len(p) |-> IF p[i].op \in ops /\ p[i].res = r THEN p[i].qty ELSE 0])
\* lpar if every command of the plan does what it says.
AllDone(p) ==
    [r \in Resources |-> lpar[r] + Amount(p, {"a"}, r) - Amount(p, {"r", "m"}, r)]

\* The commands of a loop that sends one of p, then one of q.
Alternate(p, q) ==
    [i \in 1..2 * Len(p) |-> IF i % 2 = 1 THEN p[(i + 1) \div 2] ELSE q[i \div 2]]

(***************************************************************************)
(* The plans of the tests: the set of sequences of commands a test may     *)
(* send, computed when it starts, and the lines it writes to config.txt.   *)
(***************************************************************************)
\* The shorter list decides; the quotient of a unit and a processor, which
\* must be between 0.05 and 1, is the same for all pairs.
test_cpu_addPairs ==
    LET s  == IF maxProcs > Many THEN 2 ELSE 1
        vp == cpu_payload_data(maxProcs, lpar.procs, s)
        pu == cpu_payload_data(4 * maxProcs, lpar.units, 3)
        n  == IF Len(vp) < Len(pu) THEN Len(vp) ELSE Len(pu)
        ok == IF s <= 5 * 3 /\ 3 <= 4 * s THEN n ELSE 0
    IN << Series(ok, s), Series(ok, 3) >>

data_payload_backup(t) ==
    IF t # "test_cpu_add" THEN << >>
    ELSE IF mode = "dedicated" THEN << cpu_payload_data(maxProcs, lpar.procs, 1) >>
    ELSE test_cpu_addPairs

test_cpu_add ==
    IF mode = "dedicated"
    THEN LET l == cpu_payload_data(maxProcs, lpar.procs, 1)
         IN {[i \in 1..Len(l) |-> add_ded_cpu(l[i])]}
    ELSE LET p == test_cpu_addPairs
         IN {Alternate([i \in 1..Len(p[2]) |-> add_proc(p[2][i], "units")],
                       [i \in 1..Len(p[1]) |-> add_proc(p[1][i], "procs")])}

\* The removal takes the first line, or the first two: in shared mode from
\* the end.
test_cpu_rmShort ==
    LET n == Len(file[1])
    IN IF mode = "dedicated"
       THEN {[i \in 1..n - 1 |-> rem_ded_cpu(file[1][i])]}
       ELSE {Alternate([i \in 1..n - 1 |-> remove_proc(file[1][n + 1 - i], "procs")],
                       [i \in 1..n - 1 |-> remove_proc(file[2][n + 1 - i], "units")])}

test_cpu_rm ==
    IF mode = "dedicated"
    THEN {[i \in 1..Len(file[1]) |-> rem_ded_cpu(file[1][i])]}
    ELSE LET n == Len(file[1])
         IN {Alternate([i \in 1..n |-> remove_proc(file[1][n + 1 - i], "procs")],
                       [i \in 1..n |-> remove_proc(file[2][n + 1 - i], "units")])}

test_mix_cpu ==
    IF mode = "dedicated"
    THEN {LET l == Append(m, Total(m))
          IN Alternate([i \in 1..Len(l) |-> add_ded_cpu(l[i])],
                       [i \in 1..Len(l) |-> rem_ded_cpu(l[i])])
          : m \in mix_payload_data(file[1])}
    ELSE LET n == Len(file[1])
         IN {Alternate(Alternate([i \in 1..n |-> add_proc(file[1][i], "procs")],
                                 [i \in 1..n |-> remove_proc(file[2][i], "units")]),
                       Alternate([i \in 1..n |-> add_proc(file[2][i], "units")],
                                 [i \in 1..n |-> remove_proc(file[1][i], "procs")]))}

test_mem_add ==
    LET l == mem_payload_data(MaxMem - lpar.mem)
    IN {[i \in 1..Len(l) - 1 |-> mem_add(l[i])]}

test_mem_remAll ==
    {LET l == mem_payload_data(Share(lpar.mem, tenths))
     IN [i \in 1..Len(l) |-> mem_rem(l[i])] : tenths \in {4, 8}}
test_mem_rem ==
    {LET l == mem_payload_data(Share(lpar.mem, tenths))
     IN [i \in 1..Len(l) - 1 |-> mem_rem(l[i])] : tenths \in {4, 8}}

test_mem_mix ==
    LET l == mem_payload_data(MaxMem - lpar.mem)
    IN {Alternate([i \in 1..Len(l) |-> mem_add(l[i])],
                  [i \in 1..Len(l) |-> mem_rem(Share(l[i], 8))])}

test_cpu_move ==
    {[i \in 1..Iterations |-> IF mode = "dedicated" THEN move_ded_cpu ELSE move_proc]}
test_mem_mov  == {<< mem_move >>}

\* The last three tests change the host first, add and remove a processor,
\* and put part of what they changed back last.
AddRemoveOneTwice ==
    IF mode = "dedicated" THEN << add_ded_cpu(1), rem_ded_cpu(1), rem_ded_cpu(1) >>
    ELSE << add_proc(1, "procs"), add_proc(4, "units"),
            remove_proc(1, "procs"), remove_proc(4, "units"), remove_proc(1, "procs") >>
AddRemoveOne ==
    IF mode = "dedicated" THEN << add_ded_cpu(1), rem_ded_cpu(1) >>
    ELSE << add_proc(1, "procs"), add_proc(4, "units"),
            remove_proc(1, "procs"), remove_proc(4, "units") >>

test_check_smt_state == [change |-> {"smt"}, plan |-> AddRemoveOne, restore |-> {}]
test_offline_cpu_persistence ==
    [change |-> {"cpu1"}, plan |-> AddRemoveOne, restore |-> {"cpu1"}]
test_offline_proc_persistence ==
    [change |-> {"smt", "cores"}, plan |-> AddRemoveOne, restore |-> {}]

OnHost(t) ==
    CASE t = "test_check_smt_state"          -> test_check_smt_state
      [] t = "test_offline_cpu_persistence"  -> test_offline_cpu_persistence
      [] t = "test_offline_proc_persistence" -> test_offline_proc_persistence
HostChange(t)  == IF t \in Lenient THEN OnHost(t).change ELSE {}
HostRestore(t) == IF t \in Lenient THEN OnHost(t).restore ELSE {}

Plans(t) ==
    CASE t = "test_cpu_add"  -> test_cpu_add
      [] t = "test_cpu_rm"   -> test_cpu_rm
      [] t = "test_mix_cpu"  -> test_mix_cpu
      [] t = "test_mem_add"  -> test_mem_add
      [] t = "test_mem_rem"  -> test_mem_rem
      [] t = "test_mem_mix"  -> test_mem_mix
      [] t = "test_cpu_move" -> test_cpu_move
      [] t = "test_mem_mov"  -> test_mem_mov
      [] t \in Lenient       -> {OnHost(t).plan}

\* The removal and the mix need the lines of config.txt.
data_payload_extract(t) ==
    t \in {"test_cpu_rm", "test_mix_cpu"} => Len(file) >= (IF mode = "dedicated" THEN 1 ELSE 2)

\* A Memory object checks both partitions when it is made.
check_set_cfg(t) ==
    /\ t \in {"test_mem_add", "test_mem_mix", "test_mem_mov"} =>
           lpar.mem + MemQuant <= MaxMem /\ other.mem + MemQuant <= MaxMem
    /\ t = "test_mem_rem" => MemQuant <= lpar.mem /\ MemQuant <= other.mem

--------------------------------------------------------------------------------
Init ==
    /\ mode \in {"dedicated", "shared"} /\ maxProcs \in MaxProcsSet
    /\ selection \in Selections
    /\ job = 1 /\ left = selection
    /\ test = Head(selection) /\ verdict = "CANCEL" /\ passed = {} /\ plan = << >>
    /\ lpar = [procs |-> InitProcs, units |-> InitUnits, mem |-> InitMem]
    /\ other = lpar
    /\ file = << >> /\ host = {}
    /\ before = lpar /\ goal = lpar /\ found = lpar /\ fresh = TRUE

\* The beginning of a test, up to its first command.
StartTest ==
    /\ verdict # "RUNNING" /\ left # << >>
    /\ data_payload_extract(Head(left)) /\ check_set_cfg(Head(left))
    /\ test' = Head(left) /\ left' = Tail(left)
    /\ verdict' = "RUNNING" /\ before' = lpar
    /\ \E p \in Plans(Head(left)) : plan' = p /\ goal' = AllDone(p)
    /\ file' = file \o data_payload_backup(Head(left))
    /\ host' = host \cup HostChange(Head(left))
    /\ UNCHANGED <<constantVars, jobVars, passed, machine>>

\* get_connections fails, or a check of the configuration, or there is no
\* config.txt, or a package or a command on the host: the last three tests may
\* have changed the host by then.
CannotStart ==
    /\ verdict # "RUNNING" /\ left # << >>
    /\ test' = Head(left) /\ left' = Tail(left)
    /\ verdict' \in {"ERROR"} \cup IF Head(left) \in Lenient THEN {"CANCEL"} ELSE {}
    /\ before' = lpar /\ goal' = lpar
    /\ IF verdict' = "CANCEL" THEN UNCHANGED host
       ELSE \E h \in SUBSET HostChange(Head(left)) : host' = host \cup h
    /\ UNCHANGED <<constantVars, jobVars, passed, plan, machine, file>>

Sending == verdict = "RUNNING" /\ plan # << >>

Sent == UNCHANGED <<constantVars, jobVars, left, test, passed, file, host, before, goal>>

Apply(d) == lpar' = Done(machine, Head(plan), d)[1] /\ other' = Done(machine, Head(plan), d)[2]

ApplyOneOf(amounts) ==
    \E d \in amounts : /\ d = 0 \/ Allowed([Head(plan) EXCEPT !.qty = d])
                       /\ Apply(d)

\* Dlpar_engine: the HMC does what it was told; the validation finds the new
\* quantities.
Obeyed ==
    /\ Sending /\ Allowed(Head(plan))
    /\ Apply(Head(plan).qty)
    /\ plan' = Tail(plan) /\ UNCHANGED verdict
    /\ Sent

\* Nothing, a part or all of it was done and the HMC says something: the
\* test is cancelled for a lack of resources, or fails; a move always fails,
\* and the last three tests log it and go on.
Refused ==
    /\ Sending
    /\ ApplyOneOf({0, Head(plan).qty \div 2, Head(plan).qty})
    /\ IF test \in Lenient
       THEN plan' = Tail(plan) /\ UNCHANGED verdict
       ELSE /\ plan' = << >>
            /\ verdict' \in IF Head(plan).op = "m" THEN {"FAIL"} ELSE {"FAIL", "CANCEL"}
    /\ Sent

\* The HMC says nothing and the quantities are not those expected: an
\* exception.  Units are compared as strings, and a sum of floats may be
\* printed with other digits.
Dlpar_cpu_validationOff ==
    /\ Sending /\ Head(plan).res # "mem"
    /\ ApplyOneOf({0, Head(plan).qty \div 2})
    /\ plan' = Tail(plan) /\ UNCHANGED verdict
    /\ Sent

Dlpar_cpu_validation ==
    /\ Sending /\ Head(plan).res # "mem"
    /\ ApplyOneOf({0, Head(plan).qty \div 2}
                  \cup IF Head(plan).res = "units" THEN {Head(plan).qty} ELSE {})
    /\ plan' = << >> /\ verdict' = "ERROR"
    /\ Sent

Dlpar_mem_validation ==
    /\ Sending /\ Head(plan).res = "mem"
    /\ ApplyOneOf({0, Head(plan).qty \div 2})
    /\ plan' = << >> /\ verdict' = "ERROR"
    /\ Sent

\* The last three tests: a command on the host fails, between two commands to
\* the HMC or when the host is put back.
HostCommandFails ==
    /\ verdict = "RUNNING" /\ test \in Lenient
    /\ plan' = << >> /\ verdict' = "ERROR"
    /\ UNCHANGED machine /\ Sent

\* The end of a test that did everything.
Pass ==
    /\ verdict = "RUNNING" /\ plan = << >>
    /\ verdict' = "PASS" /\ passed' = passed \cup {test}
    /\ file' = IF test = "test_mix_cpu" THEN << >> ELSE file
    /\ host' = host \ HostRestore(test)
    /\ UNCHANGED <<constantVars, jobVars, left, test, plan, machine, before, goal>>

\* The job ends early: its timeout, or the user.
Interrupt ==
    /\ verdict = "RUNNING" \/ left # << >>
    /\ left' = << >> /\ plan' = << >>
    /\ verdict' = IF verdict = "RUNNING" THEN "ERROR" ELSE verdict
    /\ UNCHANGED <<constantVars, jobVars, test, passed, machine, file, host, before, goal>>

NextJob ==
    /\ verdict # "RUNNING" /\ left = << >> /\ job < MaxJobs
    /\ job' = job + 1 /\ left' = selection /\ passed' = {}
    /\ found' = lpar /\ fresh' = (file = << >>) /\ verdict' = "CANCEL"
    /\ UNCHANGED <<constantVars, test, plan, machine, file, host, before, goal>>

JobsOver == verdict # "RUNNING" /\ left = << >> /\ job = MaxJobs /\ UNCHANGED vars

Next ==
    \/ StartTest \/ CannotStart \/ Obeyed \/ Refused \/ Dlpar_cpu_validation
    \/ Dlpar_mem_validation \/ HostCommandFails \/ Pass \/ Interrupt \/ NextJob \/ JobsOver

Spec == Init /\ [][Next]_vars

--------------------------------------------------------------------------------
\* A test that passes has moved everything it set out to move, although the
\* HMC may do a part of a command and say nothing; the three tests that log
\* a refused command and go on are the exception.
PassMeansDone == verdict = "PASS" /\ test \notin Lenient => lpar = goal

\* test_cpu_rm takes back what test_cpu_add of the same job added, through
\* config.txt, if the job found no config.txt of an earlier one: the file is
\* appended to, and its first lines are the ones that are read.
RemoveUndoesAdd ==
    test = "test_cpu_rm" /\ verdict = "PASS" /\ fresh /\ "test_cpu_add" \in passed
        => lpar = found

\* The computed quantities respect the profile: no command of the tests that
\* add memory, or that add or mix dedicated processors, is one the HMC must
\* refuse; the mix relies on the removal before it.
RequestsAllowed ==
    Sending /\ \/ test \in {"test_mem_add", "test_mem_mix"}
               \/ mode = "dedicated" /\ test = "test_cpu_add"
               \/ /\ mode = "dedicated" /\ fresh
                  /\ \/ test = "test_cpu_rm" /\ "test_cpu_add" \in passed
                     \/ /\ test = "test_mix_cpu"
                        /\ {"test_cpu_add", "test_cpu_rm"} \subseteq passed
        => Allowed(Head(plan))

\* test_mem_rem, which rounds its share up to a block and leaves out the last
\* value, never takes more than eight tenths of the memory, and the pairs of
\* test_mem_mix never take the partition below what it had.
MemoryKept ==
    /\ test = "test_mem_rem" => 10 * lpar.mem >= 2 * before.mem
    /\ test = "test_mem_mix" => lpar.mem >= before.mem

\* The last three tests only log a command that the HMC refused and send the
\* next: a removal may follow an addition that was not made, or not be made
\* after one that was.  However those end, and wherever the test stops, the
\* partition is off by one processor and its units at most, and its memory is
\* untouched.
Drift == [procs |-> 1, units |-> 4, mem |-> 0]
LenientDrift ==
    test \in Lenient =>
        \A r \in Resources : /\ lpar[r] <= before[r] + Drift[r]
                             /\ before[r] <= lpar[r] + Drift[r]
================================================================================
