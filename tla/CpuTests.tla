------------------------------- MODULE CpuTests -------------------------------
(***************************************************************************)
(* Tests of the processors: ppc64_cpu (cpu/ppc64_cpu_test.py), tunables of *)
(* the scheduler (cpu/scheduler_tunables_test.py), dies                    *)
(* (cpu/cpu_die_topology.py), hotplug (cpu/cpuhotplug.py), ebizzy          *)
(* (cpu/ebizzy.py) and NUMA policies (cpu/numactl.py).                     *)
(***************************************************************************)
EXTENDS Statements

(***************************************************************************)
(* cpu/ppc64_cpu_test.py.  Resources: smt_found, the SMT mode the job      *)
(* found; smt, a mode other than the one tearDown sets; cores, some cores  *)
(* off line; powerpc_utils.                                                *)
(***************************************************************************)
PpccpuSmtOn(w) == IfChanged("smt", << Restore("smt", w) >>, << Change("smt_found", w) >>)

ppccpu__reset_system_state == << Restore("cores", "error"), PpccpuSmtOn("error") >>

\* SMT is switched on before the current mode is read: what tearDown puts
\* back is always "on".
ppccpu_setUp ==
    << Run("cancel"), Run("cancel"), Assign("smt_str"), PpccpuSmtOn("error"), Run("error"),
       Run("cancel"), Assign("curr_smt"), Run("error"), Run("error") >>

ppccpu_test_build_upstream ==
    << May(<< Raise("cancel") >>), Run("cancel"), Run("error"), Run("fail"), Run("fail"),
       Run("error"), Change("powerpc_utils", "error") >>

ppccpu_equality_check(w) == << Run(w) >>
ppccpu_dscr == << Run("error"), Run("error"), Call(ppccpu_equality_check("note")) >>
ppccpu_test_cmd_options ==
    << Change("smt", "error"), Run("error"), Call(ppccpu_dscr), Report("fail") >>

ppccpu_test_smt_loop == << Change("smt", "error"), Restore("smt", "error") >>
ppccpu_test_single_core_smt ==
    << Restore("cores", "error"), PpccpuSmtOn("error"), Change("cores", "error"),
       Run("error"), Change("smt", "error"), Run("error"), Run("fail") >>

ppccpu_parse_ppc64_cpu_info == << Run("ignore") >>
ppccpu_verify_system_state(w) ==
    << Call(ppccpu_parse_ppc64_cpu_info), Run("error"), Run(w) >>
ppccpu_get_cores_info == << Run("error"), Run("error") >>
ppccpu_get_current_smt == << Run("ignore") >>

ppccpu_test_smt_with_core_operations ==
    << Call(ppccpu_get_cores_info), Change("cores", "error"), Change("smt", "error"),
       Call(ppccpu_verify_system_state("fail")) >>
ppccpu_test_parallel_smt_core_stress ==
    << Call(ppccpu_get_cores_info),
       Choose(<< Change("smt", "error") >>,
           << Choose(<< Change("cores", "error") >>,
                  << Call(ppccpu_get_cores_info), Change("smt", "error"),
                     Call(ppccpu_get_cores_info), Run("fail"),
                     Change("cores", "error") >>) >>),
       Call(ppccpu_verify_system_state("fail")) >>
ppccpu_test_core_range_operations ==
    << Call(ppccpu_get_cores_info), Change("cores", "error"), Run("error"), Run("fail"),
       Call(ppccpu_verify_system_state("fail")) >>
\* The body of a loop is a Call here where the code goes on to the next turn
\* when its first command has failed, and only then.
PpccpuSetAndVerify(r) ==
    << Try(<< Change(r, "error") >>, Errors, << Note, Return >>),
       Call(ppccpu_verify_system_state("note")) >>
ppccpu_test_all_smt_operations ==
    << Call(PpccpuSetAndVerify("smt")), Report("fail") >>
ppccpu_test_dynamic_core_operations ==
    << Restore("cores", "error"), Call(PpccpuSetAndVerify("cores")),
       Restore("cores", "error"), Report("fail") >>

\* What verify_system_state returns is not used.
ppccpu_test_smt_core_interaction ==
    << Call(ppccpu__reset_system_state), Change("cores", "error"),
       Call(ppccpu_get_cores_info), Change("smt", "ignore"), Call(ppccpu_get_cores_info),
       Run("note"), Call(ppccpu_verify_system_state("drop")), Restore("cores", "error"),
       Report("fail") >>
ppccpu_test_random_stress ==
    << May(<< Return >>), Call(ppccpu__reset_system_state),
       Choose(<< Call(ppccpu_get_cores_info), Change("smt", "ignore"),
                 Call(ppccpu_get_cores_info), Run("note") >>,
           << Choose(<< Call(ppccpu_get_current_smt), Change("cores", "ignore"),
                        Call(ppccpu_get_current_smt), Run("note") >>,
                     << Call(ppccpu_verify_system_state("note")) >>) >>),
       Report("fail") >>
ppccpu_test_progressive_core_online_with_smt ==
    << May(<< Return >>), Change("cores", "error"), Change("smt", "ignore"),
       Call(ppccpu_verify_system_state("note")), Change("cores", "error"),
       Call(ppccpu_get_cores_info), Change("smt", "ignore"), Call(ppccpu_get_cores_info),
       Run("note"), Call(ppccpu_verify_system_state("note")), Restore("cores", "error"),
       Report("fail") >>

\* Cores that cannot be taken off line skip the iteration.
ppccpu_test_specific_cores_offline_with_smt ==
    << May(<< Return >>), Call(ppccpu__reset_system_state),
       Call(<< Restore("cores", "error"), Change("cores", "return"),
               Call(ppccpu_get_cores_info), Change("smt", "ignore"),
               Call(ppccpu_get_cores_info), Run("note"),
               Call(ppccpu_verify_system_state("note")) >>),
       Call(ppccpu__reset_system_state), Report("fail") >>

ppccpu_tearDown ==
    << IfSet("smt_str", << Restore("cores", "ignore"), Use("curr_smt"),
                           Restore("smt", "ignore"), Run("ignore") >>, << >>) >>

PpccpuTest(n, m) == Test(n, ppccpu_setUp, m, ppccpu_tearDown)
PpccpuBasic == <<
    PpccpuTest("test_build_upstream", ppccpu_test_build_upstream),
    PpccpuTest("test_cmd_options", ppccpu_test_cmd_options),
    PpccpuTest("test_smt_loop", ppccpu_test_smt_loop),
    PpccpuTest("test_single_core_smt", ppccpu_test_single_core_smt),
    PpccpuTest("test_smt_with_core_operations", ppccpu_test_smt_with_core_operations),
    PpccpuTest("test_parallel_smt_core_stress", ppccpu_test_parallel_smt_core_stress),
    PpccpuTest("test_core_range_operations", ppccpu_test_core_range_operations) >>
PpccpuStress == <<
    PpccpuTest("test_all_smt_operations", ppccpu_test_all_smt_operations),
    PpccpuTest("test_dynamic_core_operations", ppccpu_test_dynamic_core_operations),
    PpccpuTest("test_smt_core_interaction", ppccpu_test_smt_core_interaction),
    PpccpuTest("test_random_stress", ppccpu_test_random_stress),
    PpccpuTest("test_progressive_core_online_with_smt",
               ppccpu_test_progressive_core_online_with_smt),
    PpccpuTest("test_specific_cores_offline_with_smt",
               ppccpu_test_specific_cores_offline_with_smt) >>
PpccpuBasicJob ==
    [tests |-> PpccpuBasic, keeps |-> {"smt_found", "cores", "powerpc_utils"},
     leaves |-> {"smt_found", "powerpc_utils"}, unreported |-> {}]
PpccpuStressJob ==
    [tests |-> PpccpuStress, keeps |-> {"smt_found", "cores"}, leaves |-> {"smt_found"},
     unreported |-> {"test_smt_core_interaction"}]

(***************************************************************************)
(* cpu/scheduler_tunables_test.py.  Resources: debugfs, and the tunables   *)
(* slice, cost, nr_migrate.  The attribute of the same name is set when    *)
(* the value setUp saved is the one the job found.                         *)
(***************************************************************************)
sched__get_tunable_path == << >>
SchedSave(t) == Try(<< Call(sched__get_tunable_path), Run("error"),
                       IfChanged(t, << >>, << Assign(t) >>) >>, Any, << >>)
sched__check_and_save_tunables ==
    << SchedSave("slice"), SchedSave("cost"), SchedSave("nr_migrate") >>
sched_setUp ==
    << Run("cancel"), Assign("original_tunables"), Change("debugfs", "ignore"),
       Call(sched__check_and_save_tunables) >>

sched__set_tunable(t) ==
    << Call(sched__get_tunable_path), Run("fail"), Change(t, "fail") >>
sched__get_tunable == << Call(sched__get_tunable_path), Run("ignore") >>

SchedRestore(t) == IfSet(t, << IfChanged(t, << Restore(t, "ignore") >>, << >>) >>, << >>)
sched__restore_tunables ==
    << Use("original_tunables"), SchedRestore("slice"), SchedRestore("cost"),
       SchedRestore("nr_migrate") >>

\* A number that cannot be parsed is an error, which makes the run a failed
\* one; a workload fails when none of its runs succeeded.
sched__parse_perf_output == << Run("error") >>
sched__run_workload_single(w) ==
    << Try(<< Run("error"), Call(sched__parse_perf_output) >>, Errors, << Raise(w) >>) >>
sched__run_workload(w) == << Call(sched__run_workload_single(w)) >>

sched_test_01_baseline ==
    << Call(sched__get_tunable), Call(sched__run_workload("fail")), Run("fail"),
       Run("fail") >>

\* The comparison with the baseline is logged: it never fails the test.
SchedTuned(tunables) ==
    << Call(sched__get_tunable), Run("cancel"), Call(sched__run_workload("fail")),
       Run("error") >> \o tunables
    \o << Call(sched__run_workload("fail")), Run("ignore") >>
sched_test_02_low_latency ==
    SchedTuned(<< Call(sched__set_tunable("slice")), Call(sched__set_tunable("cost")) >>)
sched_test_03_high_throughput ==
    SchedTuned(<< Call(sched__set_tunable("slice")), Call(sched__set_tunable("cost")) >>)
sched_test_04_migration_behavior ==
    SchedTuned(<< Call(sched__set_tunable("nr_migrate")) >>)
sched_tearDown == << Call(sched__restore_tunables) >>

SchedTest(n, m) == Test(n, sched_setUp, m, sched_tearDown)
SchedJob ==
    [tests |-> << SchedTest("test_01_baseline", sched_test_01_baseline),
                  SchedTest("test_02_low_latency", sched_test_02_low_latency),
                  SchedTest("test_03_high_throughput", sched_test_03_high_throughput),
                  SchedTest("test_04_migration_behavior",
                            sched_test_04_migration_behavior) >>,
     keeps |-> {"debugfs", "slice", "cost", "nr_migrate"},
     leaves |-> {"debugfs", "slice", "cost", "nr_migrate"}, unreported |-> {}]

(***************************************************************************)
(* cpu/cpu_die_topology.py: reads the topology, changes nothing.           *)
(***************************************************************************)
cpudie_setUp == << Run("cancel"), Assign("failures"), Run("cancel") >>
cpudie__read_topology_file == << Run("ignore") >>
\* A missing file is information: systems without core groups have none.
cpudie_test_die_id_presence == << Call(cpudie__read_topology_file) >>
cpudie_test_die_cpumask_presence == << Call(cpudie__read_topology_file) >>
cpudie_test_die_id_validity ==
    << Call(cpudie__read_topology_file), Run("note"), Report("fail") >>
cpudie_test_die_cpumask_consistency ==
    << Call(cpudie__read_topology_file), Call(cpudie__read_topology_file), Run("note"),
       Report("fail") >>
cpudie_test_die_package_relationship ==
    << Call(cpudie__read_topology_file), Call(cpudie__read_topology_file), Run("note"),
       Report("fail") >>
cpudie_test_cpu_die_mask_function == << Call(cpudie__read_topology_file), Run("error") >>

cpudie__setup_hackbench(w) ==
    << Run(w), Run(w), Run(w), Run(w), Run(w), Run(w) >>
cpudie__run_hackbench == << Run("ignore") >>
cpudie__select_test_cpu_sets(w) == << Call(cpudie__read_topology_file), Run(w), Run(w) >>
cpudie_test_die_performance_benefit ==
    << Run("cancel"), Call(cpudie__setup_hackbench("cancel")),
       Call(cpudie__select_test_cpu_sets("cancel")), Call(cpudie__read_topology_file),
       Call(cpudie__run_hackbench), Call(cpudie__run_hackbench), Run("fail") >>
cpudie_tearDown == << Use("failures"), Report("fail") >>

CpudieTest(n, m) == Test(n, cpudie_setUp, m, cpudie_tearDown)
CpudieJob ==
    [tests |-> << CpudieTest("test_die_id_presence", cpudie_test_die_id_presence),
                  CpudieTest("test_die_cpumask_presence", cpudie_test_die_cpumask_presence),
                  CpudieTest("test_die_id_validity", cpudie_test_die_id_validity),
                  CpudieTest("test_die_cpumask_consistency",
                             cpudie_test_die_cpumask_consistency),
                  CpudieTest("test_die_package_relationship",
                             cpudie_test_die_package_relationship),
                  CpudieTest("test_cpu_die_mask_function",
                             cpudie_test_cpu_die_mask_function),
                  CpudieTest("test_die_performance_benefit",
                             cpudie_test_die_performance_benefit) >>,
     keeps |-> {}, leaves |-> {}, unreported |-> {}]

(***************************************************************************)
(* cpu/cpuhotplug.py.  Resources: cpu, last_cpu (which range(totalcpus)    *)
(* does not contain), spinners (the busy loops), cpu_dlpar.                *)
(***************************************************************************)
cpuhp_setUp == << Run("cancel"), Run("error"), Assign("curr_smt"), Run("cancel") >>
cpuhp___error_check == << Run("error") >>
cpuhp___isSMT(yes) == << Run("error"), May(yes) >>
cpuhp___online_cpus == << IfChanged("cpu", << Restore("cpu", "error") >>, << Run("error") >>) >>
cpuhp___cpu_toggle ==
    << Choose(<< Choose(<< Change("cpu", "error") >>, << Change("last_cpu", "error") >>) >>,
              << Run("error") >>) >>
cpuhp___kill_process == << Restore("spinners", "ignore") >>

\* The last pass brings every processor but the last one back.
cpuhp_cpu_serial_off_on ==
    << Change("cpu", "error"), Restore("cpu", "error"), Change("last_cpu", "error"),
       Change("cpu", "error"), Restore("cpu", "error") >>
cpuhp_single_cpu_toggle == << Change("cpu", "error"), Restore("cpu", "error") >>
cpuhp_cpu_toggle_one_by_one == << Change("cpu", "error"), Restore("cpu", "error") >>
cpuhp_multiple_cpus_toggle == << Call(cpuhp___isSMT(<< Run("error") >>)) >>

\* The loops are killed at the end of the method, nowhere else.
cpuhp_pinned_cpu_stress ==
    << Change("spinners", "error"), Run("ignore"), Change("cpu", "error"), Run("ignore"),
       Call(cpuhp___online_cpus), Change("cpu", "error"), Call(cpuhp___online_cpus),
       Run("error"), Run("ignore"), Call(cpuhp___cpu_toggle), Call(cpuhp___kill_process) >>

\* The counts of processors are compared and only logged.
cpuhp_dlpar_cpu_hotplug ==
    << May(<< Change("cpu_dlpar", "ignore"), Run("drop"), Restore("cpu_dlpar", "ignore"),
              Run("drop") >>) >>

\* What the kernel log shows is passed to a function that is called without
\* its argument: a TypeError.
cpuhp_test ==
    << Call(cpuhp___online_cpus), Call(cpuhp_cpu_serial_off_on),
       Call(cpuhp___error_check), Run("error"), Call(cpuhp_single_cpu_toggle),
       Call(cpuhp_cpu_toggle_one_by_one), Call(cpuhp_multiple_cpus_toggle),
       Call(cpuhp_pinned_cpu_stress), Call(cpuhp_dlpar_cpu_hotplug),
       Call(cpuhp___error_check), Run("error") >>

\* The cycle of SMT modes brings the threads of every core back.
cpuhp_tearDown ==
    << IfSet("curr_smt", << Restore("last_cpu", "error") >>, << >>),
       Call(cpuhp___online_cpus) >>

CpuhpJob ==
    [tests |-> << Test("test", cpuhp_setUp, cpuhp_test, cpuhp_tearDown) >>,
     keeps |-> {"cpu_dlpar", "spinners"}, leaves |-> {"spinners"}, unreported |-> {"test"}]

(***************************************************************************)
(* cpu/ebizzy.py: a workload built in the work directory.                  *)
(***************************************************************************)
ebizzy_setUp == << Run("cancel"), Run("error"), Run("error"), Run("error"), Run("error") >>
ebizzy__get_numa_nodes == << Run("ignore") >>
ebizzy__create_test_directory == << Run("error") >>
ebizzy__save_iteration_results == << Run("ignore") >>
ebizzy__save_summary_log == << Run("ignore") >>
\* Iterations without a result are left out of the lists.
ebizzy__run_ebizzy_with_perf ==
    << Call(ebizzy__create_test_directory),
       Try(<< Run("error"), Run("ignore"), Call(ebizzy__save_iteration_results) >>, Any,
           << Call(ebizzy__save_iteration_results) >>),
       Call(ebizzy__save_summary_log) >>
ebizzy_test == << Run("error"), Run("error"), Run("error"), Run("error"), Run("error") >>
ebizzy_test_ebizzy_50_percent_load == << Call(ebizzy__run_ebizzy_with_perf), Run("fail") >>
ebizzy_test_ebizzy_100_percent_load == << Call(ebizzy__run_ebizzy_with_perf), Run("fail") >>
ebizzy_test_ebizzy_120_percent_overcommit ==
    << Call(ebizzy__run_ebizzy_with_perf), Run("fail") >>
\* No data at all is a warning in the two tests that pin.
ebizzy_test_ebizzy_single_cpu_pinning == << Call(ebizzy__run_ebizzy_with_perf), Run("drop") >>
ebizzy_test_ebizzy_numa_node_pinning ==
    << Call(ebizzy__get_numa_nodes), Run("cancel"), Call(ebizzy__run_ebizzy_with_perf),
       Run("drop"), May(<< Call(ebizzy__run_ebizzy_with_perf), Run("drop") >>) >>

EbizzyTest(n, m) == Test(n, ebizzy_setUp, m, << >>)
EbizzyJob ==
    [tests |-> << EbizzyTest("test", ebizzy_test),
                  EbizzyTest("test_ebizzy_50_percent_load",
                             ebizzy_test_ebizzy_50_percent_load),
                  EbizzyTest("test_ebizzy_100_percent_load",
                             ebizzy_test_ebizzy_100_percent_load),
                  EbizzyTest("test_ebizzy_120_percent_overcommit",
                             ebizzy_test_ebizzy_120_percent_overcommit),
                  EbizzyTest("test_ebizzy_single_cpu_pinning",
                             ebizzy_test_ebizzy_single_cpu_pinning),
                  EbizzyTest("test_ebizzy_numa_node_pinning",
                             ebizzy_test_ebizzy_numa_node_pinning) >>,
     keeps |-> {}, leaves |-> {},
     unreported |-> {"test_ebizzy_single_cpu_pinning", "test_ebizzy_numa_node_pinning"}]

(***************************************************************************)
(* cpu/numactl.py.  Resources: ip, numa_node (of a PCI device).  The       *)
(* attribute interface_known is self.interface, interface that it is not   *)
(* None.                                                                   *)
(***************************************************************************)
numactl_setUp(device) ==
    << Run("cancel"), Run("error"), Run("error"), Assign("interface_known"),
       May(<< Run("cancel"), Assign("interface"), Run("cancel"),
              Assign("networkinterface"), Run("cancel"),
              Try(<< Change("ip", "error"), Run("error") >>, Any, << Run("error") >>),
              Run("error"), Run("cancel"), Run("cancel") >>) >>
    \o (IF device THEN << Run("cancel"), Run("cancel") >> ELSE << >>)
numactl_check_numa_nodes == << Run("cancel") >>
numactl_dd_run == << Run("fail") >>
\* Lost packets cancel the test.
numactl_numa_ping == << Run("cancel") >>
numactl_test_basic == << Run("fail") >>
NumactlTraffic == << IfSet("interface", << Call(numactl_numa_ping) >>, << >>),
                     Choose(<< Call(numactl_dd_run) >>,
                            << IfSet("interface", << >>, << Raise("cancel") >>) >>) >>
numactl_test_interleave == NumactlTraffic
numactl_test_localalloc == NumactlTraffic
numactl_test_preferred_node == << Call(numactl_check_numa_nodes), Run("error") >> \o NumactlTraffic
numactl_test_cpunode_with_membind ==
    << Call(numactl_check_numa_nodes), Run("error") >> \o NumactlTraffic
numactl_test_physical_cpu_bind ==
    << Call(numactl_check_numa_nodes), Run("error") >> \o NumactlTraffic
\* The device is bound to another node for good.
numactl_test_numa_pci_bind ==
    << Call(numactl_check_numa_nodes), Run("error"), Change("numa_node", "error") >>
numactl_tearDown ==
    << Use("interface_known"),
       IfSet("interface", << Use("networkinterface"), Restore("ip", "error"),
                             Try(<< Run("error") >>, Any, << Run("error") >>) >>, << >>) >>

NumactlTest(n, device, m) == Test(n, numactl_setUp(device), m, numactl_tearDown)
NumactlJob ==
    [tests |-> << NumactlTest("test_basic", FALSE, numactl_test_basic),
                  NumactlTest("test_interleave", FALSE, numactl_test_interleave),
                  NumactlTest("test_localalloc", FALSE, numactl_test_localalloc),
                  NumactlTest("test_preferred_node", TRUE, numactl_test_preferred_node),
                  NumactlTest("test_cpunode_with_membind", TRUE,
                              numactl_test_cpunode_with_membind),
                  NumactlTest("test_physical_cpu_bind", TRUE,
                              numactl_test_physical_cpu_bind),
                  NumactlTest("test_numa_pci_bind", TRUE, numactl_test_numa_pci_bind) >>,
     keeps |-> {"numa_node"}, leaves |-> {"numa_node"}, unreported |-> {}]
================================================================================
