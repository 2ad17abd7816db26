------------------------------- MODULE MemTests -------------------------------
(***************************************************************************)
(* Tests of memory: hotplug (memory/memhotplug.py), transparent huge pages *)
(* (memory/thp_stress_test.py), stress-ng (memory/stressng_mem.py) and     *)
(* huge pages (memory/libhugetlbfs.py).                                    *)
(***************************************************************************)
EXTENDS Statements

(***************************************************************************)
(* memory/memhotplug.py.  Resources: block (of the list setUp makes),      *)
(* node_block (of the list of a node), lmb, stress.  A block that is busy  *)
(* is logged.                                                              *)
(***************************************************************************)
memhp_online(b)  == << Restore(b, "ignore") >>
memhp_offline(b) == << Change(b, "ignore") >>
memhp_get_hotpluggable_blocks == << Run("error") >>
memhp_hotunplug_all == << IfChanged("block", << >>, << Call(memhp_offline("block")) >>) >>
memhp_hotplug_all   == << IfChanged("block", << Call(memhp_online("block")) >>, << >>) >>
memhp___is_auto_online(no) == << Run("error"), May(no) >>
memhp_collect_dmesg == << Run("error") >>
memhp___error_check ==
    << Run("error"), Choose(<< Call(memhp_collect_dmesg), Raise("fail") >>, << >>) >>
memhp_run_stress == << Run("ignore") >>

memhp_setUp ==
    << Clear("blocks_hotpluggable"), Run("cancel"), Run("cancel"),
       May(<< Run("error"), Run("cancel"), Run("error"), Run("error"), Run("error"),
              Change("stress", "error") >>),
       Call(memhp_get_hotpluggable_blocks), Assign("blocks_hotpluggable"),
       May(<< Call(memhp___is_auto_online(<< Call(memhp_hotplug_all) >>)) >>),
       Run("error") >>
memhp_test_hotplug_loop ==
    << Call(memhp_hotunplug_all), Call(memhp_run_stress), Call(memhp_hotplug_all),
       Call(memhp___error_check) >>
memhp_test_hotplug_toggle ==
    << Call(memhp_offline("block")), Call(memhp_run_stress), Call(memhp_online("block")),
       Call(memhp___error_check) >>
memhp_test_dlpar_mem_hotplug ==
    << May(<< Change("lmb", "ignore"), Call(memhp_run_stress), Restore("lmb", "ignore"),
              Call(memhp___error_check) >>) >>

\* The blocks of the nodes stay off line: tearDown knows the list of setUp.
memhp_test_hotplug_per_numa_node ==
    << Run("error"), Call(memhp_get_hotpluggable_blocks),
       Call(memhp_offline("node_block")), Call(memhp_run_stress),
       Call(memhp___error_check) >>
memhp_tearDown == << IfSet("blocks_hotpluggable", << Call(memhp_hotplug_all) >>, << >>) >>

MemhpTest(n, m) == Test(n, memhp_setUp, m, memhp_tearDown)
MemhpJob ==
    [tests |-> << MemhpTest("test_hotplug_loop", memhp_test_hotplug_loop),
                  MemhpTest("test_hotplug_toggle", memhp_test_hotplug_toggle),
                  MemhpTest("test_dlpar_mem_hotplug", memhp_test_dlpar_mem_hotplug),
                  MemhpTest("test_hotplug_per_numa_node",
                            memhp_test_hotplug_per_numa_node) >>,
     keeps |-> {"block", "lmb", "node_block", "stress"},
     leaves |-> {"node_block", "stress"}, unreported |-> {}]

(***************************************************************************)
(* memory/thp_stress_test.py.  Resource: thp, the mode of transparent huge *)
(* pages.                                                                  *)
(***************************************************************************)
thp__get_kernel_dependencies == << Run("cancel") >>
thp_setUp ==
    << Clear("original_thp_setting"), Run("cancel"), Run("cancel"),
       Call(thp__get_kernel_dependencies), Run("ignore"), Run("cancel") >>
\* A mode that could not be read is not put back.
thp__enable_thp ==
    << Try(<< Run("error"), Assign("original_thp_setting") >>, Any, << >>),
       Change("thp", "fail"), Run("error"), Run("fail") >>
thp__get_memory_stats == << Run("error"), Run("ignore") >>
thp__verify_thp_counters_increased == << Run("drop") >>
thp__setup_kernel_source == << Run("fail"), Run("fail"), Run("error"), Run("ignore") >>
\* A build that fails, with its memory pressure, is a warning.
thp__run_stress_iteration ==
    << Call(thp__get_memory_stats), Run("error"), Run("ignore"), Run("drop"),
       Run("ignore"), Run("ignore"), Call(thp__get_memory_stats),
       Call(thp__verify_thp_counters_increased) >>
thp_test ==
    << Call(thp__enable_thp), Call(thp__get_memory_stats), Call(thp__setup_kernel_source),
       Try(<< Call(thp__run_stress_iteration) >>, Any, << Note >>),
       Call(thp__get_memory_stats), Run("fail"), Report("fail") >>
thp_tearDown ==
    << IfSet("original_thp_setting", << Restore("thp", "ignore") >>, << >>),
       Run("ignore") >>
ThpJob ==
    [tests |-> << Test("test", thp_setUp, thp_test, thp_tearDown) >>,
     keeps |-> {"thp"}, leaves |-> {"thp"}, unreported |-> {"test"}]

(***************************************************************************)
(* memory/stressng_mem.py.  Resource: stress_ng, which is installed.       *)
(***************************************************************************)
stressmem_read_line_with_matching_pattern == << Run("error") >>
stressmem_extract_call_traces == << Run("error") >>
stressmem_calculate_workers_for_memory == << Run("error") >>
stressmem_get_memory_option_for_stressor == << Run("error") >>
stressmem_execute_stressor ==
    << Call(stressmem_calculate_workers_for_memory),
       Call(stressmem_get_memory_option_for_stressor), Run("note") >>
stressmem_process_looping == << Call(stressmem_execute_stressor) >>
stressmem_calculate_variable_time == << Run("error") >>
stressmem_setUp ==
    << Clear("skip_teardown_dmesg_check"), Run("cancel"), Run("error"), Run("cancel"),
       Change("stress_ng", "error"), Run("error") >>
stressmem_test_memory ==
    << Run("cancel"), Call(stressmem_calculate_variable_time),
       Call(stressmem_process_looping), Call(stressmem_process_looping), Report("fail") >>
\* A stressor that fails is logged: only a timeout and the kernel log count.
stressmem_test_vm_class_sequential ==
    << Assign("skip_teardown_dmesg_check"), Run("drop"), Run("error"),
       Call(stressmem_read_line_with_matching_pattern),
       Call(stressmem_extract_call_traces), Run("fail"), Run("fail") >>
stressmem_tearDown ==
    << IfSet("skip_teardown_dmesg_check", << Return >>, << >>), Run("error"),
       Call(stressmem_read_line_with_matching_pattern), Run("fail") >>
StressmemJob ==
    [tests |-> << Test("test_memory", stressmem_setUp, stressmem_test_memory,
                       stressmem_tearDown),
                  Test("test_vm_class_sequential", stressmem_setUp,
                       stressmem_test_vm_class_sequential, stressmem_tearDown) >>,
     keeps |-> {"stress_ng"}, leaves |-> {"stress_ng"},
     unreported |-> {"test_vm_class_sequential"}]

(***************************************************************************)
(* memory/libhugetlbfs.py.  Resources: pages (reserved, for good), mount.  *)
(***************************************************************************)
hugetlb_setUp ==
    << Assign("no_rhel"), May(<< Raise("cancel") >>), Run("cancel"), Run("cancel"),
       Run("error"), Run("cancel"), Assign("configured_page_sizes"),
       Change("pages", "cancel"), Run("error"),
       May(<< Change("mount", "cancel"), Assign("mounted") >>),
       IfSet("mounted", << >>, << Raise("cancel") >>),
       Run("error"), Run("error"), Run("error"), Run("error"), Run("error") >>
hugetlb__log_parser == << Run("error") >>
hugetlb_test ==
    << Run("ignore"), Call(hugetlb__log_parser), Run("error"), Run("note"),
       Report("fail") >>
hugetlb_tearDown ==
    << Use("no_rhel"), Use("configured_page_sizes"),
       IfSet("mounted", << Restore("mount", "ignore") >>, << >>) >>
HugetlbJob ==
    [tests |-> << Test("test", hugetlb_setUp, hugetlb_test, hugetlb_tearDown) >>,
     keeps |-> {"mount", "pages"}, leaves |-> {"pages"}, unreported |-> {}]
================================================================================
