------------------------------ MODULE NdctlTests ------------------------------
(***************************************************************************)
(* memory/ndctl.py: regions and namespaces of persistent memory.           *)
(* Resources: found, the namespaces the job found; ns, a namespace of a    *)
(* test; region, a region that is disabled; labels; mount; system_ram, a   *)
(* device that is memory; smart, injected health errors; debug, dynamic    *)
(* debugging; ndctl, which was installed.                                  *)
(* The library avocado.utils.pmem raises PMemException, which the          *)
(* decorator of a test turns into a failure and which is an error where    *)
(* there is no decorator.                                                  *)
(***************************************************************************)
EXTENDS Statements

NdctlEnable(w)  == IfChanged("region", << Restore("region", w) >>, << Run(w) >>)
NdctlDestroy(w) == << Change("found", w), IfChanged("ns", << Restore("ns", w) >>, << >>) >>
NdctlFresh(w)   == << Run(w) >> \o NdctlDestroy(w)
NdctlCreate     == << Change("ns", "fail") >>

ndctl_get_default_region(w) == << NdctlEnable(w), May(<< Run(w), Run("error") >>) >>
ndctl_check_namespace_align(w) ==
    << Run("error"), Run(w), Run("fail"), Run("fail") >>
ndctl_get_size_alignval == << Run("error"), Run("cancel") >>
ndctl_build_fio == << May(<< Run("cancel"), Run("error"), Run("error") >>) >>
ndctl_autotools_build_system == << Run("error"), Run("error"), Run("error"), Run("error") >>
ndctl_meson_build_system == << Run("cancel"), Run("error"), Change("ndctl", "error") >>
ndctl_get_shutdown_state == << Run("error") >>

ndctl_setUp ==
    << Run("cancel"),
       Choose(<< Run("cancel"), Run("cancel"), Run("error"),
                 Choose(<< Call(ndctl_autotools_build_system) >>,
                        << Call(ndctl_meson_build_system) >>) >>,
              << May(<< Run("cancel") >>) >>),
       Clear("part"), Clear("disk"), Assign("plib"), Run("cancel") >>

\* A file system that cannot be wiped ends tearDown; otherwise every
\* namespace goes and the regions stay disabled, unless the set-up is to be
\* preserved.
ndctl_tearDown ==
    << IfSet("part", << IfChanged("mount", << Restore("mount", "error") >>, << >>) >>,
             << >>),
       IfSet("disk", << Run("fail") >>, << >>),
       IfSet("plib", << May(<< Run("fail"), May(NdctlDestroy("fail")),
                               Change("region", "fail") >>) >>, << >>) >>

ndctl_test_bus_ids == << Run("fail"), Run("fail") >>
ndctl_test_dimms == << Run("fail"), Run("fail") >>
\* A state that is not ok, or not clean, is a warning.
ndctl_test_dimm_health ==
    << Run("fail"), Run("fail"), Run("error"), Run("cancel"), Run("fail"), Run("drop"),
       Run("drop") >>
ndctl_test_regions ==
    << Change("region", "fail"), Run("fail"), NdctlEnable("fail"), Run("fail"),
       Run("fail") >>
ndctl_test_namespace ==
    << NdctlEnable("fail"), Run("fail") >> \o NdctlFresh("fail") \o NdctlCreate
    \o << Call(ndctl_check_namespace_align("fail")), Run("fail") >>
\* The creation must fail.
ndctl_test_namespace_unaligned ==
    << NdctlEnable("fail"), Run("fail") >> \o NdctlFresh("fail")
    \o << May(<< Change("ns", "ignore"), Raise("fail") >>) >>
ndctl_test_disable_enable_ns ==
    << Call(ndctl_get_default_region("fail")),
       May(<< Run("fail"), Run("cancel") >> \o NdctlCreate), Run("fail"), Run("fail"),
       Run("fail") >>
ndctl_test_namespace_modes ==
    << Call(ndctl_get_default_region("fail")) >> \o NdctlFresh("fail") \o NdctlCreate
    \o << Run("fail"), Run("note") >> \o NdctlFresh("fail") \o << Report("fail") >>
ndctl_test_namespace_devmap ==
    << Call(ndctl_get_default_region("fail")) >> \o NdctlFresh("fail") \o NdctlCreate
    \o << Run("fail"), Run("fail") >>

ndctl_multiple_namespaces_region ==
    << Call(ndctl_get_size_alignval), Run("fail") >> \o NdctlFresh("fail")
    \o << Run("cancel"), Run("fail"), May(<< Return >>) >> \o NdctlCreate
ndctl_test_multiple_namespaces_region ==
    << Call(ndctl_get_default_region("fail")), Run("cancel"),
       Call(ndctl_multiple_namespaces_region), Call(ndctl_check_namespace_align("fail")) >>
ndctl_test_multiple_ns_multiple_region ==
    << NdctlEnable("fail"), Run("cancel"), Run("fail") >> \o NdctlFresh("fail")
    \o << Run("cancel"), Call(ndctl_multiple_namespaces_region),
          Call(ndctl_check_namespace_align("fail")) >>
ndctl_test_multiple_ns_modes_region ==
    << Call(ndctl_get_default_region("fail")), Run("cancel") >> \o NdctlFresh("fail")
    \o << Run("fail"), Run("cancel") >> \o NdctlCreate
ndctl_test_nslot_namespace ==
    << Call(ndctl_get_default_region("fail")), Run("cancel"),
       Call(ndctl_get_size_alignval), Run("fail") >> \o NdctlFresh("fail")
    \o << Run("fail") >> \o NdctlCreate \o << Call(ndctl_check_namespace_align("fail")) >>
ndctl_test_namespace_reconfigure ==
    << Call(ndctl_get_default_region("fail")) >> \o NdctlFresh("fail") \o NdctlCreate
    \o << Run("fail") >> \o NdctlCreate \o << Run("fail"), Run("note"), Report("fail") >>
ndctl_test_check_namespace ==
    << Call(ndctl_get_default_region("fail")) >> \o NdctlFresh("fail") \o NdctlCreate
    \o << Run("fail"), Run("fail"), Run("fail") >>
ndctl_test_check_numa ==
    << NdctlEnable("fail"), Run("fail"), Run("fail"), Run("error"), Run("fail") >>
ndctl_test_check_ns_numa ==
    << NdctlEnable("fail"), Run("fail"),
       May(NdctlFresh("fail") \o << Run("fail") >> \o NdctlCreate), Run("fail"),
       Run("fail"), Run("error"), Run("fail") >>

\* A failure between disable_region and enable_region leaves it disabled.
ndctl_test_label_read_write ==
    << Call(ndctl_get_default_region("fail")), Run("cancel"), Change("region", "fail"),
       Change("labels", "error"), Restore("region", "fail") >> \o NdctlCreate
    \o << Run("error"), Run("error") >> \o NdctlFresh("fail")
    \o << Change("region", "fail"), Change("labels", "error"), Change("ns", "error"),
          Restore("region", "fail"), Run("error"), Run("fail"), Run("fail") >>
ndctl_test_daxctl_list ==
    << Call(ndctl_get_default_region("fail")) >> \o NdctlFresh("fail") \o NdctlCreate
    \o << Run("fail"), Run("fail") >>
ndctl_test_region_capabilities ==
    << NdctlEnable("fail") >> \o NdctlFresh("fail") \o << Run("fail") >>
    \o NdctlCreate \o NdctlDestroy("fail") \o NdctlCreate \o NdctlDestroy("fail")
    \o NdctlCreate \o NdctlDestroy("fail")

\* Memory that did not grow is a warning.
ndctl_test_daxctl_memhotplug_unplug ==
    << Run("cancel"), Call(ndctl_get_default_region("fail")) >> \o NdctlFresh("fail")
    \o NdctlCreate
    \o << Run("fail"), Change("system_ram", "fail"), Run("drop"), Run("fail"),
          Run("fail"), Run("fail"), Run("fail"), Run("fail"),
          Restore("system_ram", "fail") >>

ndctl_write_read_infoblock == << Run("fail"), Run("fail"), Run("fail") >>
NdctlInfoblock ==
    << Run("cancel"), Call(ndctl_get_default_region("fail")) >> \o NdctlFresh("fail")
    \o NdctlCreate \o << Run("fail"), Run("fail") >>
NdctlEnableMustFail == << Run("ignore"), May(<< Raise("fail") >>) >>
ndctl_test_write_infoblock_supported_align ==
    NdctlInfoblock \o << Run("error"), Call(ndctl_write_read_infoblock), Run("fail") >>
ndctl_test_write_infoblock_unalign ==
    NdctlInfoblock \o << Run("error"), Call(ndctl_write_read_infoblock) >>
    \o NdctlEnableMustFail \o << Run("fail"), Run("fail"), Run("fail") >>
    \o NdctlDestroy("fail")
ndctl_test_write_infoblock_align_default ==
    NdctlInfoblock \o << Call(ndctl_write_read_infoblock), Run("fail") >>
ndctl_test_write_infoblock_size ==
    NdctlInfoblock \o << Call(ndctl_get_size_alignval), Call(ndctl_write_read_infoblock),
                         Run("fail") >>
ndctl_test_write_infoblock_size_unaligned ==
    NdctlInfoblock \o << Call(ndctl_write_read_infoblock) >> \o NdctlEnableMustFail

\* disk and part are set before the file system is made and mounted.
NdctlMounted ==
    << Run("fail"), Assign("disk"), Assign("part"), Run("error"), Change("mount", "error") >>
ndctl_test_sector_write ==
    << Call(ndctl_get_default_region("fail")) >> \o NdctlFresh("fail") \o NdctlCreate
    \o NdctlMounted \o << Call(ndctl_build_fio), Run("fail") >>
ndctl_test_fsdax_write ==
    << Call(ndctl_get_default_region("fail")) >> \o NdctlCreate \o NdctlMounted
    \o << Call(ndctl_build_fio), Run("fail") >>
ndctl_test_map_sync ==
    << Call(ndctl_get_default_region("fail")) >> \o NdctlCreate \o NdctlMounted
    \o << Run("error"), Run("error"), Run("error"), Run("fail") >>
ndctl_test_devdax_write ==
    << Call(ndctl_get_default_region("fail")) >> \o NdctlCreate \o << Run("fail"), Run("fail") >>

ndctl_test_namespace_1gb_alignment ==
    << Call(ndctl_get_default_region("fail")) >> \o NdctlFresh("fail") \o NdctlCreate
    \o << Call(ndctl_check_namespace_align("fail")), Run("fail"), Run("fail"), Run("fail") >>
    \o NdctlFresh("fail")
\* These two have no decorator.
ndctl_test_namespace_1gb_alignment_enable_disable ==
    << Call(ndctl_get_default_region("error")) >> \o NdctlFresh("error") \o NdctlCreate
    \o << Run("fail"), Run("fail"), Run("fail"), Call(ndctl_check_namespace_align("fail")) >>
ndctl_test_modes_1gb_alignment_namespaces ==
    << Call(ndctl_get_default_region("error")) >> \o NdctlFresh("error") \o NdctlCreate
    \o << Run("fail") >> \o NdctlDestroy("error")
ndctl_test_daxctl_1gb_alignment_memhotplug_unplug ==
    << Call(ndctl_test_daxctl_memhotplug_unplug) >>
ndctl_test_fsdax_write_1gb_alignment == << Call(ndctl_test_fsdax_write) >>
ndctl_test_devdax_write_1gb_alignment == << Call(ndctl_test_devdax_write) >>
ndctl_test_label_read_write_1gb_alignment == << Call(ndctl_test_label_read_write) >>
ndctl_test_write_infoblock_1gb_alignment ==
    << Call(ndctl_test_write_infoblock_supported_align),
       Call(ndctl_test_write_infoblock_unalign), Call(ndctl_test_write_infoblock_size),
       Call(ndctl_test_write_infoblock_size_unaligned) >>
ndctl_test_devmap_Optimisation ==
    << Call(ndctl_get_default_region("fail")) >> \o NdctlFresh("fail")
    \o << Change("debug", "error"), Run("error") >> \o NdctlCreate
    \o << Run("error"), Run("fail") >>

\* Whether the state is clean again is looked at, and logged.
ndctl_test_inject_SMART_errors ==
    << Call(ndctl_get_default_region("fail")), Call(ndctl_get_shutdown_state),
       Run("error"), Change("smart", "error"), Call(ndctl_get_shutdown_state),
       Run("fail"), Run("error"), Restore("smart", "error"),
       Call(ndctl_get_shutdown_state), Run("drop") >>

NdctlTest(n, m) == Test(n, ndctl_setUp, m, ndctl_tearDown)
NdctlJob(tests, keeps, leaves, unreported) ==
    [tests |-> tests, keeps |-> {"found", "ndctl", "region"} \cup keeps,
     leaves |-> {"found", "ndctl", "ns", "region"} \cup leaves,
     unreported |-> unreported]
NdctlLists == <<
    NdctlTest("test_bus_ids", ndctl_test_bus_ids),
    NdctlTest("test_dimms", ndctl_test_dimms),
    NdctlTest("test_dimm_health", ndctl_test_dimm_health),
    NdctlTest("test_regions", ndctl_test_regions),
    NdctlTest("test_check_numa", ndctl_test_check_numa),
    NdctlTest("test_check_ns_numa", ndctl_test_check_ns_numa),
    NdctlTest("test_region_capabilities", ndctl_test_region_capabilities),
    NdctlTest("test_inject_SMART_errors", ndctl_test_inject_SMART_errors) >>
NdctlNamespaces == <<
    NdctlTest("test_namespace", ndctl_test_namespace),
    NdctlTest("test_namespace_unaligned", ndctl_test_namespace_unaligned),
    NdctlTest("test_disable_enable_ns", ndctl_test_disable_enable_ns),
    NdctlTest("test_namespace_modes", ndctl_test_namespace_modes),
    NdctlTest("test_namespace_devmap", ndctl_test_namespace_devmap),
    NdctlTest("test_namespace_reconfigure", ndctl_test_namespace_reconfigure),
    NdctlTest("test_check_namespace", ndctl_test_check_namespace),
    NdctlTest("test_daxctl_list", ndctl_test_daxctl_list) >>
NdctlMany == <<
    NdctlTest("test_multiple_namespaces_region", ndctl_test_multiple_namespaces_region),
    NdctlTest("test_multiple_ns_multiple_region", ndctl_test_multiple_ns_multiple_region),
    NdctlTest("test_multiple_ns_modes_region", ndctl_test_multiple_ns_modes_region),
    NdctlTest("test_nslot_namespace", ndctl_test_nslot_namespace),
    NdctlTest("test_label_read_write", ndctl_test_label_read_write),
    NdctlTest("test_daxctl_memhotplug_unplug", ndctl_test_daxctl_memhotplug_unplug) >>
NdctlBlocks == <<
    NdctlTest("test_write_infoblock_supported_align",
              ndctl_test_write_infoblock_supported_align),
    NdctlTest("test_write_infoblock_unalign", ndctl_test_write_infoblock_unalign),
    NdctlTest("test_write_infoblock_align_default",
              ndctl_test_write_infoblock_align_default),
    NdctlTest("test_write_infoblock_size", ndctl_test_write_infoblock_size),
    NdctlTest("test_write_infoblock_size_unaligned",
              ndctl_test_write_infoblock_size_unaligned),
    NdctlTest("test_write_infoblock_1gb_alignment",
              ndctl_test_write_infoblock_1gb_alignment) >>
NdctlWrites == <<
    NdctlTest("test_sector_write", ndctl_test_sector_write),
    NdctlTest("test_fsdax_write", ndctl_test_fsdax_write),
    NdctlTest("test_map_sync", ndctl_test_map_sync),
    NdctlTest("test_devdax_write", ndctl_test_devdax_write),
    NdctlTest("test_fsdax_write_1gb_alignment", ndctl_test_fsdax_write_1gb_alignment),
    NdctlTest("test_devdax_write_1gb_alignment", ndctl_test_devdax_write_1gb_alignment) >>
NdctlAligned == <<
    NdctlTest("test_namespace_1gb_alignment", ndctl_test_namespace_1gb_alignment),
    NdctlTest("test_namespace_1gb_alignment_enable_disable",
              ndctl_test_namespace_1gb_alignment_enable_disable),
    NdctlTest("test_modes_1gb_alignment_namespaces",
              ndctl_test_modes_1gb_alignment_namespaces),
    NdctlTest("test_daxctl_1gb_alignment_memhotplug_unplug",
              ndctl_test_daxctl_1gb_alignment_memhotplug_unplug),
    NdctlTest("test_label_read_write_1gb_alignment",
              ndctl_test_label_read_write_1gb_alignment),
    NdctlTest("test_devmap_Optimisation", ndctl_test_devmap_Optimisation) >>
NdctlListsJob ==
    NdctlJob(NdctlLists, {}, {"smart"}, {"test_dimm_health", "test_inject_SMART_errors"})
NdctlNamespacesJob == NdctlJob(NdctlNamespaces, {"ns"}, {}, {})
NdctlManyJob ==
    NdctlJob(NdctlMany, {"ns", "labels"}, {"labels", "system_ram"},
             {"test_daxctl_memhotplug_unplug"})
NdctlBlocksJob == NdctlJob(NdctlBlocks, {"ns"}, {}, {})
NdctlWritesJob == NdctlJob(NdctlWrites, {"ns"}, {}, {})
NdctlAlignedJob ==
    NdctlJob(NdctlAligned, {"ns", "labels", "debug"}, {"labels", "debug", "system_ram"},
             {"test_daxctl_1gb_alignment_memhotplug_unplug"})
================================================================================
