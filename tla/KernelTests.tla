------------------------------ MODULE KernelTests -----------------------------
(***************************************************************************)
(* Tests of kernel tracing and file systems: return values of the function *)
(* graph tracer (trace/function_graph_retval.py), tracepoints of the       *)
(* queued spin locks (kernel/qspinlock_tracepoint.py) and xfstests         *)
(* (fs/xfstests.py).                                                       *)
(***************************************************************************)
EXTENDS Statements

(***************************************************************************)
(* trace/function_graph_retval.py.  Resources: module_dir (made by setUp,  *)
(* never removed), module (the module under trace), tracing (switched off  *)
(* when all is over), tracer, retval (the option of the tracer, put to 0   *)
(* by the second half of the test).                                        *)
(***************************************************************************)
fgret__check_kernel_config == << Run("cancel") >>
fgret_setUp ==
    << Run("cancel"), Run("cancel"), Run("cancel"), Run("cancel"),
       Call(fgret__check_kernel_config), Change("module_dir", "error"),
       Clear("module_loaded") >>
fgret__run_cmd == << Run("error") >>
\* A file that cannot be written or read is put on record.
fgret__write_file(s) == << s >>
fgret__read_file     == << Run("note") >>
fgret__build_test_module == << Run("error"), Run("error"), Run("fail") >>
fgret__load_test_module == << Change("module", "fail"), Assign("module_loaded") >>
fgret__unload_test_module ==
    << IfSet("module_loaded", << Restore("module", "ignore"), Clear("module_loaded") >>,
             << >>) >>
fgret__setup_function_graph_tracer ==
    << Call(fgret__write_file(Change("tracing", "note"))),
       Call(fgret__write_file(Run("note"))),
       Call(fgret__write_file(Change("tracer", "note"))),
       Choose(<< Call(fgret__write_file(Change("retval", "note"))) >>, << Note, Return >>),
       Call(fgret__read_file), Choose(<< Assign("ready") >>, << Note >>) >>
fgret__capture_trace ==
    << Call(fgret__write_file(Run("note"))),
       Call(fgret__write_file(Restore("tracing", "note"))), Call(fgret__load_test_module),
       Call(fgret__write_file(Change("tracing", "note"))), Call(fgret__read_file),
       Run("note") >>
fgret__search_module_functions_in_trace == << Run("ignore") >>
fgret__verify_return_values ==
    << Choose(<< Note, Return >>, << >>), Run("error"),
       Call(fgret__search_module_functions_in_trace),
       Run("note"), Run("note"), Run("note") >>
fgret__test_basic_functionality ==
    << Call(fgret__build_test_module), Call(fgret__setup_function_graph_tracer),
       IfSet("ready", << >>, << Return >>), Call(fgret__capture_trace),
       Call(fgret__unload_test_module), Call(fgret__verify_return_values) >>
\* Return values that are shown although the option is off are a warning.
fgret__test_without_retval_option ==
    << May(<< Call(fgret__build_test_module) >>),
       Call(fgret__write_file(Change("tracing", "note"))),
       May(<< Call(fgret__write_file(Change("retval", "note"))) >>),
       Call(fgret__write_file(Run("note"))),
       Call(fgret__write_file(Restore("tracing", "note"))), Call(fgret__load_test_module),
       Call(fgret__write_file(Change("tracing", "note"))),
       Call(fgret__unload_test_module), Call(fgret__read_file),
       Call(fgret__search_module_functions_in_trace), Run("drop") >>
fgret__cleanup_tracer ==
    << Call(fgret__unload_test_module), Call(fgret__write_file(Change("tracing", "note"))),
       Call(fgret__write_file(Restore("tracer", "note"))),
       Call(fgret__write_file(Run("note"))) >>
fgret_testInOrder ==
    << Call(fgret__test_basic_functionality), Call(fgret__test_without_retval_option),
       Call(fgret__cleanup_tracer), Report("fail") >>
fgret_test ==
    << TryFinally(<< Call(fgret__test_basic_functionality),
                     Call(fgret__test_without_retval_option) >>,
                  << Call(fgret__cleanup_tracer) >>),
       Report("fail") >>
FgretJob ==
    [tests |-> << Test("test", fgret_setUp, fgret_test, << >>) >>,
     keeps |-> {"module", "module_dir", "retval", "tracing"},
     leaves |-> {"module_dir", "retval", "tracing"},
     unreported |-> {"test"}]

(***************************************************************************)
(* kernel/qspinlock_tracepoint.py.  Resources: lockstorm (the module),     *)
(* perf (the recording process), tracepoint (enabled), perf_data.  The     *)
(* attribute module_loaded says whether there is a module to unload.       *)
(***************************************************************************)
qspin_setUp ==
    << Run("cancel"), Run("cancel"), Run("error"), Run("error"), Run("cancel"),
       Clear("module_loaded"), Run("error") >>
qspin__check_tracepoint_exists == << Run("note") >>
qspin__check_qspinlock_enabled == << Run("ignore") >>
qspin__unload_lockstorm_module ==
    << IfSet("module_loaded", << Restore("lockstorm", "ignore"), Clear("module_loaded") >>,
             << >>) >>
\* A module that announces itself in the log counts as one that has unloaded
\* itself, loaded or not.  The cancel for a refused key is caught below, with
\* every other exception, and becomes a failure to load.
qspin__load_lockstorm_module ==
    << Clear("started"),
       IfSet("module_loaded", << Call(qspin__unload_lockstorm_module) >>, << >>),
       Try(<< Change("lockstorm", "ignore"), Run("ignore"),
              May(<< Clear("module_loaded"), Assign("started"), Return >>),
              IfChanged("lockstorm", << Assign("module_loaded"), Assign("started") >>,
                        << May(<< Raise("cancel") >>),
                           May(<< Clear("module_loaded"), Assign("started") >>) >>) >>,
           Any, << >>) >>
qspin__capture_lockstorm_output == << Run("ignore") >>
qspin__test_tracepoint_availability ==
    << Call(qspin__check_tracepoint_exists), Call(qspin__check_tracepoint_exists),
       Call(qspin__check_qspinlock_enabled) >>
qspin__test_tracepoint_enable ==
    << Choose(<< >>, << Note, Return >>),
       Try(<< May(<< Change("tracepoint", "error"), Run("error"), Run("note"),
                     Restore("tracepoint", "error") >>) >>, Any, << Note >>) >>
\* The try of the method, and its finally: the recording process and the
\* module are taken down whatever ended the try.
QspinCapture ==
    << Try(<< Run("error"), Change("perf", "error"), Call(qspin__load_lockstorm_module),
              IfSet("started", << >>, << Note, Restore("perf", "error"), Return >>),
              Run("error"), Restore("perf", "ignore"), Change("perf_data", "ignore"),
              Call(qspin__capture_lockstorm_output), Call(qspin__unload_lockstorm_module),
              May(<< Note, Return >>), Run("ignore"), Run("note"), Run("note"),
              Run("ignore") >>,
           Any, << Note >>) >>
qspin__run_tracepoint_capture_testPlain == << Call(QspinCapture) >>
qspin__run_tracepoint_capture_test ==
    << TryFinally(<< Call(QspinCapture) >>,
                  << IfChanged("perf", << Restore("perf", "error") >>, << >>),
                     Call(qspin__unload_lockstorm_module),
                     IfChanged("perf_data", << Restore("perf_data", "error") >>, << >>) >>) >>
qspin__test_functional_tracepoint_capture == << Call(qspin__run_tracepoint_capture_test) >>
qspin__test_stress_tracepoint_capture     == << Call(qspin__run_tracepoint_capture_test) >>
qspin__test_lockfunc_annotation == << Run("ignore") >>
qspin_test ==
    << Call(qspin__test_tracepoint_availability), Call(qspin__test_tracepoint_enable),
       Choose(<< Call(qspin__test_lockfunc_annotation),
                 Call(qspin__test_functional_tracepoint_capture) >>,
              << Call(qspin__test_stress_tracepoint_capture) >>),
       Run("error"), Report("fail") >>
qspin_tearDown ==
    << IfSet("module_loaded", << Call(qspin__unload_lockstorm_module) >>, << >>),
       IfChanged("perf_data", << Restore("perf_data", "ignore") >>, << >>) >>
QspinJob ==
    [tests |-> << Test("test", qspin_setUp, qspin_test, qspin_tearDown) >>,
     keeps |-> {"lockstorm"},
     leaves |-> {"lockstorm", "tracepoint"},
     unreported |-> {}]

(***************************************************************************)
(* fs/xfstests.py.  Resources: dirs (the mount points), io_uring (a knob), *)
(* tools (built and installed), disk_mount (the disk the images are on),   *)
(* loop (devices on the images), old_namespaces (found on the region, and  *)
(* destroyed), namespaces, logs, users, sys_group.  The attributes of the  *)
(* nvdimm set-up say what tearDown has to destroy.                         *)
(***************************************************************************)
xfs_get_size_alignval    == << Run("error") >>
xfs_get_half_region_size == << Call(xfs_get_size_alignval), Run("error") >>
xfs___setUp_packages == << Run("cancel"), Run("cancel") >>
xfs__create_loop_device(mount) ==
    << Choose(mount, << >>), Run("error"), Change("loop", "error") >>
xfs_setup_nvdimm ==
    << Run("error"), Run("cancel"), Assign("region"),
       Choose(<< Run("cancel"),
                 Assign("legacy"),
                 May(<< Run("cancel"), Call(xfs__create_loop_device(<< >>)) >>),
                 Run("error") >>,
              << May(<< Call(xfs_get_half_region_size), Assign("region_ldev"),
                        Run("error"), Change("logs", "error"), Run("error") >>),
                 Change("old_namespaces", "error"), Call(xfs_get_half_region_size),
                 Change("namespaces", "error"), Run("error") >>) >>
xfs__git_build == << Run("error"), Change("tools", "error") >>
xfs_setUp ==
    << Run("error"), Assign("devices"), Change("dirs", "error"), Run("error"),
       Call(xfs___setUp_packages), Change("io_uring", "ignore"),
       May(<< May(<< Run("error"), Change("tools", "error") >>), Run("fail"),
              Call(xfs__git_build) >>),
       Run("cancel"),
       Choose(<< Assign("loop_type"), Run("cancel"),
                 Call(xfs__create_loop_device(<< Change("disk_mount", "error") >>)) >>,
              << May(<< Assign("nvdimm_type"), Call(xfs_setup_nvdimm) >>) >>),
       Run("error"), Run("error"), Run("error"),
       May(<< Change("sys_group", "error") >>), Change("users", "ignore") >>
xfs__parse_error_message == << Run("error") >>
xfs_test ==
    << Run("error"),
       May(<< Choose(<< >>, << Call(xfs__parse_error_message), Raise("fail") >>) >>) >>
\* The group sys is deleted whoever made it.  A disk whose images are in use
\* cannot be unmounted yet, and then its mount point cannot be removed: the
\* rest, the loop devices included, is not reached.
xfs_tearDown ==
    << Run("error"), Restore("users", "ignore"),
       IfChanged("sys_group", << Restore("sys_group", "error") >>,
                 << May(<< Change("sys_group", "error") >>) >>),
       Use("devices"), IfChanged("loop", << >>, << Restore("disk_mount", "ignore") >>),
       IfChanged("disk_mount", << Raise("error") >>, << Restore("dirs", "error") >>),
       IfSet("loop_type", << Restore("loop", "ignore") >>, << >>),
       IfSet("nvdimm_type",
             << IfSet("legacy", << Change("old_namespaces", "error") >>,
                      << IfSet("region", << Restore("namespaces", "error") >>, << >>) >>),
                IfSet("region_ldev", << Restore("logs", "error") >>, << >>),
                IfChanged("loop", << Restore("loop", "ignore") >>, << >>) >>, << >>) >>
XfsJob ==
    [tests |-> << Test("test", xfs_setUp, xfs_test, xfs_tearDown) >>,
     keeps |-> {"io_uring", "loop", "old_namespaces", "sys_group", "tools",
               "users"},
     leaves |-> {"dirs", "disk_mount", "io_uring", "logs", "loop", "namespaces",
               "old_namespaces", "sys_group", "tools", "users"},
     unreported |-> {}]
================================================================================
