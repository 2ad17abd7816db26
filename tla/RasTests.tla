------------------------------- MODULE RasTests -------------------------------
(***************************************************************************)
(* Tests of the service tools: lsvpd (ras/ras_lsvpd.py), powerpc-utils     *)
(* (ras/ras_ppcutils.py) and sosreport (ras/sosreport.py).  Each puts the  *)
(* commands that fail on record (is_fail, fail_cmd) and fails at the end   *)
(* of the test if there are any.  None has a tearDown.                     *)
(***************************************************************************)
EXTENDS Statements

(***************************************************************************)
(* ras/ras_lsvpd.py.  Resources: lsvpd (the build that is installed),      *)
(* vpd_db (an empty database in place of the real one), run_vpdupdate (the *)
(* stamp file, moved away).                                                *)
(***************************************************************************)
lsvpd_run_cmd(s) == << s >>
lsvpd_run_cmd_out == << Run("ignore") >>
lsvpd_setUp == << Run("cancel"), Run("cancel") >>
lsvpd_test_build_upstream ==
    << Run("cancel"), Run("cancel"), Run("cancel"), Run("error"), Run("error"),
       Call(lsvpd_run_cmd(Run("note"))), Report("fail"), Run("error"),
       Change("lsvpd", "error") >>
lsvpd__find_vpd_db_and_execute ==
    << May(<< Run("error"), Call(lsvpd_run_cmd(Run("note"))) >>) >>
lsvpd__find_vpd_gzip_and_execute ==
    << May(<< Call(lsvpd_run_cmd(Run("note"))) >>), Report("fail") >>
\* The database is emptied and the tools must say so; a tool that does not
\* ends the test with the database still empty.
lsvpd_test_vpdupdate ==
    << Call(lsvpd_run_cmd(Run("note"))), Call(lsvpd__find_vpd_db_and_execute),
       Change("run_vpdupdate", "error"), Call(lsvpd_run_cmd(Run("note"))),
       Restore("run_vpdupdate", "error"), Change("vpd_db", "error"),
       Call(lsvpd_run_cmd_out), Run("fail"),
       Call(lsvpd_run_cmd(Restore("vpd_db", "note"))), Report("fail") >>
lsvpd_test_lsvpd ==
    << Call(lsvpd_run_cmd(Run("note"))), Call(lsvpd__find_vpd_db_and_execute),
       Call(lsvpd__find_vpd_gzip_and_execute) >>
lsvpd_test_lscfg ==
    << Call(lsvpd_run_cmd(Run("note"))), Call(lsvpd_run_cmd_out), Run("error"),
       Call(lsvpd__find_vpd_db_and_execute), Call(lsvpd__find_vpd_gzip_and_execute) >>
lsvpd_isAccelerator(yes) == << Run("error"), May(yes) >>
lsvpd_test_lsmcode ==
    << Call(lsvpd_run_cmd(Run("note"))), Call(lsvpd_run_cmd_out), Run("fail"),
       Call(lsvpd_run_cmd(Run("note"))),
       Call(lsvpd_isAccelerator(<< Call(lsvpd_run_cmd_out), Run("fail"), Run("fail") >>)),
       Call(lsvpd__find_vpd_db_and_execute), Call(lsvpd__find_vpd_gzip_and_execute) >>
lsvpd_test_lsvio == << Call(lsvpd_run_cmd(Run("note"))), Report("fail") >>
lsvpd_test_locking_mechanism == << Run("ignore"), Run("ignore"), Run("fail") >>
\* What cannot be read or parsed for one adapter is put on record, and the
\* other checks of that adapter are skipped.
lsvpd_test_pci_lsvpd ==
    << Run("fail"),
       May(<< Run("note"),
              Try(<< Run("error"), Run("error"), Run("note"), Run("note") >>, Errors,
                  << Note >>) >>),
       Report("fail") >>
lsvpd_test_pci_lscfg ==
    << May(<< Try(<< Run("error"), Run("error"), Run("error"), Run("note"),
                     Run("note") >>, Errors, << Note >>) >>),
       Report("fail") >>
lsvpd_parse_lscfg_output  == << Run("error") >>
lsvpd_extract_spyre_block == << Run("note") >>
lsvpd_parse_lsvpd_block   == << Run("note") >>
\* An adapter whose description cannot be read is skipped, and is not among
\* the ones that are validated; what vpdupdate returns is not looked at again.
lsvpd_test_spyre_lsvpd_validation ==
    << Call(lsvpd_run_cmd(Run("drop"))), Call(lsvpd_run_cmd_out),
       Try(<< Run("error"), Call(lsvpd_run_cmd_out), Call(lsvpd_parse_lscfg_output) >>,
           Any, << >>),
       Call(lsvpd_extract_spyre_block), Call(lsvpd_parse_lsvpd_block),
       Call(lsvpd_run_cmd_out), Call(lsvpd_parse_lscfg_output), Run("note"),
       Report("fail") >>

LsvpdTest(n, m) == Test(n, lsvpd_setUp, m, << >>)
LsvpdJob ==
    [tests |-> << LsvpdTest("test_build_upstream", lsvpd_test_build_upstream),
                  LsvpdTest("test_vpdupdate", lsvpd_test_vpdupdate),
                  LsvpdTest("test_lsvpd", lsvpd_test_lsvpd),
                  LsvpdTest("test_lscfg", lsvpd_test_lscfg),
                  LsvpdTest("test_lsmcode", lsvpd_test_lsmcode),
                  LsvpdTest("test_lsvio", lsvpd_test_lsvio),
                  LsvpdTest("test_locking_mechanism", lsvpd_test_locking_mechanism),
                  LsvpdTest("test_pci_lsvpd", lsvpd_test_pci_lsvpd),
                  LsvpdTest("test_pci_lscfg", lsvpd_test_pci_lscfg),
                  LsvpdTest("test_spyre_lsvpd_validation",
                            lsvpd_test_spyre_lsvpd_validation) >>,
     keeps |-> {"lsvpd"}, leaves |-> {"lsvpd", "vpd_db"},
     unreported |-> {"test_spyre_lsvpd_validation"}]

(***************************************************************************)
(* ras/ras_ppcutils.py.  Resources: ppcutils (the build that is            *)
(* installed), cpu (taken away with drmgr), poweron_time, bootlist,        *)
(* service_config, smt.                                                    *)
(***************************************************************************)
ppcutils_run_cmd(s) == << s >>
ppcutils_run_cmd_out == << Run("ignore") >>
ppcutils_error_check == << Report("fail") >>
ppcutils_setUp == << Run("cancel"), Run("error"), Run("cancel") >>
ppcutils_isAccelerator(yes) == << Run("error"), May(yes) >>

\* Tests that only ask: each of their commands is put on record if it fails.
PpcutilsAsks == << Call(ppcutils_run_cmd(Run("note"))), Call(ppcutils_error_check) >>

ppcutils_test_build_upstream ==
    << Run("cancel"), Run("cancel"), Run("cancel"), Run("error"), Run("error"),
       Call(ppcutils_run_cmd(Run("note"))), Call(ppcutils_error_check),
       Call(ppcutils_run_cmd(Run("note"))), Call(ppcutils_error_check),
       Run("error"), Change("ppcutils", "error") >>
ppcutils_test_set_poweron_time ==
    << Call(ppcutils_run_cmd(Change("poweron_time", "note"))), Call(ppcutils_error_check) >>
ppcutils_test_sys_ident_tool == PpcutilsAsks
ppcutils_test_drmgr ==
    << Call(ppcutils_run_cmd(Run("note"))), Call(ppcutils_run_cmd_out), Run("error"),
       May(<< Call(ppcutils_run_cmd(Change("cpu", "note"))),
              Call(ppcutils_run_cmd(Run("note"))),
              Call(ppcutils_run_cmd(Restore("cpu", "note"))),
              Call(ppcutils_run_cmd(Run("note"))) >>),
       Call(ppcutils_error_check) >>
ppcutils_test_lsprop == PpcutilsAsks
ppcutils_test_lsslot ==
    << Call(ppcutils_run_cmd(Run("note"))), Call(ppcutils_run_cmd_out),
       Call(ppcutils_isAccelerator(<< Call(ppcutils_run_cmd_out), Run("fail"),
                                      Run("fail") >>)),
       Call(ppcutils_run_cmd(Run("note"))), Call(ppcutils_run_cmd_out),
       May(<< Call(ppcutils_run_cmd(Run("note"))) >>), Call(ppcutils_error_check) >>
ppcutils_test_nvram == PpcutilsAsks
ppcutils_test_ofpathname ==
    << Call(ppcutils_run_cmd(Run("note"))), Call(ppcutils_run_cmd_out),
       Call(ppcutils_run_cmd(Run("note"))), Call(ppcutils_error_check) >>
ppcutils_test_rtas_ibm_get_vpd == PpcutilsAsks
ppcutils_test_rtas_errd_and_rtas_dump ==
    << Run("error"), Call(ppcutils_run_cmd(Run("note"))), Call(ppcutils_error_check) >>
ppcutils_test_rtas_event_decode == << Run("fail") >>
ppcutils_test_uesensor == PpcutilsAsks
\* The dialogue sets the reboot policy; what the tool returns is not used.
ppcutils_test_serv_config ==
    << Run("error"), Change("service_config", "fail"), Run("drop"),
       Call(ppcutils_error_check) >>
ppcutils_test_ls_vscsi == PpcutilsAsks
ppcutils_test_ls_veth  == PpcutilsAsks
\* It counts in a variable of its own: commands that fail are never reported.
ppcutils_test_ls_vdev ==
    << Call(ppcutils_run_cmd(Run("drop"))), Call(ppcutils_run_cmd_out), Run("cancel"),
       Run("fail"), Run("note"), Report("fail") >>
ppcutils_test_lsdevinfo ==
    << Call(ppcutils_run_cmd(Run("note"))), Run("error"),
       Call(ppcutils_run_cmd(Run("note"))), Call(ppcutils_error_check) >>
ppcutils_test_hvcsadmin == PpcutilsAsks
ppcutils_test_bootlist ==
    << Call(ppcutils_run_cmd(Run("note"))), Call(ppcutils_run_cmd_out), Run("cancel"),
       Run("ignore"), Call(ppcutils_run_cmd(Change("bootlist", "note"))),
       Call(ppcutils_error_check) >>
\* SMT ends off; whether it could be set is on record in a list that is not
\* looked at again.
ppcutils_test_lparstat ==
    << Call(ppcutils_run_cmd(Run("note"))), Call(ppcutils_error_check),
       Run("error"), Run("note"), Run("note"), Run("error"), Run("note"),
       Call(ppcutils_run_cmd(Change("smt", "drop"))), Call(ppcutils_run_cmd_out),
       Run("error"), Run("note"),
       Try(<< Run("error"), Run("note") >>, Any, << >>), Report("fail") >>
ppcutils_test_lparnumascore == PpcutilsAsks

PpcutilsTest(n, m) == Test(n, ppcutils_setUp, m, << >>)
PpcutilsJob ==
    [tests |-> << PpcutilsTest("test_build_upstream", ppcutils_test_build_upstream),
                  PpcutilsTest("test_set_poweron_time", ppcutils_test_set_poweron_time),
                  PpcutilsTest("test_sys_ident_tool", ppcutils_test_sys_ident_tool),
                  PpcutilsTest("test_drmgr", ppcutils_test_drmgr),
                  PpcutilsTest("test_lsprop", ppcutils_test_lsprop),
                  PpcutilsTest("test_lsslot", ppcutils_test_lsslot),
                  PpcutilsTest("test_nvram", ppcutils_test_nvram),
                  PpcutilsTest("test_ofpathname", ppcutils_test_ofpathname),
                  PpcutilsTest("test_rtas_ibm_get_vpd", ppcutils_test_rtas_ibm_get_vpd),
                  PpcutilsTest("test_rtas_errd_and_rtas_dump",
                               ppcutils_test_rtas_errd_and_rtas_dump) >>,
     keeps |-> {"poweron_time", "ppcutils"},
     leaves |-> {"poweron_time", "ppcutils"},
     unreported |-> {}]
PpcutilsMoreJob ==
    [tests |-> << PpcutilsTest("test_rtas_event_decode", ppcutils_test_rtas_event_decode),
                  PpcutilsTest("test_uesensor", ppcutils_test_uesensor),
                  PpcutilsTest("test_serv_config", ppcutils_test_serv_config),
                  PpcutilsTest("test_ls_vscsi", ppcutils_test_ls_vscsi),
                  PpcutilsTest("test_ls_veth", ppcutils_test_ls_veth),
                  PpcutilsTest("test_ls_vdev", ppcutils_test_ls_vdev),
                  PpcutilsTest("test_lsdevinfo", ppcutils_test_lsdevinfo),
                  PpcutilsTest("test_hvcsadmin", ppcutils_test_hvcsadmin),
                  PpcutilsTest("test_bootlist", ppcutils_test_bootlist),
                  PpcutilsTest("test_lparstat", ppcutils_test_lparstat),
                  PpcutilsTest("test_lparnumascore", ppcutils_test_lparnumascore) >>,
     keeps |-> {"bootlist", "service_config", "smt"},
     leaves |-> {"bootlist", "service_config", "smt"},
     unreported |-> {"test_serv_config", "test_ls_vdev", "test_lparstat"}]

(***************************************************************************)
(* ras/sosreport.py.  Resources: tmp (a directory made for the reports),   *)
(* smt, cpu (taken away with drmgr), mem, offline (a processor), loop,     *)
(* mount, reports (left in /var/tmp).  The attribute is_fail is set by     *)
(* the tests, not by setUp.                                                *)
(***************************************************************************)
\* self.is_fail += 1: an AttributeError in a test that did not set it.
sos_run_cmd(s) == << IfSet("is_fail", << s >>, << [s EXCEPT !.on = "error"] >>) >>
sos_run_cmd_out == << Run("ignore") >>
sos_run_cmd_search == << Call(sos_run_cmd_out) >>
sos_get_sos_plugin == << Call(sos_run_cmd_out) >>
sos_setUp == << Run("cancel"), Run("cancel") >>
SosEnd == << Restore("tmp", "error"), Report("fail") >>
SosStart == << Change("tmp", "error"), Assign("is_fail") >>
sos_test_short ==
    SosStart \o << Call(sos_run_cmd(Run("note"))), Change("reports", "ignore"),
                   Run("note"), Call(sos_run_cmd_out), Run("note") >> \o SosEnd
sos_test_user == SosStart \o << Call(sos_run_cmd(Run("note"))) >> \o SosEnd
sos_test_plugins ==
    SosStart \o << Call(sos_run_cmd_search), Run("note"), Call(sos_run_cmd(Run("note"))),
                   Call(sos_run_cmd_search), Run("note") >> \o SosEnd
\* A report that names no directory is None, and os.path.isdir(None) raises.
sos_test_others ==
    << Call(sos_get_sos_plugin) >> \o SosStart
      \o << Call(sos_run_cmd(Run("note"))), Call(sos_run_cmd_search), Run("error"),
            Run("note"), Call(sos_run_cmd(Run("note"))), Call(sos_run_cmd_search),
            Run("error"), Run("note"), Change("reports", "ignore"), Run("error"),
            Run("note"), May(<< Run("note") >>), Call(sos_run_cmd(Run("note"))) >> \o SosEnd
sos_test_archive ==
    SosStart \o << Call(sos_run_cmd_out), Run("note"),
                   May(<< Call(sos_run_cmd_out), Run("error"), Run("note"),
                          Run("error") >>) >> \o SosEnd
sos_test_PPC == SosStart \o << Call(sos_run_cmd(Run("note"))) >> \o SosEnd
\* SMT ends off, and the directory is not removed.
sos_test_smtchanges ==
    SosStart \o << Call(sos_run_cmd(Change("smt", "note"))), Call(sos_run_cmd_out),
                   Run("error"),
                   Choose(<< Call(sos_run_cmd(Run("note"))) >>, << Note >>),
                   Report("fail") >>
sos_test_dlpar_cpu_hotplug ==
    SosStart \o << Call(sos_run_cmd(Change("smt", "note"))),
                   May(<< Call(sos_run_cmd_search), Run("error"),
                          May(<< Choose(<< Call(sos_run_cmd(Change("cpu", "note"))),
                                           Call(sos_run_cmd(Restore("cpu", "note"))),
                                           Call(sos_run_cmd(Run("note"))) >>,
                                        << Note >>) >>) >>),
                   Report("fail") >>
sos_test_dlpar_mem_hotplug ==
    SosStart \o << May(<< Call(sos_run_cmd_search), Run("error"),
                          May(<< Choose(<< Call(sos_run_cmd(Change("mem", "note"))),
                                           Call(sos_run_cmd(Restore("mem", "note"))),
                                           Call(sos_run_cmd(Run("note"))) >>,
                                        << Note >>) >>) >>),
                   Report("fail") >>
sos_run_workload ==
    << Run("error"), Change("offline", "error"), Restore("offline", "error") >>
\* The workload and the report run in threads of their own: what they raise
\* ends the thread and is not seen by the runner.
sos_test ==
    << Try(<< Call(sos_run_workload) >>, Any, << Note >>),
       Try(<< Call(sos_test_user) >>, Any, << Note >>) >>
\* The count that is checked is a local variable no command adds to.
sos_test_fs ==
    << Run("error"), May(<< Run("error"), Change("loop", "error") >>), Run("error"),
       Change("mount", "error"), Call(sos_run_cmd(Run("note"))),
       Restore("mount", "error"), IfChanged("loop", << Restore("loop", "error") >>, << >>) >>
sos_isAccelerator == << Run("error") >>
sos_test_spyre_external_plugin ==
    << Call(sos_isAccelerator), Assign("is_fail"), Call(sos_run_cmd_out),
       Choose(<< Note >>, << Run("error"), Run("note"), Run("error"), Run("note"),
                             Run("error"), Run("note"), Run("error") >>),
       Run("error"), Report("fail") >>

SosTest(n, m) == Test(n, sos_setUp, m, << >>)
SosJob ==
    [tests |-> << SosTest("test_short", sos_test_short),
                  SosTest("test_user", sos_test_user),
                  SosTest("test_plugins", sos_test_plugins),
                  SosTest("test_others", sos_test_others),
                  SosTest("test_archive", sos_test_archive),
                  SosTest("test_PPC", sos_test_PPC),
                  SosTest("test", sos_test),
                  SosTest("test_spyre_external_plugin", sos_test_spyre_external_plugin) >>,
     keeps |-> {"offline", "reports", "tmp"},
     leaves |-> {"reports", "tmp"},
     unreported |-> {"test"}]
SosHostJob ==
    [tests |-> << SosTest("test_smtchanges", sos_test_smtchanges),
                  SosTest("test_dlpar_cpu_hotplug", sos_test_dlpar_cpu_hotplug),
                  SosTest("test_dlpar_mem_hotplug", sos_test_dlpar_mem_hotplug),
                  SosTest("test_fs", sos_test_fs) >>,
     keeps |-> {"smt", "tmp"},
     leaves |-> {"loop", "mount", "smt", "tmp"},
     unreported |-> {}]
================================================================================
