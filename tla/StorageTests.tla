----------------------------- MODULE StorageTests -----------------------------
(***************************************************************************)
(* Tests of storage: NVMe over TCP (io/disk/nvmetcp/nvme_tcp_initiator.py),*)
(* NVMe namespaces (io/disk/ssd/nvmetest.py), software RAID                *)
(* (io/disk/softwareraid.py), virtual fibre channel                        *)
(* (io/disk/vfc-tests/virtual_fc.py), multipath (io/disk/multipath_test.py)*)
(* and the ports of a fibre channel switch (io/disk/port_bounce.py).       *)
(***************************************************************************)
EXTENDS Statements

(***************************************************************************)
(* io/disk/nvmetcp/nvme_tcp_initiator.py.  Resources: module, autoload, ip,*)
(* controllers, multipath, discovery_conf, nvme_connect, nvmf_autoconnect. *)
(***************************************************************************)
nvmetcp__install_required_packages == << Run("ignore"), Run("cancel") >>
nvmetcp__load_nvme_modules == << Change("module", "cancel") >>
nvmetcp_configure_module_autoload == << Change("autoload", "ignore") >>

nvmetcp_validate_prerequisites ==
    << Call(nvmetcp__install_required_packages), Call(nvmetcp__load_nvme_modules),
       Call(nvmetcp_configure_module_autoload) >>

nvmetcp_setUp == << Run("cancel"), Run("cancel"), Call(nvmetcp_validate_prerequisites) >>

nvmetcp__configure_ip_on_interface == << Change("ip", "ignore"), Run("ignore") >>
nvmetcp__validate_ip_on_interface(there, missing) ==
    << IfChanged("ip", there, << Choose(there, missing) >>) >>
nvmetcp__verify_interface_status == << Run("fail"), Run("fail") >>

nvmetcp_validate_network_configuration ==
    nvmetcp__validate_ip_on_interface(<< >>,
        << Run("fail"), Call(nvmetcp__configure_ip_on_interface) >>)
    \o << Call(nvmetcp__verify_interface_status) >>

\* Only the port decides; that no ping came back is a warning.
nvmetcp__ping_target == << Run("ignore") >>
nvmetcp__test_port_connectivity(w) == << Run(w) >>
nvmetcp_validate_connectivity ==
    << Call(nvmetcp__ping_target), Call(nvmetcp__test_port_connectivity("note")),
       Report("fail") >>

\* A target that does not list the subsystem is a warning.
nvmetcp__discover_single_target == << Run("fail"), Run("ignore") >>
nvmetcp_discover_targets == << Call(nvmetcp__discover_single_target) >>

\* A list that cannot be read counts as no controllers.
nvmetcp_get_connected_controllers(some, none) ==
    << IfChanged("controllers", << Choose(some, none) >>, none) >>

nvmetcp__connect_to_single_target == << Change("controllers", "fail") >>

\* Controllers of an earlier connection are taken for this one's.
nvmetcp_connect_to_subsystem ==
    nvmetcp_get_connected_controllers(<< Return >>, << >>)
    \o << Call(nvmetcp__connect_to_single_target) >>
    \o nvmetcp_get_connected_controllers(<< >>, << Raise("fail") >>)

nvmetcp_validate_multipath_paths ==
    << IfSet("multipath_enabled", << Run("return"), Run("fail"), Run("fail") >>, << >>) >>

nvmetcp_configure_multipath ==
    << May(<< Return >>),
       Try(<< Change("multipath", "error"), Assign("multipath_enabled") >>, Errors, << >>),
       Call(nvmetcp_validate_multipath_paths) >>

\* The first of the two services that can be enabled.
nvmetcp_configure_persistence ==
    << Run("error"), Change("discovery_conf", "ignore"),
       Try(<< Change("nvme_connect", "error"), Return >>, Errors, << >>),
       Change("nvmf_autoconnect", "ignore") >>

nvmetcp_validate_controllers == << Run("return"), Run("fail"), Run("fail") >>
nvmetcp_validate_namespaces == << Run("fail"), Run("fail") >>
nvmetcp_validate_configuration ==
    << Call(nvmetcp_validate_controllers), Call(nvmetcp_validate_namespaces),
       Call(nvmetcp_validate_multipath_paths) >>

\* The text says SUCCESS and that the service is enabled, whatever happened.
nvmetcp_generate_status_report == << >>

\* Without a controller nothing is taken back; nvmf-autoconnect never is.
nvmetcp_deconfigure_nvme_tcp ==
    nvmetcp_get_connected_controllers(<< >>, << Return >>)
    \o << Restore("controllers", "ignore"), Restore("discovery_conf", "ignore"),
          Restore("nvme_connect", "ignore"), Run("ignore") >>

nvmetcp_test_00_cleanup_existing_configuration ==
    << Try(<< Call(nvmetcp_deconfigure_nvme_tcp) >>, Any, << >>) >>

nvmetcp_test_initiator_configuration ==
    << Call(nvmetcp_validate_network_configuration), Call(nvmetcp_validate_connectivity),
       Call(nvmetcp_discover_targets), Call(nvmetcp_connect_to_subsystem),
       Call(nvmetcp_configure_multipath), Call(nvmetcp_configure_persistence),
       Call(nvmetcp_validate_configuration), Call(nvmetcp_generate_status_report) >>

nvmetcp_tearDown == << >>

\* The clean-up is a test, the first of the file: a job, and the start of
\* the next one on the same host.
NvmetcpCleanup == Test("test_00_cleanup_existing_configuration", nvmetcp_setUp,
                       nvmetcp_test_00_cleanup_existing_configuration, nvmetcp_tearDown)
NvmetcpLeft == {"autoload", "controllers", "discovery_conf", "ip", "module", "multipath",
                "nvme_connect", "nvmf_autoconnect"}
NvmetcpJob ==
    [tests |-> << NvmetcpCleanup,
                  Test("test_initiator_configuration", nvmetcp_setUp,
                       nvmetcp_test_initiator_configuration, nvmetcp_tearDown),
                  NvmetcpCleanup >>,
     keeps |-> NvmetcpLeft, leaves |-> NvmetcpLeft, unreported |-> {}]

(***************************************************************************)
(* io/disk/ssd/nvmetest.py.  Nothing is put back: the file has no tearDown *)
(* and the namespaces of the drive are the ones its tests need.            *)
(* Resources: namespaces, firmware, data.                                  *)
(***************************************************************************)
nvme_run_cmd_return_output_list == << Run("ignore") >>
nvme_ns_list == << Call(nvme_run_cmd_return_output_list) >>
nvme_get_id_ctrl_prop == << >>
nvme_get_firmware_version == << Call(nvme_get_id_ctrl_prop) >>
nvme_get_firmware_log == << Run("ignore") >>
nvme_get_firmware_slots == << >>
nvme_firmware_slot_write_supported(yes) == << May(yes) >>
nvme_reset_controller_sysfs == << Run("fail") >>
nvme_get_max_ns_count == << Call(nvme_get_id_ctrl_prop) >>
nvme_get_total_capacity == << Call(nvme_get_id_ctrl_prop) >>
nvme_list_ns == << Run("ignore"), Run("ignore") >>
nvme_get_ns_controller == << Run("ignore") >>
nvme_get_lba == << Call(nvme_ns_list) >>
nvme_get_block_size == << Call(nvme_ns_list) >>
nvme_delete_ns == << Change("namespaces", "ignore") >>
nvme_delete_all_ns == << Call(nvme_ns_list), Call(nvme_delete_ns) >>

\* Without a list of formats two common ones are assumed; format 0 wins.
nvme_get_supported_lba_formats == << Call(nvme_ns_list), Run("ignore") >>
nvme_get_optimal_flbas == << Call(nvme_get_supported_lba_formats) >>
nvme_get_flbas_value == << Try(<< Call(nvme_get_optimal_flbas) >>, Any, << >>) >>

\* A namespace that is not listed after it was attached is a warning.
nvme_create_one_ns ==
    << Call(nvme_get_flbas_value), Change("namespaces", "fail"), Run("ignore"),
       Run("fail"), Run("ignore"), Run("ignore") >>
nvme_create_full_capacity_ns ==
    << Call(nvme_get_total_capacity), Call(nvme_get_block_size),
       Call(nvme_get_ns_controller), Call(nvme_create_one_ns) >>
nvme_create_max_ns ==
    << Call(nvme_get_total_capacity), Call(nvme_get_block_size),
       Call(nvme_get_max_ns_count), Call(nvme_get_ns_controller),
       Call(nvme_create_one_ns) >>

nvme_setUp(optional) ==
    << Run("cancel"), Run("error"), Run("cancel"), May(<< Run("error"), Run("ignore") >>),
       Call(nvme_get_block_size), Run("error") >>
    \o (IF optional THEN << Run("error"), Run("cancel") >> ELSE << >>)

\* The version is read from what setUp saved, before the update: it cannot
\* have changed, and that it differs from the wanted one is only logged.
nvme_test_firmware_upgrade ==
    << Run("error"), Call(nvme_get_firmware_version), Call(nvme_get_firmware_log),
       Call(nvme_get_firmware_slots),
       Call(nvme_firmware_slot_write_supported(<< Run("note"), Change("firmware", "note") >>)),
       IfChanged("firmware", << Call(nvme_reset_controller_sysfs) >>, << >>),
       Report("fail"), Call(nvme_get_firmware_log), Call(nvme_get_firmware_version),
       Run("drop") >>

nvme_test_create_max_ns ==
    << Call(nvme_delete_all_ns), Call(nvme_create_max_ns), Call(nvme_list_ns) >>
nvme_test_create_full_capacity_ns ==
    << Change("namespaces", "error"), Change("namespaces", "error") >>
nvme_testformatnamespace == << Call(nvme_get_lba), Change("data", "error") >>
nvme_testread == << Run("fail") >>
nvme_testwrite == << Change("data", "fail") >>
nvme_testcompare == << Call(nvme_testwrite), Run("fail") >>
nvme_testflush == << Run("fail") >>
nvme_testwritezeroes == << Change("data", "fail") >>
nvme_testwriteuncorrectable == << Change("data", "fail") >>
nvme_testdsm == << Change("data", "fail") >>
nvme_testreset == << Run("fail") >>
nvme_testreset_sysfs == << Call(nvme_reset_controller_sysfs) >>
nvme_testsubsystemreset == << Run("fail") >>
nvme_test_create_namespaces == << Change("namespaces", "error") >>
nvme_test_delete_all_ns == << Change("namespaces", "error") >>

NvmeTest(n, optional, m) == Test(n, nvme_setUp(optional), m, << >>)
NvmeJob ==
    [tests |-> << NvmeTest("test_firmware_upgrade", TRUE, nvme_test_firmware_upgrade),
                  NvmeTest("test_create_max_ns", FALSE, nvme_test_create_max_ns),
                  NvmeTest("test_create_full_capacity_ns", FALSE,
                           nvme_test_create_full_capacity_ns),
                  NvmeTest("testformatnamespace", TRUE, nvme_testformatnamespace),
                  NvmeTest("testread", FALSE, nvme_testread),
                  NvmeTest("testwrite", FALSE, nvme_testwrite),
                  NvmeTest("testcompare", TRUE, nvme_testcompare),
                  NvmeTest("testflush", FALSE, nvme_testflush),
                  NvmeTest("testwritezeroes", TRUE, nvme_testwritezeroes),
                  NvmeTest("testwriteuncorrectable", TRUE, nvme_testwriteuncorrectable),
                  NvmeTest("testdsm", TRUE, nvme_testdsm),
                  NvmeTest("testreset", FALSE, nvme_testreset),
                  NvmeTest("testreset_sysfs", FALSE, nvme_testreset_sysfs),
                  NvmeTest("testsubsystemreset", TRUE, nvme_testsubsystemreset),
                  NvmeTest("test_create_namespaces", FALSE, nvme_test_create_namespaces),
                  NvmeTest("test_delete_all_ns", FALSE, nvme_test_delete_all_ns) >>,
     keeps |-> {"namespaces", "firmware", "data"},
     leaves |-> {"namespaces", "firmware", "data"},
     unreported |-> {"test_firmware_upgrade"}]

(***************************************************************************)
(* io/disk/softwareraid.py.  Resources: raid, vg, lv, fs (mounted).  The   *)
(* flags fs_mounted and lv_created say what tearDown has to undo; what it  *)
(* misses is removed by the setUp of the next test.                        *)
(***************************************************************************)
sraid__wipe_fs == << IfChanged("fs", << Restore("fs", "ignore") >>, << >>) >>
sraid__do_stop_raid == << Restore("raid", "ignore") >>
sraid__do_delete_lvm ==
    << IfChanged("lv", << Restore("lv", "ignore") >>, << >>),
       IfChanged("vg", << Restore("vg", "ignore") >>, << >>), Run("ignore") >>
sraid__pre_cleanup ==
    << Call(sraid__wipe_fs),
       IfChanged("lv", << Call(sraid__do_delete_lvm) >>,
           << IfChanged("vg", << Restore("vg", "error") >>, << >>) >>),
       IfChanged("raid", << Call(sraid__do_stop_raid) >>, << >>) >>

sraid_setUp ==
    << Run("cancel"), Run("cancel"), Run("error"), Assign("sraid"), Run("error"),
       Call(sraid__pre_cleanup) >>

sraid_create_lvm ==
    << Run("fail"), Change("vg", "error"), Run("fail"), Change("lv", "error"), Run("fail"),
       Assign("lv_created") >>
sraid_delete_lvm == << Call(sraid__do_delete_lvm), Clear("lv_created") >>
sraid_create_fs == << Run("error"), Change("fs", "fail"), Assign("fs_mounted") >>
sraid_delete_fs ==
    << IfSet("fs_mounted", << Restore("fs", "ignore"), Clear("fs_mounted") >>, << >>) >>
sraid_run_io == << Run("fail"), Run("fail"), Run("error") >>

sraid_test ==
    << Change("raid", "fail"), Call(sraid_create_lvm), Call(sraid_create_fs),
       Call(sraid_run_io), Call(sraid_delete_fs), Call(sraid_delete_lvm),
       Restore("raid", "fail"), Run("ignore") >>

sraid_test_raid_rebuild ==
    << Run("cancel"), Change("raid", "fail"), Run("fail"), Run("fail"), Run("fail"),
       Run("fail"), Run("fail"), Restore("raid", "fail"), Run("ignore") >>

sraid_tearDown ==
    << IfSet("fs_mounted", << Call(sraid_delete_fs) >>, << >>),
       IfSet("lv_created", << Call(sraid_delete_lvm) >>, << >>),
       IfSet("sraid", << IfChanged("raid", << Restore("raid", "ignore") >>, << >>) >>, << >>) >>

\* A volume group whose volume could not be made is not known to tearDown, and
\* nothing is left of the file system or of the array that can be undone.
SraidJob ==
    [tests |-> << Test("test", sraid_setUp, sraid_test, sraid_tearDown),
                  Test("test_raid_rebuild", sraid_setUp, sraid_test_raid_rebuild,
                       sraid_tearDown) >>,
     keeps |-> {"fs", "lv", "vg"}, leaves |-> {"lv", "vg"}, unreported |-> {}]

(***************************************************************************)
(* io/disk/vfc-tests/virtual_fc.py.  Resources: mapping, adapter, and the  *)
(* server and client adapters it creates (vfc).                            *)
(***************************************************************************)
vfc_get_mcp_component == << Run("cancel") >>
vfc_get_partition_name == << Run("cancel") >>
vfc_rsct_service_start == << Run("fail"), Run("fail") >>
vfc_install_packages == << Run("cancel") >>
vfc_get_vfchost == << Run("error") >>
vfc_get_fcs_name == << Run("error") >>
vfc_get_vfc_client == << Run("error") >>
vfc_get_paths == << Run("error") >>
vfc_get_vfchost_status(w) == << Run(w) >>
vfc_get_vfchost_config_status(w) == << Run(w) >>

vfc_setUp ==
    << Call(vfc_install_packages), Call(vfc_rsct_service_start),
       Call(vfc_get_mcp_component), Call(vfc_get_partition_name), Assign("session"),
       Run("cancel"), Run("cancel"), Call(vfc_get_vfchost), Call(vfc_get_fcs_name),
       Call(vfc_get_vfc_client), Call(vfc_get_paths) >>

\* Each verification waits, and records that the state did not follow.
vfc_vfchost_status_verify == << Call(vfc_get_vfchost_status("note")) >>
vfc_vfchost_config_status_verify == << Call(vfc_get_vfchost_config_status("note")) >>
vfc_vfc_client_status_verify == << Run("error"), Run("note") >>
vfc_mpath_verification == << Run("error"), Run("note") >>

vfc_vfchost_map_unmap(op) ==
    << IF op = "unmap" THEN Change("mapping", "fail") ELSE Restore("mapping", "fail"),
       Call(vfc_vfchost_status_verify), Call(vfc_vfc_client_status_verify),
       Call(vfc_mpath_verification) >>
vfc_vfchost_remove_add(op) ==
    << IF op = "remove" THEN Change("adapter", "fail") ELSE Restore("adapter", "fail"),
       Call(vfc_vfchost_config_status_verify), Call(vfc_vfc_client_status_verify),
       Call(vfc_mpath_verification) >>

vfc_test_unmap_map ==
    << Call(vfc_vfchost_map_unmap("unmap")), Call(vfc_vfchost_map_unmap("map")),
       Report("fail") >>
vfc_test_remove_addForgetful ==
    << Call(vfc_vfchost_remove_add("remove")), Forget, Call(vfc_vfchost_remove_add("add")),
       Report("fail") >>
vfc_test_remove_add ==
    << Forget, Call(vfc_vfchost_remove_add("remove")), Call(vfc_vfchost_remove_add("add")),
       Report("fail") >>

\* Only the list of adapters decides: the command's status is looked at in
\* lines that no path reaches.  An adapter that is made but not listed in time
\* is not on the list of those to delete.  After a deletion the list of slots
\* and types is searched for the name of the partition, which it never shows:
\* the adapter counts as gone whether it is or not.
vfc_vfchost_exists(operation, type, there, gone) ==
    IF operation = "create" THEN << IfChanged(type, there, gone) >>
    ELSE << Run("drop") >> \o gone
vfc_create_vfchost(type) ==
    << Change(type, "ignore") >>
    \o vfc_vfchost_exists("create", type, << Choose(<< Assign(type) >>, << Note >>) >>,
                          << Note >>)
vfc_delete_vfchost(type) ==
    << Restore(type, "ignore") >> \o vfc_vfchost_exists("delete", type, << Note >>, << >>)

vfc_test_create_delete_vfchost ==
    << Forget, Run("error"), Run("note"), Call(vfc_create_vfchost("server")),
       IfSet("server", << Call(vfc_create_vfchost("client")) >>, << >>),
       IfSet("server", << Call(vfc_delete_vfchost("server")) >>, << >>),
       IfSet("client", << Call(vfc_delete_vfchost("client")) >>, << >>),
       Report("fail") >>

vfc_tearDown == << Use("session"), Run("error") >>

VfcJob ==
    [tests |-> << Test("test_unmap_map", vfc_setUp, vfc_test_unmap_map, vfc_tearDown),
                  Test("test_remove_add", vfc_setUp, vfc_test_remove_add, vfc_tearDown),
                  Test("test_create_delete_vfchost", vfc_setUp,
                       vfc_test_create_delete_vfchost, vfc_tearDown) >>,
     keeps |-> {"client", "server"}, leaves |-> {"adapter", "client", "mapping", "server"},
     unreported |-> {"test_create_delete_vfchost"}]

(***************************************************************************)
(* io/disk/multipath_test.py.  Resources: conf (/etc/multipath.conf), bkp  *)
(* (its copy), lost (the copy is of a changed file), path, map, suspended. *)
(* hadConf: the file was there when the job started.                       *)
(***************************************************************************)
MpathBackUp == << Change("bkp", "error"),
                  IfChanged("conf", << Change("lost", "ignore") >>, << >>) >>
mpath_setUp(hadConf) ==
    << Run("cancel"), Run("cancel"), Assign("mpath_svc"), Run("ignore"),
       Assign("mpath_file") >>
    \o (IF hadConf THEN MpathBackUp ELSE << IfChanged("conf", MpathBackUp, << >>) >>)
    \o << Run("error") >>

\* Policies, flush, and the black lists of maps and of paths: each step
\* writes the configuration, the last one without a black list.
mpath_test ==
    << Change("conf", "error"), Run("note"), Run("error"), Run("note"), Run("ignore"),
       Run("note"), Change("conf", "error"), Run("note"), Change("conf", "error"),
       Run("note"), Report("fail") >>

mpath_test_fail_reinstate_individual_paths ==
    << Change("path", "note"), IfChanged("path", << Restore("path", "note") >>, << >>),
       Run("ignore"), Report("fail") >>
mpath_test_io_run_on_single_path ==
    << Change("path", "note"), Restore("path", "note"), Run("ignore"), Report("fail") >>
mpath_test_failing_reinstate_all_paths ==
    << Change("path", "note"), Restore("path", "note"), Run("ignore"), Report("fail") >>
mpath_test_removing_all_paths ==
    << Change("path", "note"), Restore("path", "note"), Run("ignore"), Report("fail") >>
mpath_test_suspend_resume_individual_mpath ==
    << Change("suspended", "note"), Restore("suspended", "note"), Report("fail") >>
mpath_test_suspend_resume_all_mpath ==
    << Change("suspended", "note"), Restore("suspended", "note"), Report("fail") >>
mpath_test_remove_add_mpath ==
    << Change("map", "note"), Restore("map", "note"), Report("fail") >>

\* The copy is put back when there is one, whatever it is a copy of.
mpath_tearDown ==
    << Use("mpath_file"),
       IfChanged("bkp", << IfChanged("lost", << Run("error") >>,
                                     << Restore("conf", "error") >>) >>, << >>),
       Use("mpath_svc"), Run("ignore") >>

MpathTest(n, hadConf, m) == Test(n, mpath_setUp(hadConf), m, mpath_tearDown)
MpathJob(hadConf, left) ==
    [tests |-> << MpathTest("test", hadConf, mpath_test),
                  MpathTest("test_fail_reinstate_individual_paths", hadConf,
                            mpath_test_fail_reinstate_individual_paths),
                  MpathTest("test_io_run_on_single_path", hadConf,
                            mpath_test_io_run_on_single_path),
                  MpathTest("test_failing_reinstate_all_paths", hadConf,
                            mpath_test_failing_reinstate_all_paths),
                  MpathTest("test_removing_all_paths", hadConf,
                            mpath_test_removing_all_paths),
                  MpathTest("test_suspend_resume_individual_mpath", hadConf,
                            mpath_test_suspend_resume_individual_mpath),
                  MpathTest("test_suspend_resume_all_mpath", hadConf,
                            mpath_test_suspend_resume_all_mpath),
                  MpathTest("test_remove_add_mpath", hadConf,
                            mpath_test_remove_add_mpath) >>,
     keeps |-> left, leaves |-> left, unreported |-> {}]

(***************************************************************************)
(* io/disk/port_bounce.py.  Resource: port, a port of the switch disabled. *)
(***************************************************************************)
bounce_switch_login == << Assign("ssh_session"), Run("fail") >>
bounce__send_only_result == << >>
\* The exit status of the command is not looked at.
bounce_run_command(s) ==
    << IfSet("ssh_session", << >>, << Raise("fail") >>), Run("fail"), s,
       Call(bounce__send_only_result) >>

bounce_get_wwpn == << Run("ignore") >>
bounce_get_fc_host == << Run("ignore") >>
bounce_get_switch_port ==
    << Call(bounce_get_wwpn), Call(bounce_run_command(Run("ignore"))), Run("fail") >>
\* The loop is over the characters of the output: no path is ever found.
bounce_get_paths == << >>

bounce_port_enable_disable(type) ==
    << Call(bounce_run_command(IF type = "disable" THEN Change("port", "ignore")
                                                   ELSE Restore("port", "ignore"))) >>
\* failure_list is set by the test method, not by setUp.
bounce_verify_switch_port_state ==
    << Call(bounce_run_command(Run("ignore"))),
       IfSet("failure_list", << Run("note") >>, << Run("error") >>) >>
bounce_verify_port_host_state == << Run("error"), Run("fail") >>
bounce_mpath_state_check == << Call(bounce_get_paths) >>

bounce_setUp ==
    << Run("cancel"), Call(bounce_get_fc_host), Run("error"), Call(bounce_switch_login),
       Call(bounce_get_switch_port) >>
bounce_porttoggle ==
    << Call(bounce_port_enable_disable("disable")), Call(bounce_verify_switch_port_state),
       Call(bounce_verify_port_host_state), Call(bounce_mpath_state_check),
       Call(bounce_port_enable_disable("enable")), Call(bounce_verify_switch_port_state),
       Call(bounce_verify_port_host_state), Call(bounce_mpath_state_check) >>
bounce_port_bounce == << Call(bounce_porttoggle) >>
bounce_test == << Assign("failure_list"), Call(bounce_port_bounce), Report("fail") >>
bounce_tearDown ==
    << Call(bounce_port_enable_disable("enable")), Call(bounce_verify_switch_port_state),
       Run("ignore"), IfSet("ssh_session", << Run("error") >>, << >>) >>

\* A port that tearDown finds not enabled is put on a list nobody reads.
BounceJob ==
    [tests |-> << Test("test", bounce_setUp, bounce_test, bounce_tearDown) >>,
     keeps |-> {"port"}, leaves |-> {"port"}, unreported |-> {"test"}]
================================================================================
