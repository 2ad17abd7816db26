----------------------------- MODULE VirtNetTests -----------------------------
(***************************************************************************)
(* The tests of virtual network devices of a partition: vNIC               *)
(* (io/net/virt-net/network_virtualization.py) and SR-IOV logical ports    *)
(* (io/net/sriov_device_test.py), both driven through the management       *)
(* console, and the NFS stress over an interface                           *)
(* (io/net/ltp_fsstress_nfs.py).                                           *)
(*                                                                         *)
(* Resources: vnic, the device of the slot; backing, its backing devices;  *)
(* disabled; active, the active backing device; priority and auto, its     *)
(* failover settings; vios_dev, a device removed in the VIOS; slot, a slot *)
(* taken away from Linux; debug, the dynamic debug of ibmvnic; irqbalance  *)
(* and queues; logport, hnv_bond; ip, mount, export, firewall, nfs.        *)
(***************************************************************************)
EXTENDS Statements

(***************************************************************************)
(* io/net/virt-net/network_virtualization.py: commands of the console.     *)
(***************************************************************************)
netvirt_get_mcp_component == << Run("cancel") >>
netvirt_get_partition_name == << Run("cancel") >>
netvirt_install_packages == << Run("cancel"), May(<< Run("error"), Run("ignore") >>) >>
netvirt_rsct_service_start == << Run("fail"), Run("cancel") >>

\* True when the slot is free; the reaction is the caller's.
netvirt_check_slot_availability(free, used) == << IfChanged("vnic", used, free) >>

netvirt_list_device == << Run("fail") >>
netvirt_backing_dev_list == << Run("fail") >>
netvirt_get_backing_devices == << Run("fail") >>
netvirt_find_device == << Run("error") >>
netvirt_find_device_id == << Call(netvirt_find_device), Run("error") >>
netvirt_find_virtual_slot(w) == << Run(w) >>

\* Without an entry for the slot the result is read before it is assigned.
netvirt_get_active_device_logport == << Call(netvirt_backing_dev_list), Run("error") >>
netvirt_get_backing_device_logport == << Call(netvirt_backing_dev_list), Run("error") >>
netvirt_get_backing_device_priority ==
    << Call(netvirt_get_backing_devices), Call(netvirt_get_backing_device_logport),
       Run("error") >>
netvirt_backing_dev_count == << Call(netvirt_backing_dev_list), Run("error") >>
netvirt_backing_dev_count_w_slot_num == << Call(netvirt_backing_dev_list) >>
netvirt_get_failover_priority == << Run("ignore") >>
netvirt_is_auto_failover_enabled(w) == << Run(w) >>

netvirt_wait_interface == << Run("ignore") >>
netvirt_wait_intrerface == << Run("ignore") >>

netvirt_device_add_remove(op) ==
    IF op = "add" THEN << Change("vnic", "fail") >> ELSE << Restore("vnic", "fail") >>
netvirt_backing_dev_add_remove(op) ==
    IF op = "add" THEN << Change("backing", "fail") >> ELSE << Restore("backing", "fail") >>
netvirt_disable_enable_dev(op) ==
    IF op = "d" THEN << Change("disabled", "fail") >> ELSE << Restore("disabled", "fail") >>
netvirt_is_disabled_enabled_dev == << Run("fail") >>
netvirt_drmgr_vnic_dlpar(op) ==
    IF op = "-r" THEN << Change("slot", "fail") >> ELSE << Restore("slot", "fail") >>
netvirt_validate_vios_command(s) == << s >>

\* Make a logical port the active one: another one, or the original.
netvirt_trigger_failover(s) == << s >>

\* The commands' own status is logged; the setting is read back.
netvirt_enable_auto_failover(w) ==
    << Change("auto", "ignore"), Call(netvirt_is_auto_failover_enabled(w)) >>
netvirt_change_failover_priority(s) == << s, Call(netvirt_get_failover_priority) >>

\* The order of the lists of backing devices follows the active one.
netvirt_update_backing_devices ==
    << Call(netvirt_get_active_device_logport), Call(netvirt_get_backing_devices),
       Run("return"), Run("error") >>

netvirt_check_dmesg_error(t) ==
    (IF t = "remove" THEN << >> ELSE << Call(netvirt_find_device), Run("ignore") >>)
    \o << Run("fail") >>

netvirt_enable_irqbalance ==
    << Change("irqbalance", "ignore"), Run("ignore"), Run("error"), Run("error") >>

\* The peer's answer is an object, never false: a failure there goes unseen.
netvirt_tune_rxtx_queue ==
    << Run("error"), Change("queues", "ignore"), Call(netvirt_find_device),
       Run("error") >>

(***************************************************************************)
(* The methods the runner calls.  t is the test that is run.               *)
(***************************************************************************)
netvirt_setUp(t) ==
    << Call(netvirt_install_packages), Call(netvirt_get_mcp_component),
       Call(netvirt_get_partition_name), Assign("session_hmc"), Run("cancel"),
       Run("cancel"), Run("cancel"),
       Try(<< IfChanged("vnic", << Call(netvirt_get_active_device_logport) >>,
                        << Raise("error") >>), Assign("original_logport") >>,
           Any, << >>),
       Run("error"), Run("cancel"), Run("error"), Run("cancel"),
       Call(netvirt_rsct_service_start) >>
    \o (IF t \in {"backingdevadd", "backingdevremove", "hmcfailover", "clientfailover",
                  "auto_failover", "viosfailover"}
        THEN << Run("cancel") >> ELSE << >>)
    \o << Change("debug", "fail") >>

\* What is known of the vNIC of the slot: every error means "not there".
netvirt_check_vnic_exists ==
    << Try(<< Call(netvirt_list_device), Call(netvirt_find_device),
              Try(<< Call(netvirt_find_device_id),
                     Call(netvirt_find_virtual_slot("ignore")) >>, Any, << >>) >>,
           Any, << >>) >>

netvirt_ensure_vnic_connectivity ==
    << Call(netvirt_list_device), Run("fail"), Call(netvirt_find_device), Run("fail"),
       Run("ignore"), Run("error"), Run("fail"), Run("fail") >>

netvirt_test_add ==
    << Call(netvirt_check_vnic_exists),
       IfChanged("vnic",
           << May(<< Call(netvirt_device_add_remove("remove")),
                     Call(netvirt_device_add_remove("add")) >>) >>,
           << Run("fail"), Call(netvirt_device_add_remove("add")) >>),
       Call(netvirt_ensure_vnic_connectivity), Assign("session_peer"), Run("fail"),
       Call(netvirt_enable_irqbalance), Call(netvirt_tune_rxtx_queue),
       Call(netvirt_check_dmesg_error("add")) >>

NetvirtSlotUsed == netvirt_check_slot_availability(<< Raise("fail") >>, << >>)

netvirt_test_backingdevadd ==
    << Call(NetvirtSlotUsed), Call(netvirt_backing_dev_count),
       Call(netvirt_backing_dev_add_remove("add")), Call(netvirt_backing_dev_count),
       Run("fail"), Call(netvirt_find_device), Run("fail"),
       Call(netvirt_check_dmesg_error("backingdevadd")) >>

netvirt_test_disable_enable_dev ==
    << Call(netvirt_find_device), Call(netvirt_disable_enable_dev("d")),
       Call(netvirt_is_disabled_enabled_dev), Call(netvirt_disable_enable_dev("e")),
       Call(netvirt_is_disabled_enabled_dev), Call(netvirt_find_device), Run("fail"),
       Run("fail"), Call(netvirt_check_dmesg_error("disable_enable_dev")) >>

\* The failover back to the original device is made; that it did not take is
\* only logged.
netvirt_test_hmcfailover ==
    << Call(netvirt_get_active_device_logport),
       Call(netvirt_get_backing_device_logport),
       Call(netvirt_trigger_failover(Change("active", "fail"))),
       Call(netvirt_get_active_device_logport), Run("fail"),
       Call(netvirt_find_device), Run("fail"),
       Call(netvirt_trigger_failover(Restore("active", "fail"))),
       Call(netvirt_check_dmesg_error("hmcfailover")) >>

\* One failover per backing device: the last one comes back to the first.
netvirt_test_clientfailover ==
    << Call(netvirt_find_device_id), Call(netvirt_backing_dev_count),
       Change("active", "fail"), Call(netvirt_find_device), Run("fail"),
       Restore("active", "fail"), Call(netvirt_find_device), Run("fail"),
       Call(netvirt_check_dmesg_error("clientfailover")) >>

\* The priorities are put back, the active device and the auto failover
\* setting are not.
netvirt_test_vnic_auto_failover ==
    << May(<< Raise("cancel") >>), Call(netvirt_update_backing_devices),
       Call(netvirt_get_backing_device_logport), Call(netvirt_get_active_device_logport),
       Call(netvirt_get_backing_device_priority),
       Call(netvirt_enable_auto_failover("fail")),
       Call(netvirt_change_failover_priority(Change("priority", "fail"))),
       Change("active", "fail"), Call(netvirt_find_device), Run("fail"),
       Call(netvirt_change_failover_priority(Restore("priority", "fail"))),
       Call(netvirt_check_dmesg_error("auto_failover")) >>

netvirt_test_rmdev_viosfailover ==
    << Assign("session"), Run("fail"), Call(netvirt_find_device), Run("error"),
       Call(netvirt_get_active_device_logport),
       Call(netvirt_validate_vios_command(Change("vios_dev", "fail"))),
       Call(netvirt_backing_dev_list), Run("fail"),
       Call(netvirt_validate_vios_command(Restore("vios_dev", "fail"))), Run("fail"),
       Call(netvirt_check_dmesg_error("viosfailover")) >>

netvirt_test_vnic_dlpar ==
    << Call(netvirt_update_backing_devices), Call(netvirt_find_device_id),
       Call(netvirt_find_virtual_slot("fail")),
       Call(netvirt_drmgr_vnic_dlpar("-r")), Call(netvirt_drmgr_vnic_dlpar("-a")),
       Call(netvirt_wait_intrerface), Call(netvirt_find_device), Run("error"),
       Run("fail"), Run("fail"), Call(netvirt_check_dmesg_error("vnic_dlpar")) >>

\* The device goes and comes back; its extra backing devices go with it and
\* are added again one by one.
netvirt_test_vnic_hmc_dlpar ==
    << Call(netvirt_update_backing_devices), Call(netvirt_find_device),
       Call(netvirt_backing_dev_count_w_slot_num),
       Call(netvirt_device_add_remove("remove")), Run("fail"),
       Call(netvirt_device_add_remove("add")),
       May(<< Call(netvirt_backing_dev_add_remove("add")), Call(netvirt_wait_interface) >>),
       Run("error"), Run("fail"), Run("fail"),
       Call(netvirt_check_dmesg_error("vnic_hmc_dlpar")) >>

\* The error is injected on the VIOS; the failover it causes is not undone.
\* The device to fail over to first is the one that was active at setUp.
netvirt_test_vnic_eeh ==
    << Call(netvirt_backing_dev_count), May(<< Raise("cancel") >>),
       Call(netvirt_get_active_device_logport), Use("original_logport"),
       May(<< Call(netvirt_trigger_failover(Run("fail"))) >>), Assign("session"), Run("fail"), Call(netvirt_find_device), Run("error"),
       Run("error"), Change("active", "fail"),
       Call(netvirt_get_active_device_logport), Call(netvirt_find_device), Run("fail") >>

netvirt_test_backingdevremove ==
    << Call(NetvirtSlotUsed), Call(netvirt_update_backing_devices),
       Call(netvirt_backing_dev_count), Call(netvirt_backing_dev_add_remove("remove")),
       Call(netvirt_backing_dev_count), Run("fail"),
       Call(netvirt_check_dmesg_error("backingdevremove")) >>

netvirt_test_remove ==
    << Call(NetvirtSlotUsed), Call(netvirt_update_backing_devices),
       Call(netvirt_device_add_remove("remove")), Call(netvirt_list_device), Run("fail"),
       Call(netvirt_check_dmesg_error("remove")) >>

\* Named for going back to the device that was active; it asks for the one
\* that is active now, so nothing changes.
netvirt_change_active_device ==
    << Call(netvirt_get_active_device_logport), Use("original_logport"),
       May(<< Call(netvirt_trigger_failover(Run("fail"))) >>) >>

netvirt_tearDown(t) ==
    (IF t = "viosfailover" THEN << Use("session") >> ELSE << >>)
    \o << Try(<< Call(netvirt_change_active_device) >>, Any, << >>),
          Use("session_hmc"), Restore("debug", "ignore") >>
    \o (IF t = "add" THEN << Use("session_peer") >> ELSE << >>)

NetvirtTest(n, t, m) == Test(n, netvirt_setUp(t), m, netvirt_tearDown(t))

\* A job runs the tests its configuration selects, in the order of the file:
\* here test_add, up to three of the others, and test_remove.
\* A job that passes leaves debug on: tearDown turns it off in a command whose
\* status is ignored.  irqbalance stays off and the queues stay tuned.
NetvirtJob(between, keeps, leaves) ==
    [tests |-> << NetvirtTest("test_add", "add", netvirt_test_add) >> \o between
              \o << NetvirtTest("test_remove", "remove", netvirt_test_remove) >>,
     keeps  |-> {"debug", "irqbalance", "queues"} \cup keeps,
     leaves |-> {"vnic", "irqbalance", "queues"} \cup leaves,
     unreported |-> {}]

NetvirtBacking == <<
    NetvirtTest("test_backingdevadd", "backingdevadd", netvirt_test_backingdevadd),
    NetvirtTest("test_vnic_hmc_dlpar", "vnic_hmc_dlpar", netvirt_test_vnic_hmc_dlpar),
    NetvirtTest("test_backingdevremove", "backingdevremove",
                netvirt_test_backingdevremove) >>

NetvirtFailover == <<
    NetvirtTest("test_hmcfailover", "hmcfailover", netvirt_test_hmcfailover),
    NetvirtTest("test_clientfailover", "clientfailover", netvirt_test_clientfailover),
    NetvirtTest("test_vnic_auto_failover", "auto_failover",
                netvirt_test_vnic_auto_failover) >>

NetvirtOutage == <<
    NetvirtTest("test_disable_enable_dev", "disable_enable_dev",
                netvirt_test_disable_enable_dev),
    NetvirtTest("test_rmdev_viosfailover", "viosfailover",
                netvirt_test_rmdev_viosfailover) >>

NetvirtErrors == <<
    NetvirtTest("test_vnic_dlpar", "vnic_dlpar", netvirt_test_vnic_dlpar),
    NetvirtTest("test_vnic_eeh", "vnic_eeh", netvirt_test_vnic_eeh) >>

(***************************************************************************)
(* io/net/sriov_device_test.py.  mode: plain logical ports, migratable     *)
(* ones (with a bond of the port and its backup), or as many as the        *)
(* adapter takes (max).  Tests of another mode cancel themselves.          *)
(***************************************************************************)
sriov_get_mcp_component == << Run("cancel") >>
sriov_get_partition_name == << Run("cancel") >>
sriov_get_adapter_id == << Run("cancel") >>

sriov_setUp ==
    << Run("cancel"), Call(sriov_get_mcp_component), Call(sriov_get_partition_name),
       Assign("session"), Run("cancel"), Run("cancel"), Run("error"),
       May(<< Run("cancel"), Call(sriov_get_adapter_id), Run("error") >>) >>

\* Wrong parameters of a migratable port fail before the command is sent.
sriov_device_add_remove(op) ==
    << Call(sriov_get_adapter_id), Run("fail"),
       IF op = "add" THEN Change("logport", "fail") ELSE Restore("logport", "fail") >>

sriov_list_device(there, gone) == << IfChanged("logport", there, gone) >>
sriov_get_logical_port_id == << Run("error") >>
sriov_get_hnv_bond == << Run("error"), Run("fail") >>
sriov_find_device == << Run("error") >>

SriovOnly(mode, wanted, test) == IF mode = wanted THEN test ELSE << Raise("cancel") >>

sriov_test_add_logical_device(mode) ==
    SriovOnly(mode, "plain",
        << Call(sriov_list_device(<< Raise("cancel") >>, << >>)),
           Call(sriov_device_add_remove("add")),
           Call(sriov_list_device(<< >>, << Raise("fail") >>)),
           Call(sriov_find_device), Run("fail"), Run("error"), Run("fail") >>)

\* Once the port is listed, whatever goes wrong takes it away again.
sriov_test_add_migratable_sriov(mode) ==
    SriovOnly(mode, "migratable",
        << Call(sriov_list_device(<< Raise("cancel") >>, << >>)),
           Call(sriov_device_add_remove("add")),
           Call(sriov_list_device(<< >>, << Raise("fail") >>)),
           TryUndo(<< Call(sriov_get_hnv_bond), Change("hnv_bond", "fail"), Run("fail"),
                      Run("fail") >>,
                   << Try(<< Call(sriov_get_logical_port_id),
                             Call(sriov_device_add_remove("remove")) >>, Any, << >>) >>) >>)

sriov_test_remove_migratable_sriov(mode) ==
    SriovOnly(mode, "migratable",
        << Call(sriov_get_hnv_bond), Run("fail"), Restore("hnv_bond", "fail"),
           Call(sriov_get_logical_port_id), Call(sriov_device_add_remove("remove")),
           Call(sriov_list_device(<< Raise("fail") >>, << >>)) >>)

sriov_test_remove_logical_device(mode) ==
    SriovOnly(mode, "plain",
        << Call(sriov_get_logical_port_id), Call(sriov_device_add_remove("remove")),
           Call(sriov_list_device(<< Raise("fail") >>, << >>)) >>)

\* The ports get no address of their own here, so that list_device is asked
\* for the empty string, which every list contains: a check that cannot fail.
sriov_test_add_max_logical_devices(mode) ==
    SriovOnly(mode, "max", << Call(sriov_device_add_remove("add")), Run("drop") >>)

sriov_test_remove_max_logical_devices(mode) ==
    SriovOnly(mode, "max",
        << Call(sriov_get_logical_port_id), Call(sriov_device_add_remove("remove")),
           Run("fail") >>)

sriov_tearDown == << IfSet("session", << Run("error") >>, << >>) >>

SriovJob(mode) ==
    [tests |-> <<
        Test("test_add_logical_device", sriov_setUp,
             sriov_test_add_logical_device(mode), sriov_tearDown),
        Test("test_add_migratable_sriov", sriov_setUp,
             sriov_test_add_migratable_sriov(mode), sriov_tearDown),
        Test("test_remove_migratable_sriov", sriov_setUp,
             sriov_test_remove_migratable_sriov(mode), sriov_tearDown),
        Test("test_remove_logical_device", sriov_setUp,
             sriov_test_remove_logical_device(mode), sriov_tearDown),
        Test("test_add_max_logical_devices", sriov_setUp,
             sriov_test_add_max_logical_devices(mode), sriov_tearDown),
        Test("test_remove_max_logical_devices", sriov_setUp,
             sriov_test_remove_max_logical_devices(mode), sriov_tearDown) >>,
     keeps |-> {},
     unreported |-> IF mode = "max" THEN {"test_add_max_logical_devices"} ELSE {},
     leaves |-> {"logport"} \cup (IF mode = "migratable" THEN {"hnv_bond"} ELSE {})]

(***************************************************************************)
(* io/net/ltp_fsstress_nfs.py: a directory of the peer, exported, mounted  *)
(* here and stressed.                                                      *)
(***************************************************************************)

\* The firewall of the peer is stopped and disabled.
fsnfs_setup_nfs_server ==
    << Change("export_dir", "cancel"), Run("ignore"), Change("nfs_service", "ignore"),
       Run("cancel"), Change("firewall", "ignore"), Change("export", "cancel"),
       Run("ignore") >>

fsnfs_mount_nfs ==
    << Change("mount_point", "cancel"), Change("mount", "cancel"), Run("ignore"),
       Run("cancel") >>

\* Both addresses are saved whether or not they could be added.
fsnfs_setUp ==
    << Run("cancel"), Run("cancel"), Run("cancel"), Assign("host_networkinterface"),
       Try(<< Change("ip", "error"), Run("error") >>, Any, << Change("ip", "error") >>),
       Run("error"), Assign("session"), Run("cancel"), Run("error"),
       Assign("remotehost"), Run("cancel"),
       Try(<< Change("peer_ip", "error"), Run("error") >>, Any,
           << Change("peer_ip", "error") >>),
       Run("error"), Run("cancel"), Call(fsnfs_setup_nfs_server), Call(fsnfs_mount_nfs),
       Run("error"), Run("ignore"), Run("cancel") >>

\* A run of fsstress that fails is only logged: what the test looks at is
\* the kernel log.
fsnfs_test_fsstress_run ==
    << Run("drop"), Run("ignore"), Run("fail"), Run("ignore") >>

\* The address goes before the mount that uses it.  err_mesg is logged and
\* never reported.
fsnfs_tearDown ==
    << Run("ignore"), Use("host_networkinterface"), Run("error"),
       Try(<< Restore("ip", "error") >>, Any, << Restore("ip", "error") >>), Run("error"),
       Restore("mount", "ignore"), Restore("mount_point", "ignore"),
       IfSet("session", << Restore("export", "ignore"), Restore("export_dir", "ignore"),
                           Run("error") >>, << >>),
       IfSet("remotehost", << Run("ignore") >>, << >>) >>

FsnfsLeft == {"export", "export_dir", "firewall", "mount", "mount_point", "nfs_service",
              "peer_ip"}

FsnfsJob ==
    [tests |-> << Test("test_fsstress_run", fsnfs_setUp, fsnfs_test_fsstress_run,
                       fsnfs_tearDown) >>,
     keeps  |-> FsnfsLeft, leaves |-> FsnfsLeft \cup {"ip"},
     unreported |-> {"test_fsstress_run"}]
================================================================================
