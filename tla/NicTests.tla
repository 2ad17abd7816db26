------------------------------- MODULE NicTests -------------------------------
(***************************************************************************)
(* Tests of one adapter: io/net/irqbalance.py (interrupts, processors and  *)
(* SMT under a network or disk load), io/net/htx_nic_devices.py (HTX       *)
(* between host and peer), io/net/vlan_test.py (VLANs on a switch) and     *)
(* io/net/virt-net/lpm.py (migration of the partition there and back).     *)
(*                                                                         *)
(* Resources: ip, peer_ip and cfg, the addresses and the configuration     *)
(* file; smt; affinity, of the interrupt; cpu and cpu_smt, processors off  *)
(* line, the second beyond those counted before SMT was raised; load, a    *)
(* ping or dd that runs; disk, the data on it; firewall, rpm and daemon    *)
(* (HTX and its run), with peer_ for those of the peer; mode, tag,         *)
(* host_vlan and peer_vlan on the switch; link and peer_link, VLAN         *)
(* interfaces; rsct, msp; location, the server the partition runs on.      *)
(***************************************************************************)
EXTENDS Statements

(***************************************************************************)
(* io/net/irqbalance.py, for an interface (d = "net") or a disk.           *)
(***************************************************************************)
irq_get_hbond_ipi_name == << Try(<< Run("error") >>, Any, << >>) >>
irq_get_disk_IPI_name  == << Run("error") >>
irq_check_current_smt  == << Run("error") >>
irq_set_smt_values     == << Change("smt", "error") >>
irq_set_max_smt_values == << Call(irq_set_smt_values) >>

irq_setUp(d) ==
    (IF d = "net"
     THEN << Run("cancel"), Assign("interface"), Run("cancel"),
             Assign("networkinterface"), Run("cancel"),
             Try(<< Change("ip", "error"), Change("cfg", "error") >>, Any,
                 << Change("cfg", "error") >>),
             Run("error"), Run("cancel"), Run("cancel"),
             Choose(<< Call(irq_get_hbond_ipi_name) >>, << Run("error") >>) >>
     ELSE << Call(irq_get_disk_IPI_name) >>)
    \o << Call(irq_check_current_smt), Call(irq_set_max_smt_values), Run("error") >>

irq_get_device_interrupts == << Run("ignore") >>
irq_get_module_interrupts == << Run("ignore") >>
irq_cpu_range_validation  == << Run("error"), Run("fail") >>

\* The kernel log is searched for errors and what is found is not used.
irq_test_irq_balance ==
    << Call(irq_get_device_interrupts), Run("fail"),
       Change("affinity", "fail"), Call(irq_get_module_interrupts),
       May(<< Call(irq_cpu_range_validation) >>), Run("drop"),
       May(<< Change("affinity", "fail"), Call(irq_cpu_range_validation),
              Call(irq_get_module_interrupts) >>), Run("drop") >>

\* A processor counted at the start and one that SMT added go off line, then
\* another does not.  cpu.offline and cpu.online say nothing; the list of the
\* processors on line is compared.
IrqOff(c) == << Change(c, "ignore"), IfChanged(c, << >>, << Raise("fail") >>) >>
IrqOn(c)  == << Restore(c, "ignore"), IfChanged(c, << Raise("fail") >>, << >>) >>

irq_test_cpu_serial_off_on ==
    << Run("cancel") >> \o IrqOff("cpu")
    \o << May(IrqOff("cpu_smt")), Run("fail") >> \o IrqOn("cpu")
    \o << IfChanged("cpu_smt", IrqOn("cpu_smt"), << >>), Run("drop") >>

irq_test_smt_toggle == << Call(irq_set_smt_values) >>

irq_get_ping_process_pid == << Run("cancel") >>
irq_get_dd_process_pid   == << Run("fail") >>
IrqPid(d) == IF d = "net" THEN irq_get_ping_process_pid ELSE irq_get_dd_process_pid

irq_taskset_cpu_validation(d) == << Call(IrqPid(d)), Run("error") >>

irq_dd_run == << Change("disk", "ignore"), Change("load", "ignore") >>

\* The load is started before the try: when its process is not found it stays.
\* With several dd processes their numbers are not one integer.
irq_test_taskset(d) ==
    (IF d = "net" THEN << Change("load", "ignore") >> ELSE << Call(irq_dd_run) >>)
    \o << Call(IrqPid(d)),
          TryFinally(<< Run("fail"), Call(irq_taskset_cpu_validation(d)), Run("fail") >>,
                     (IF d = "net" THEN << >> ELSE << Run("error") >>)
                     \o << Restore("load", "ignore") >>),
          Run("drop") >>

irq___online_cpus == << Restore("cpu", "ignore") >>

\* No method sets curr_smt.
irq_tearDown ==
    << IfSet("curr_smt", << Call(irq_check_current_smt), Restore("smt", "error") >>, << >>),
       Call(irq___online_cpus),
       IfSet("interface",
             << Use("networkinterface"), Restore("ip", "error"),
                Try(<< Restore("cfg", "error") >>, Any, << Restore("cfg", "error") >>) >>,
             << >>) >>

IrqJob(d) ==
    LET T(n, t) == Test(n, irq_setUp(d), t, irq_tearDown)
        kept == {"smt", "affinity", "load"} \cup (IF d = "net" THEN {} ELSE {"disk"})
    IN [tests |-> << T("test_irq_balance", irq_test_irq_balance),
                     T("test_cpu_serial_off_on", irq_test_cpu_serial_off_on),
                     T("test_smt_toggle", irq_test_smt_toggle),
                     T("test_taskset", irq_test_taskset(d)) >>,
        keeps |-> kept, leaves |-> kept \cup {"cpu_smt"},
        unreported |-> {"test_irq_balance", "test_cpu_serial_off_on", "test_taskset"}]

(***************************************************************************)
(* io/net/htx_nic_devices.py: start, check, stop.  There is no tearDown.   *)
(***************************************************************************)
htx_parameters == << Run("error"), Run("cancel"), Run("error") >>
htx_get_peer_distro         == << Run("error"), Run("fail") >>
htx_get_peer_distro_version == << Run("error") >>

\* On a distribution setUp does not name, the command is not bound.
htx_setUp(t) ==
    << Run("cancel"), Call(htx_parameters), Run("cancel"), Run("error"),
       Choose(<< >>, << Raise("error") >>),
       Change("firewall", "cancel"), Change("peer_firewall", "cancel") >>
    \o (IF t = "start" THEN << Change("ip", "ignore"), Change("peer_ip", "ignore") >>
        ELSE << >>)
    \o << Call(htx_get_peer_distro), Call(htx_get_peer_distro_version) >>

\* Old packages go, whatever rpm says, and a new one is downloaded and
\* installed on both machines.
htx_build_htx ==
    << Run("cancel"), Run("cancel"), Run("cancel"),
       May(<< Change("rpm", "ignore"), Run("error") >>),
       May(<< Change("peer_rpm", "ignore") >>),
       Run("error"), Change("rpm", "cancel"), Run("cancel"), Change("peer_rpm", "cancel") >>

\* build_net starts the daemon too; the loop of three attempts makes none.
htx_htx_configuration == << Change("daemon", "ignore"), Run("fail") >>

htx_start_htx_run ==
    << May(<< Run("ignore") >>), Change("daemon", "error"), Change("peer_daemon", "ignore") >>
htx_run_htx == << Call(htx_start_htx_run) >>

\* A failed query of the peer is logged by joining a result object.
htx_monitor_htx_run ==
    << Run("ignore"), Run("error"), Run("fail"), Run("ignore"), Run("fail"),
       Run("ignore"), Run("error") >>

htx_shutdown_htx_daemon ==
    << Run("ignore"), IfChanged("daemon", << Restore("daemon", "ignore") >>, << >>),
       Run("error"), Run("error"),
       IfChanged("peer_daemon", << Restore("peer_daemon", "ignore") >>, << >>) >>

\* The addresses are flushed once more, not set.
htx_ip_restore_host == << Change("ip", "error"), Run("error") >>
htx_ip_restore_peer == << Change("peer_ip", "error"), Run("error") >>

htx_htx_cleanup ==
    << Call(htx_shutdown_htx_daemon), Call(htx_ip_restore_host),
       Call(htx_ip_restore_peer), Run("error") >>

htx_test_start == << Call(htx_build_htx), Call(htx_htx_configuration), Call(htx_run_htx) >>
htx_test_check == << Call(htx_monitor_htx_run) >>
htx_test_stop  == << Call(htx_htx_cleanup) >>

HtxJob ==
    LET kept == {"firewall", "peer_firewall", "ip", "peer_ip", "rpm", "peer_rpm",
                 "daemon", "peer_daemon"}
    IN [tests |-> << Test("test_start", htx_setUp("start"), htx_test_start, << >>),
                     Test("test_check", htx_setUp("check"), htx_test_check, << >>),
                     Test("test_stop", htx_setUp("stop"), htx_test_stop, << >>) >>,
        keeps |-> kept, leaves |-> kept,
        unreported |-> {}]

(***************************************************************************)
(* io/net/vlan_test.py                                                     *)
(***************************************************************************)

\* The command is sent and its answer read, cut at its ends (an empty one is
\* an error) and not looked at.
vlan__send_only_result == << Run("error") >>
vlan_run_switch_command(s) ==
    << IfSet("tnc", << >>, << Raise("fail") >>), Use("remote_conn"), s,
       Call(vlan__send_only_result) >>

VlanSend(s) == Call(vlan_run_switch_command(s))

\* Native VLAN 1 is what the ports are taken to have had.
vlan_set_vlan_port(v, port) ==
    << VlanSend(Run("ignore")), VlanSend(Run("ignore")),
       VlanSend(Change("mode", "ignore")),
       VlanSend(IF v = 1 THEN Restore(port, "ignore") ELSE Change(port, "ignore")),
       IfSet("test_type", << VlanSend(Change("tag", "ignore")) >>,
                          << VlanSend(Restore("tag", "ignore")) >>),
       VlanSend(Run("ignore")) >>

vlan_vlan_port_conf(h, p) ==
    << VlanSend(Run("ignore")), Call(vlan_set_vlan_port(h, "host_vlan")),
       Call(vlan_set_vlan_port(p, "peer_vlan")) >>

vlan_parameters ==
    << Run("error"), Run("cancel"), Assign("host_intf"), Run("cancel") >>
vlan_switch_login ==
    << Assign("tnc"), Run("error"), Assign("remote_conn"), Run("error") >>
vlan_get_ips == << Run("ignore"), Run("error") >>

vlan_setUp ==
    << Call(vlan_parameters), Call(vlan_switch_login), Assign("session"),
       Run("cancel"), Call(vlan_get_ips) >>

vlan_ping_check_host == << Run("fail") >>
vlan_ping_check_peer == << Run("fail") >>
VlanPings == << Call(vlan_ping_check_host), Call(vlan_ping_check_peer) >>

vlan_run_host_command(s) == << Try(<< s >>, Errors, << Raise("fail") >>) >>
VlanHost(s) == Call(vlan_run_host_command(s))

vlan_conf_host_vlan_intf ==
    << VlanHost(Change("ip", "error")), VlanHost(Change("link", "error")),
       VlanHost(Run("error")) >>
vlan_conf_peer_vlan_intf ==
    << Change("peer_ip", "ignore"), Change("peer_link", "ignore"), Run("ignore") >>

\* The interface is deleted first, and must be there.
vlan_restore_host_intf ==
    << IfChanged("link", << VlanHost(Restore("link", "error")) >>, << Raise("fail") >>),
       VlanHost(Run("error")), VlanHost(Restore("ip", "error")) >>
vlan_restore_peer_intf ==
    << Restore("peer_link", "ignore"), Run("ignore"), Restore("peer_ip", "ignore") >>

vlan_test_default_vlan1 == << Call(vlan_vlan_port_conf(1, 1)) >> \o VlanPings
vlan_test_vlan_1_2230   == << Call(vlan_vlan_port_conf(1, 2230)) >> \o VlanPings
vlan_test_vlan_id ==
    << Assign("test_type"), Call(vlan_vlan_port_conf(2, 2)),
       Call(vlan_conf_host_vlan_intf), Call(vlan_conf_peer_vlan_intf) >> \o VlanPings

vlan_peer_logout == << Use("session"), Run("error") >>

vlan_tearDown ==
    << IfSet("host_intf",
             << Call(vlan_vlan_port_conf(1, 1)),
                IfSet("test_type",
                      << VlanSend(Restore("tag", "ignore")),
                         Call(vlan_restore_host_intf), Call(vlan_restore_peer_intf) >>,
                      << >>),
                Call(vlan_peer_logout) >>,
             << >>) >>

VlanJob ==
    [tests |-> << Test("test_default_vlan1", vlan_setUp, vlan_test_default_vlan1, vlan_tearDown),
                  Test("test_vlan_1_2230", vlan_setUp, vlan_test_vlan_1_2230, vlan_tearDown),
                  Test("test_vlan_id", vlan_setUp, vlan_test_vlan_id, vlan_tearDown) >>,
     keeps |-> {"mode", "tag", "host_vlan", "peer_vlan", "peer_ip", "peer_link"},
     leaves |-> {"mode", "tag", "host_vlan", "peer_vlan", "ip", "link", "peer_ip", "peer_link"},
     unreported |-> {}]

(***************************************************************************)
(* io/net/virt-net/lpm.py                                                  *)
(***************************************************************************)
lpm_install_packages   == << Run("cancel") >>
lpm_get_mcp_component  == << Run("cancel") >>
lpm_get_partition_name == << Run("cancel") >>
lpm_rsct_service_start == << Change("rsct", "error"), Run("fail") >>
lpm_set_msp            == << Change("msp", "ignore") >>
lpm_get_lpar_id        == << Run("ignore") >>
lpm_get_adapter_id     == << Run("ignore") >>

\* The partition is, or is not, on the server it was found on.
lpm_is_lpar_in_server(back, k) ==
    << IF back THEN IfChanged("location", << >>, << Raise(k) >>)
               ELSE IfChanged("location", << Raise(k) >>, << >>) >>

lpm_setUp(back) ==
    << Call(lpm_install_packages), Call(lpm_rsct_service_start),
       Call(lpm_get_mcp_component), Call(lpm_get_partition_name),
       Call(lpm_get_mcp_component), Assign("session"), Run("cancel"), Run("cancel"),
       Run("cancel"), Call(lpm_is_lpar_in_server(back, "cancel")),
       May(<< Run("cancel"), Run("error"), Call(lpm_get_lpar_id), Call(lpm_set_msp),
              Call(lpm_get_adapter_id) >>),
       Run("error") >>

lpm_is_RMC_active == << Run("ignore") >>

\* wait_for is given the answer, which it cannot call.
lpm_rmc_service_start == << Run("error"), Call(lpm_is_RMC_active), Raise("error") >>

lpm_do_migrate(back) ==
    << Call(lpm_is_RMC_active), May(<< Call(lpm_rmc_service_start) >>),
       IF back THEN Restore("location", "ignore") ELSE Change("location", "ignore"),
       Call(lpm_is_lpar_in_server(~back, "fail")) >>

lpm_form_virt_net_options == << Run("error") >>
lpm_check_dmesg_error     == << Run("fail") >>

lpm_test_migrate ==
    << May(<< Call(lpm_form_virt_net_options) >>), Call(lpm_do_migrate(FALSE)),
       Call(lpm_check_dmesg_error) >>
lpm_test_migrate_back ==
    << May(<< Call(lpm_form_virt_net_options) >>), Call(lpm_do_migrate(TRUE)),
       Call(lpm_check_dmesg_error) >>

lpm_tearDown == << Use("session"), Run("error") >>

LpmJob ==
    [tests |-> << Test("test_migrate", lpm_setUp(FALSE), lpm_test_migrate, lpm_tearDown),
                  Test("test_migrate_back", lpm_setUp(TRUE), lpm_test_migrate_back,
                       lpm_tearDown) >>,
     keeps |-> {"rsct", "msp"}, leaves |-> {"rsct", "msp", "location"}, unreported |-> {}]
================================================================================
