------------------------------- MODULE PciTests -------------------------------
(***************************************************************************)
(* Tests of PCI adapters: dynamic removal and addition by the management   *)
(* console (io/pci/dlpar.py), error injection (io/pci/EEH.py) and hotplug  *)
(* of a slot (io/pci/pci_hotplug.py).                                      *)
(***************************************************************************)
EXTENDS Statements

(***************************************************************************)
(* io/pci/dlpar.py.  Resources: rsct (the services), lockdown (of the      *)
(* kernel, which cannot be taken back), slot (the adapter is taken from    *)
(* the partition), moved (it is in the other partition).  tearDown knows   *)
(* nothing of the adapter: what a failed step took away stays away.        *)
(***************************************************************************)
pcidlpar_install_packages == << Run("cancel") >>
pcidlpar_rsct_service_start == << Change("rsct", "cancel"), Run("cancel"), Run("cancel") >>
pcidlpar_get_mcp_component  == << Run("cancel") >>
pcidlpar_get_partition_name == << Run("cancel") >>
pcidlpar_check_lockdown_support == << Run("fail") >>
pcidlpar_get_lockdown_state(other) == << Run("ignore"), May(other) >>
\* No support, a write refused and a mode that did not take all give False,
\* which setUp turns into a failure.
pcidlpar_set_lockdown_mode ==
    << Call(pcidlpar_check_lockdown_support), Call(pcidlpar_get_lockdown_state(<< >>)),
       Change("lockdown", "fail"), Run("fail") >>
pcidlpar_setUp ==
    << Clear("session"), Call(pcidlpar_install_packages), Call(pcidlpar_rsct_service_start),
       Call(pcidlpar_get_mcp_component), Call(pcidlpar_get_partition_name),
       Assign("session"), Run("cancel"), Run("cancel"),
       May(<< Call(pcidlpar_get_lockdown_state(<< Call(pcidlpar_set_lockdown_mode) >>)) >>) >>
\* The console's list of slots, and the line of this adapter, looked up anew
\* before and after every operation.
pcidlpar_set_adapter_details ==
    << May(<< Run("cancel") >>), Run("cancel"), Run("error"),
       Choose(<< Run("cancel") >>, << Run("cancel") >>), Run("ignore") >>
pcidlpar_listhwres       == << Run("fail") >>
pcidlpar_listhwres_sriov == << Run("fail") >>
pcidlpar_changehwres(s)       == << s >>
pcidlpar_changehwres_sriov(s) == << s >>
pcidlpar_dlpar_remove ==
    << Choose(<< Call(pcidlpar_changehwres_sriov(Change("slot", "fail"))),
                 Call(pcidlpar_listhwres_sriov) >>,
              << Call(pcidlpar_changehwres(Change("slot", "fail"))),
                 Call(pcidlpar_listhwres) >>),
       Run("fail") >>
pcidlpar_dlpar_add ==
    << Choose(<< Call(pcidlpar_changehwres_sriov(Restore("slot", "fail"))),
                 Call(pcidlpar_listhwres_sriov) >>,
              << Call(pcidlpar_changehwres(Restore("slot", "fail"))),
                 Call(pcidlpar_listhwres) >>),
       Run("fail") >>
pcidlpar_dlpar_move ==
    << May(<< Return >>),
       Call(pcidlpar_changehwres(Change("moved", "fail"))),
       Call(pcidlpar_listhwres), Run("fail"), Call(pcidlpar_listhwres), Run("fail"),
       Call(pcidlpar_changehwres(Restore("moved", "fail"))),
       Call(pcidlpar_listhwres), Run("fail"), Call(pcidlpar_listhwres), Run("fail") >>
pcidlpar_validation_in_os == << Run("fail"), May(<< Run("fail") >>) >>
pcidlpar_do_drmgr_pci(s) == << s >>
pcidlpar_do_drmgr_phb(s) == << s >>

pcidlpar_test_dlpar ==
    << Call(pcidlpar_set_adapter_details), Call(pcidlpar_dlpar_remove),
       Call(pcidlpar_dlpar_add), Call(pcidlpar_set_adapter_details),
       Call(pcidlpar_validation_in_os), Call(pcidlpar_dlpar_move) >>
pcidlpar_test_drmgr_pci ==
    << May(<< Raise("cancel") >>), Call(pcidlpar_set_adapter_details),
       Call(pcidlpar_do_drmgr_pci(Change("slot", "fail"))),
       Call(pcidlpar_do_drmgr_pci(Restore("slot", "fail"))),
       Call(pcidlpar_set_adapter_details), Call(pcidlpar_validation_in_os),
       Call(pcidlpar_do_drmgr_pci(Run("fail"))),
       Call(pcidlpar_set_adapter_details), Call(pcidlpar_validation_in_os) >>
pcidlpar_test_drmgr_phb ==
    << Call(pcidlpar_set_adapter_details),
       Call(pcidlpar_do_drmgr_phb(Change("slot", "fail"))),
       Call(pcidlpar_do_drmgr_phb(Restore("slot", "fail"))),
       Call(pcidlpar_set_adapter_details), Call(pcidlpar_validation_in_os) >>
pcidlpar_tearDown == << IfSet("session", << Run("ignore") >>, << >>) >>

PcidlparTest(n, m) == Test(n, pcidlpar_setUp, m, pcidlpar_tearDown)
PcidlparJob ==
    [tests |-> << PcidlparTest("test_dlpar", pcidlpar_test_dlpar),
                  PcidlparTest("test_drmgr_pci", pcidlpar_test_drmgr_pci),
                  PcidlparTest("test_drmgr_phb", pcidlpar_test_drmgr_phb) >>,
     keeps |-> {"rsct", "lockdown"},
     leaves |-> {"rsct", "lockdown", "slot", "moved"}, unreported |-> {}]

(***************************************************************************)
(* io/pci/EEH.py.  Resources: ip (of the interface, never removed: there   *)
(* is no tearDown), max_freezes, ping (a flood in the background).  The    *)
(* attribute pci_class_name is set on a partition only, and networkinter-  *)
(* face and localhost only when an address is given.                       *)
(***************************************************************************)
eeh_is_baremetal == << Run("error") >>
eeh_setUp ==
    << Run("cancel"), Run("cancel"), Run("cancel"), Run("cancel"), Run("error"),
       May(<< Run("error"), Assign("localhost"), Run("cancel"),
              Assign("networkinterface"), Run("cancel"),
              Try(<< Change("ip", "error"), Run("error") >>, Any, << Run("error") >>),
              Run("error"), Run("cancel") >>),
       Call(eeh_is_baremetal),
       Choose(<< Change("max_freezes", "ignore"), Run("error") >>,
              << Assign("pci_class_name"), Run("error") >>) >>
eeh_error_inject == << Call(eeh_is_baremetal), Run("ignore") >>
eeh_check_eeh_hit(miss) == << Choose(<< >>, miss) >>
eeh_check_eeh_pe_recovery == << Run("error"), Run("fail") >>
eeh_check_eeh_removed == << Run("fail") >>
eeh_net_recovery_check == << Run("fail") >>
eeh_get_bus_address_from_journalctl == << Run("fail") >>
\* It returns before the loop that ends the flood.  What the injection
\* returns is not used; whether there was a hit is read from the log.
eeh_basic_eeh(miss) ==
    << Run("error"), Use("pci_class_name"),
       May(<< Use("networkinterface"), Change("ping", "error") >>),
       Call(eeh_is_baremetal), Call(eeh_error_inject), Call(eeh_check_eeh_hit(miss)) >>
\* Five misses end the test as if all were well; after the last hit the
\* adapter must be gone.
eeh_test_eeh_basic_pe ==
    << Run("ignore"), Call(eeh_is_baremetal),
       Call(eeh_basic_eeh(<< Run("drop"), Assign("five_misses") >>)),
       IfSet("five_misses", << Return >>, << >>),
       Call(eeh_check_eeh_pe_recovery), May(<< Call(eeh_net_recovery_check) >>),
       May(<< Run("fail") >>), Call(eeh_check_eeh_removed) >>
eeh_test_eeh_sriov ==
    << Run("fail"), Call(eeh_get_bus_address_from_journalctl),
       May(<< Use("localhost"), Change("ping", "error") >>), Run("error"),
       Run("ignore"), Restore("ping", "error"),
       Call(eeh_check_eeh_hit(<< Raise("fail") >>)), Call(eeh_check_eeh_pe_recovery),
       Use("localhost"), Run("fail"), May(<< Call(eeh_net_recovery_check) >>) >>
EehTest(n, m) == Test(n, eeh_setUp, m, << >>)
EehJob ==
    [tests |-> << EehTest("test_eeh_sriov", eeh_test_eeh_sriov),
                  EehTest("test_eeh_basic_pe", eeh_test_eeh_basic_pe) >>,
     keeps |-> {"ip", "max_freezes", "ping"},
     leaves |-> {"ip", "max_freezes", "ping"}, unreported |-> {"test_eeh_basic_pe"}]

(***************************************************************************)
(* io/pci/pci_hotplug.py.  Resources: modules (loaded), lockdown, slot     *)
(* (without power).  There is no tearDown.                                 *)
(***************************************************************************)
hotpci_nvme_splitter_slot == << Run("cancel") >>
hotpci_check_lockdown_support == << Run("fail") >>
hotpci_get_lockdown_state(other) == << Run("ignore"), May(other) >>
hotpci_set_lockdown_mode ==
    << Call(hotpci_check_lockdown_support), Call(hotpci_get_lockdown_state(<< >>)),
       Change("lockdown", "fail"), Run("fail") >>
hotpci_setUp ==
    << Run("cancel"), Run("cancel"), Run("cancel"), May(<< Change("modules", "ignore") >>),
       Run("cancel"), Run("cancel"), Run("cancel"),
       Choose(<< Call(hotpci_nvme_splitter_slot) >>, << Run("cancel") >>),
       Run("error"), Run("cancel"),
       May(<< Call(hotpci_get_lockdown_state(<< Call(hotpci_set_lockdown_mode) >>)) >>) >>
hotpci_hotplug_remove == << Change("slot", "error"), Run("note") >>
hotpci_hotplug_add == << Restore("slot", "error"), Run("note"), May(<< Run("note") >>) >>
hotpci_test ==
    << Call(hotpci_hotplug_remove), Call(hotpci_hotplug_add), Report("fail") >>
HotpciJob ==
    [tests |-> << Test("test", hotpci_setUp, hotpci_test, << >>) >>,
     keeps |-> {"modules", "lockdown"}, leaves |-> {"modules", "lockdown"},
     unreported |-> {}]
================================================================================
