------------------------------- MODULE BondTests ------------------------------
(***************************************************************************)
(* The bonding tests: io/net/bonding.py (sysfs), io/net/nmcli_bonding.py   *)
(* (NetworkManager) and io/net/hnv_bond_failover.py (a bond that is there  *)
(* before the job).  Each of the first two is a job of three tests: build  *)
(* the bond, fail its members over, take it down.  peer tells whether the  *)
(* peer machine gets a bond too (peer_bond_needed).                        *)
(*                                                                         *)
(* Resources: bond and peer_bond, the bond devices; ip and peer_ip, the    *)
(* addresses of the interfaces and their saved configuration; link, an     *)
(* interface is down; mtu, peer_mtu; route, the default route.  The MTU of *)
(* the bond goes with the bond.                                            *)
(***************************************************************************)
EXTENDS Statements

(***************************************************************************)
(* io/net/bonding.py                                                       *)
(***************************************************************************)

\* The local address and netmask of the bond, or of the first interface
\* before there is a bond: without a bond test_run and test_cleanup end here.
bonding_setup_ip(t) ==
    << Run("error"), Run("fail") >>
    \o (IF t = "setup" THEN << Run("error") >>
        ELSE << IfChanged("bond", << >>, << Raise("error") >>) >>)
    \o << Run("error") >>

bonding_setUp(t, peer) ==
    << Run("cancel"), Run("cancel") >>
    \o (IF t = "setup"
        THEN << Try(<< Change("ip", "error"), Run("error") >>, Any,
                    << Change("ip", "error") >>), Run("error") >>
             \o (IF peer
                 THEN << Run("error"),
                         Try(<< Change("peer_ip", "error"), Run("error") >>, Any,
                             << Change("peer_ip", "error") >>), Run("error") >>
                 ELSE << >>)
        ELSE << >>)
    \o (IF t = "cleanup" THEN << IfChanged("bond", << Run("ignore") >>, << >>) >>
        ELSE << >>)
    \o << Assign("session"), Run("cancel"), Call(bonding_setup_ip(t)), Run("error") >>
    \o (IF t = "setup" THEN << Change("peer_mtu", "cancel"), Change("mtu", "cancel") >>
        ELSE << >>)

\* Attach or remove an InfiniBand interface.
bonding_bond_ib_conf == << Run("fail"), Run("fail") >>

\* The members are down while they leave the bond; on the peer it is one
\* command line whose status is only logged.
bonding_bond_remove(where) ==
    IF where = "local"
    THEN << Change("link", "ignore"),
            Choose(<< Call(bonding_bond_ib_conf) >>, << Run("error") >>),
            Restore("bond", "error"), Run("ignore") >>
    ELSE << May(<< Call(bonding_bond_ib_conf) >>),
            Restore("peer_bond", "ignore") >>

bonding_ping_check(w) == << Run(w) >>

bonding_is_vnic == << Run("error") >>

\* Members down one at a time, then all of them, then every MTU.
bonding_bond_fail ==
    << May(<< Change("link", "fail"), Call(bonding_ping_check("note")),
              Restore("link", "fail") >>),
       Change("link", "fail"), Call(bonding_ping_check("ignore")),
       Restore("link", "fail"), Call(bonding_is_vnic),
       Run("cancel"), Change("peer_mtu", "cancel"),
       Call(bonding_ping_check("fail")),
       Run("cancel"), Restore("peer_mtu", "cancel") >>

bonding_bond_setup(where) ==
    IF where = "local"
    THEN << Change("ip", "error"), Change("link", "ignore"), Run("ignore"),
            Change("bond", "error"), Run("error"),
            Choose(<< Call(bonding_bond_ib_conf) >>, << Run("error") >>),
            Restore("link", "fail"), Run("ignore"), Run("fail"),
            May(<< Change("route", "ignore") >>) >>
    ELSE << Change("peer_ip", "error"), May(<< Call(bonding_bond_ib_conf) >>),
            Change("peer_bond", "fail") >>

bonding_error_check == << Report("fail") >>

\* The ping over the new bond is made and its result is not looked at.
bonding_test_setup(peer) ==
    << IfChanged("peer_bond", << Raise("fail") >>, << >>),
       IfChanged("bond", << Raise("fail") >>, << >>) >>
    \o (IF peer THEN << Call(bonding_bond_setup("peer")) >> ELSE << >>)
    \o << Call(bonding_bond_setup("local")), Call(bonding_ping_check("drop")),
          Call(bonding_error_check) >>

bonding_test_run == << Call(bonding_bond_fail), Call(bonding_error_check) >>

\* For the peer interface it is the host's backup that is restored.
bonding_test_cleanup(peer) ==
    << Call(bonding_bond_remove("local")),
       IfChanged("route", << Restore("route", "ignore") >>, << >>),
       Try(<< Run("error"), Restore("ip", "error"), Restore("link", "error") >>,
           Any, << Raise("fail") >>),
       Restore("mtu", "cancel") >>
    \o (IF peer THEN << Call(bonding_bond_remove("peer")), Run("error"),
                        Try(<< Change("peer_ip", "error"), Restore("ip", "error"),
                               Run("error") >>, Any, << Run("error") >>) >>
        ELSE << >>)
    \o << Call(bonding_error_check), Run("fail"),
          Try(<< Restore("peer_mtu", "error"), Run("error") >>, Any, << >>) >>

bonding_tearDown == << Use("session"), Run("error") >>

(***************************************************************************)
(* io/net/nmcli_bonding.py                                                 *)
(***************************************************************************)

\* The attributes that tearDown asks for come first.
nmcli_setUp(t, peer) ==
    << Run("cancel"), Run("cancel") >>
    \o (IF t = "setup" THEN << Change("ip", "ignore") >> ELSE << >>)
    \o << Run("cancel"), Run("cancel"), Run("cancel"), Assign("peer_bond_needed") >>
    \o (IF t = "setup" /\ peer
        THEN << Run("error"), Change("peer_ip", "ignore") >> ELSE << >>)
    \o (IF t = "setup" THEN << Run("cancel") >>
        ELSE << IfChanged("bond", << >>, << Raise("cancel") >>) >>)
    \o << Assign("session"), Run("cancel"), Run("error") >>

\* Every nmcli command on the host is made with ignore_status: only the
\* check that the device is listed can stop the local setup.
nmcli_nmcli_bond_setup(where) ==
    IF where = "local"
    THEN << Change("bond", "ignore"), Change("link", "ignore"), Run("ignore"),
            IfChanged("bond", << Run("fail") >>, << Raise("fail") >>),
            Run("ignore"), Run("ignore"), Assign("networkinterface"),
            Assign("bond_created") >>
    ELSE << Change("peer_bond", "fail"), Assign("peer_bond_created") >>

nmcli_test_bond_setup(peer) ==
    (IF peer THEN << Call(nmcli_nmcli_bond_setup("peer")) >> ELSE << >>)
    \o << Call(nmcli_nmcli_bond_setup("local")), Use("networkinterface"),
          Run("fail"), Assign("test_passed") >>

nmcli_get_bond_status == << Run("ignore") >>

nmcli_is_vnic == << Run("ignore") >>

nmcli_ping_check(w) == << Run(w) >>

nmcli_error_check == << Report("fail") >>

nmcli_bond_mtu_test ==
    << Call(nmcli_is_vnic), Run("cancel"),
       Change("peer_mtu", "cancel"), Call(nmcli_ping_check("fail")),
       Run("cancel"), Restore("peer_mtu", "cancel") >>

nmcli_test_bond_failover ==
    << May(<< Change("link", "ignore"), Call(nmcli_get_bond_status),
              Call(nmcli_ping_check("note")), Restore("link", "ignore") >>),
       Change("link", "ignore"), Call(nmcli_ping_check("ignore")),
       Call(nmcli_get_bond_status), Restore("link", "ignore"),
       Call(nmcli_bond_mtu_test), Call(nmcli_error_check), Assign("test_passed") >>

nmcli_nmcli_bond_cleanup(where) ==
    IF where = "local"
    THEN << Run("ignore"), Restore("bond", "ignore"), Run("ignore") >>
    ELSE << Restore("peer_bond", "ignore") >>

nmcli_test_bond_cleanup(peer) ==
    << Call(nmcli_nmcli_bond_cleanup("local")),
       Try(<< Restore("ip", "error"), Restore("link", "error") >>, Any,
           << Raise("fail") >>) >>
    \o (IF peer THEN << Call(nmcli_nmcli_bond_cleanup("peer")), Run("error"),
                        Try(<< Restore("peer_ip", "error"), Run("error"),
                               Restore("peer_mtu", "error") >>,
                            Any, << Raise("fail") >>), Run("error") >>
        ELSE << >>)
    \o << Assign("test_passed") >>

nmcli__cleanup_local_bond ==
    << IfChanged("bond", << >>, << IfSet("bond_created", << >>, << Return >>) >>),
       Run("ignore"), Restore("bond", "ignore"), Run("ignore"),
       Try(<< Restore("ip", "error"), Restore("link", "error") >>, Any, << >>) >>

\* Only a test that built the peer's bond itself takes it down here.
nmcli__cleanup_peer_bond ==
    << IfSet("peer_bond_created", << >>, << Return >>),
       Restore("peer_bond", "ignore"),
       Try(<< Restore("peer_ip", "error"), Run("error"),
              Restore("peer_mtu", "error") >>, Any, << >>) >>

nmcli_tearDown(t, peer) ==
    LET cleanup == << Call(nmcli__cleanup_local_bond) >>
                   \o (IF peer THEN << IfSet("peer_bond_needed",
                                    << Call(nmcli__cleanup_peer_bond) >>, << >>) >>
                       ELSE << >>)
    IN (CASE t = "cleanup"  -> cleanup
          [] t = "setup"    -> << IfSet("test_passed", << >>, cleanup) >>
          [] t = "failover" -> << >>)
       \o << IfSet("session", << Run("ignore") >>, << >>) >>

(***************************************************************************)
(* io/net/hnv_bond_failover.py.  down1 and down2: a member of the bond is  *)
(* down; tearDown knows the members from self.slaves.                      *)
(***************************************************************************)
hnv__get_bond_slaves   == << Run("ignore") >>
hnv__get_active_slave  == << Run("ignore") >>
hnv__get_interface_state == << Run("ignore") >>
hnv__set_interface_down(r, w) == << Change(r, w) >>
hnv__set_interface_up(r, w)   == << Restore(r, w) >>

\* self.fail is called here: the caller's own reaction is never reached.
hnv__ping_test == << Run("fail") >>

hnv__wait_for_failover(w) == << Run(w) >>

hnv_setUp ==
    << Run("cancel"), Run("cancel"), Call(hnv__get_bond_slaves), Assign("slaves"),
       Run("cancel"), Call(hnv__get_active_slave), Run("cancel"),
       Call(hnv__get_interface_state), Assign("initial_slave_states"),
       IfChanged("down1", << Assign("found_down1") >>, << >>),
       IfChanged("down2", << Assign("found_down2") >>, << >>),
       Call(hnv__ping_test) >>

hnv_test_bond_config_validation ==
    << Run("fail"), Call(hnv__get_active_slave), Run("fail"), Run("fail") >>

\* self.error ends the test: the member is then left to tearDown.
hnv_test_failover_slave1_down ==
    << Call(hnv__get_active_slave), Call(hnv__set_interface_down("down1", "fail")),
       May(<< Call(hnv__wait_for_failover("fail")) >>), Call(hnv__ping_test),
       Call(hnv__set_interface_up("down1", "error")) >>

hnv_test_failover_slave2_down ==
    << Call(hnv__get_active_slave), Call(hnv__set_interface_down("down2", "fail")),
       May(<< Call(hnv__wait_for_failover("fail")) >>), Call(hnv__ping_test),
       Call(hnv__set_interface_up("down2", "error")) >>

\* A member is brought up when its state differs from the one setUp recorded:
\* a member that an earlier test left down is not touched (found_down1,
\* found_down2).  original_state == "up" or "unknown" is always true, so no
\* member is ever taken down again.
hnv_tearDown ==
    << Use("slaves"), Use("initial_slave_states"), Call(hnv__get_interface_state),
       IfSet("found_down1", << >>, << Call(hnv__set_interface_up("down1", "ignore")) >>),
       IfSet("found_down2", << >>, << Call(hnv__set_interface_up("down2", "ignore")) >>),
       Call(hnv__ping_test), Call(hnv__get_bond_slaves) >>

(***************************************************************************)
(* The jobs.  keeps: what a job whose tests all pass leaves changed;       *)
(* leaves: what any job leaves; unreported: the tests that can pass with a *)
(* check that went wrong.                                                  *)
(***************************************************************************)
BondingJob(peer) ==
    [tests |-> << Test("test_setup", bonding_setUp("setup", peer),
                       bonding_test_setup(peer), bonding_tearDown),
                  Test("test_run", bonding_setUp("run", peer),
                       bonding_test_run, bonding_tearDown),
                  Test("test_cleanup", bonding_setUp("cleanup", peer),
                       bonding_test_cleanup(peer), bonding_tearDown) >>,
     keeps |-> {"route"} \cup (IF peer THEN {"peer_bond", "peer_ip"} ELSE {}),
     leaves |-> {"bond", "ip", "link", "mtu", "peer_mtu", "route"}
                \cup (IF peer THEN {"peer_bond", "peer_ip"} ELSE {}),
     unreported |-> {"test_setup"}]

NmcliJob(peer) ==
    [tests |-> << Test("test_bond_setup", nmcli_setUp("setup", peer),
                       nmcli_test_bond_setup(peer), nmcli_tearDown("setup", peer)),
                  Test("test_bond_failover", nmcli_setUp("failover", peer),
                       nmcli_test_bond_failover, nmcli_tearDown("failover", peer)),
                  Test("test_bond_cleanup", nmcli_setUp("cleanup", peer),
                       nmcli_test_bond_cleanup(peer), nmcli_tearDown("cleanup", peer)) >>,
     keeps |-> {"bond"} \cup (IF peer THEN {"peer_bond"} ELSE {}),
     leaves |-> {"ip", "link", "peer_mtu"}
                \cup (IF peer THEN {"peer_bond", "peer_ip"} ELSE {}),
     unreported |-> {}]

HnvJob ==
    [tests |-> << Test("test_bond_config_validation", hnv_setUp,
                       hnv_test_bond_config_validation, hnv_tearDown),
                  Test("test_failover_slave1_down", hnv_setUp,
                       hnv_test_failover_slave1_down, hnv_tearDown),
                  Test("test_failover_slave2_down", hnv_setUp,
                       hnv_test_failover_slave2_down, hnv_tearDown) >>,
     keeps |-> {}, leaves |-> {}, unreported |-> {}]
================================================================================
