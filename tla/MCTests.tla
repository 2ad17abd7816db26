------------------------------- MODULE MCTests --------------------------------
(***************************************************************************)
(* The jobs, one per file of tests; the tests of the largest files are     *)
(* split into several jobs.                                                *)
(***************************************************************************)
EXTENDS RuleWitnesses, BondTests, VirtNetTests, StorageTests, CpuTests, MemTests,
        NdctlTests, PciTests, RasTests, KernelTests, DiskTests, NicTests

AllJobs ==
    [bonding |-> BondingJob(FALSE), bonding_peer |-> BondingJob(TRUE),
     nmcli |-> NmcliJob(FALSE), nmcli_peer |-> NmcliJob(TRUE), hnv |-> HnvJob,
     netvirt_backing |-> NetvirtJob(NetvirtBacking, {}, {"backing"}),
     netvirt_failover |-> NetvirtJob(NetvirtFailover, {"active", "auto"},
                                     {"active", "auto", "priority"}),
     netvirt_outage |-> NetvirtJob(NetvirtOutage, {}, {"disabled", "vios_dev"}),
     netvirt_errors |-> NetvirtJob(NetvirtErrors, {"active"}, {"active"}),
     sriov |-> SriovJob("plain"),
     sriov_max |-> SriovJob("max"), sriov_migratable |-> SriovJob("migratable"),
     fsnfs |-> FsnfsJob,
     nvmetcp |-> NvmetcpJob, nvme |-> NvmeJob, sraid |-> SraidJob,
     vfc |-> VfcJob, mpath |-> MpathJob(TRUE, {"bkp"}),
     mpath_new |-> MpathJob(FALSE, {"bkp", "conf", "lost"}), bounce |-> BounceJob,
     ppccpu_basic |-> PpccpuBasicJob, ppccpu_stress |-> PpccpuStressJob,
     sched |-> SchedJob, cpudie |-> CpudieJob, cpuhp |-> CpuhpJob,
     ebizzy |-> EbizzyJob, numactl |-> NumactlJob, memhp |-> MemhpJob, thp |-> ThpJob,
     stressmem |-> StressmemJob, hugetlb |-> HugetlbJob,
     ndctl_lists |-> NdctlListsJob, ndctl_namespaces |-> NdctlNamespacesJob,
     ndctl_many |-> NdctlManyJob, ndctl_blocks |-> NdctlBlocksJob,
     ndctl_writes |-> NdctlWritesJob, ndctl_aligned |-> NdctlAlignedJob,
     pcidlpar |-> PcidlparJob, eeh |-> EehJob, hotpci |-> HotpciJob,
     lsvpd |-> LsvpdJob, ppcutils |-> PpcutilsJob, ppcutils_more |-> PpcutilsMoreJob,
     sos |-> SosJob, sos_host |-> SosHostJob,
     fgret |-> FgretJob, qspin |-> QspinJob, xfs |-> XfsJob,
     fiotest |-> FiotestJob, ltpfs |-> LtpfsJob, fsstress |-> FsstressJob,
     bonnie |-> BonnieJob, tiobench |-> TiobenchJob, fsmark |-> FsmarkJob,
     disktest |-> DisktestJob, iozone |-> IozoneJob,
     irq |-> IrqJob("net"), irq_disk |-> IrqJob("disk"), htx |-> HtxJob,
     vlan |-> VlanJob, lpm |-> LpmJob]

(***************************************************************************)
(* The rules of TestRules that the files keep, so that the theorems of     *)
(* TestJobProofs are about them.  The jobs named satisfy the properties as *)
(* well, as the run shows, for reasons a rule does not see.                *)
(***************************************************************************)
ASSUME PassRuleKept ==
    \A j \in DOMAIN AllJobs \ {"fgret", "mpath", "numactl", "ppccpu_basic", "ppccpu_stress",
                              "qspin", "xfs"} :
        KeepsPassRule(AllJobs[j])

ASSUME ReportRuleKept ==
    \A j \in DOMAIN AllJobs \ {"sos_host", "vfc"} : KeepsReportRule(AllJobs[j])

ASSUME FailureRuleKept ==
    \A j \in DOMAIN AllJobs \ {"fgret", "hnv", "mpath", "ndctl_writes", "netvirt_outage",
                              "nmcli", "nmcli_peer", "numactl", "qspin", "sraid", "sriov",
                              "sriov_max"} :
        KeepsFailureRule(AllJobs[j])
================================================================================
