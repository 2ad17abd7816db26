------------------------------- MODULE DiskTests ------------------------------
(***************************************************************************)
(* Workloads on a disk: io/disk/fiotest.py, ltp_fs.py, ltp_fsstress.py,    *)
(* bonnie.py, tiobench.py, fs_mark.py, disktest.py and iozone.py.  Each    *)
(* builds a tool, builds a RAID, a logical volume and a file system on the *)
(* disk as its parameters say, runs the tool and takes everything down.    *)
(* All but iozone start by removing what an earlier test left on the disk. *)
(*                                                                         *)
(* Resources: raid, vg, lv, fs, mounted, on a disk that was empty.  The    *)
(* attributes fs_create, lv_create and raid_create are set once they are   *)
(* True.  A job runs the test twice, as two variants of its parameters.    *)
(***************************************************************************)
EXTENDS Statements

(***************************************************************************)
(* What the files have in common.                                          *)
(***************************************************************************)

\* err_mesg.append with two arguments is a TypeError (u, w = "error").  A
\* mount is undone through the device, then through the directory.
DeleteFs(u, w) ==
    << IfChanged("mounted", << Restore("mounted", u) >>, << >>),
       IfChanged("mounted", << Restore("mounted", u) >>, << >>),
       IfChanged("fs", << Restore("fs", w) >>, << >>) >>

\* lvremove and vgremove raise, or the volume is there after all.
DeleteLv ==
    << Choose(<< Restore("lv", "error") >>, << Restore("lv", "note") >>),
       Restore("vg", "error"), Run("ignore") >>

DeleteRaid == << Run("ignore"), Restore("raid", "note") >>

PreCleanup(delete_fs, delete_lv, delete_raid) ==
    << Call(delete_fs),
       IfChanged("lv", << Call(delete_lv) >>,
                 << IfChanged("vg", << Restore("vg", "error") >>, << >>) >>),
       IfChanged("raid", << Call(delete_raid) >>, << >>) >>

\* The status of SoftwareRaid.create is not looked at.
CreateRaid == << Change("raid", "ignore") >>
CreateLv == << Run("error"), Change("vg", "error"), Change("lv", "error") >>
CreateFs == << Run("error"), Change("fs", "error"), Change("mounted", "fail") >>

\* The flags are set after the method returned.
Build(create_raid, create_lv, create_fs) ==
    << May(<< Call(create_raid), Assign("raid_create") >>),
       May(<< Call(create_lv), Assign("lv_create") >>),
       May(<< Call(create_fs), Assign("fs_create") >>) >>

TakeDown(delete_fs, delete_lv, delete_raid) ==
    << IfSet("fs_create", << Call(delete_fs) >>, << >>),
       IfSet("lv_create", << Call(delete_lv) >>, << >>),
       IfSet("raid_create", << Call(delete_raid) >>, << >>), Run("ignore") >>

\* self.warn, which the Test class need not have.
Warn == << IfNoted(<< May(<< Raise("error") >>) >>, << >>) >>

\* A missing disk or package, or btrfs where there is none; the parameters
\* of the distribution are parsed as numbers.
Required == << Run("cancel"), May(<< Run("error"), Run("cancel") >>), Run("cancel") >>

\* A file system or a volume group whose making fails half way has no flag.
HalfMade == {"fs", "vg"}

\* A job: what was installed or made elsewhere stays; what could not be
\* deleted is only warned about, so a test that passes may keep it.
Twice(n, s, t, d, stays, warned, half) ==
    [tests |-> << Test(n, s, t, d), Test(n, s, t, d) >>, keeps |-> stays \cup warned,
     leaves |-> stays \cup half, unreported |-> {n}]

(***************************************************************************)
(* io/disk/fiotest.py.  More resources: region and namespace of an NVDIMM. *)
(***************************************************************************)
fiotest_delete_fs == DeleteFs("error", "error")
fiotest_delete_lv == DeleteLv
fiotest_delete_raid == DeleteRaid
fiotest_pre_cleanup == PreCleanup(fiotest_delete_fs, fiotest_delete_lv, fiotest_delete_raid)
fiotest_create_raid == CreateRaid
fiotest_create_lv == CreateLv
fiotest_create_fs == CreateFs

\* Nothing of it is undone.  In dax mode the namespace is the disk.
fiotest_setup_pmem_disk ==
    << Run("fail"), May(<< Change("region", "fail"), Run("cancel") >>),
       May(<< Change("namespace", "fail") >>), Change("namespace", "fail"), Run("fail"),
       May(<< Assign("disk") >>) >>

\* Without a disk there is no target to build on.
fiotest_setUp ==
    Required
    \o << Run("error"),
          Choose(<< Assign("disk") >>,
                 << Call(fiotest_setup_pmem_disk), Run("error"), Run("cancel") >>),
          IfSet("disk", << Run("error"), Call(fiotest_pre_cleanup) >>, << >>), Run("ignore"),
          IfSet("disk", Build(fiotest_create_raid, fiotest_create_lv, fiotest_create_fs),
                << May(<< Raise("error") >>) >>),
          Run("error") >>

\* Status 3 is a warning.
fiotest_test == << Run("fail") >>
\* The file removed is one in the working directory, if it is there.
fiotest_tearDown ==
    TakeDown(fiotest_delete_fs, fiotest_delete_lv, fiotest_delete_raid)

FiotestJob == Twice("test", fiotest_setUp, fiotest_test, fiotest_tearDown,
                    {"region", "namespace"}, {"lv", "raid"}, HalfMade)

(***************************************************************************)
(* io/disk/ltp_fs.py.                                                      *)
(***************************************************************************)
ltpfs_delete_fs == DeleteFs("note", "note")
ltpfs_delete_lv == DeleteLv
ltpfs_delete_raid == DeleteRaid
ltpfs_pre_cleanup == PreCleanup(ltpfs_delete_fs, ltpfs_delete_lv, ltpfs_delete_raid)
ltpfs_create_raid == CreateRaid
ltpfs_create_lv == CreateLv
ltpfs_create_fs == CreateFs

\* LTP is fetched and built on the finished file system.
ltpfs_setUp ==
    Required \o << Run("ignore"), Call(ltpfs_pre_cleanup) >>
    \o Build(ltpfs_create_raid, ltpfs_create_lv, ltpfs_create_fs)
    \o << Run("error"), May(<< Run("error"), Run("ignore") >>), Run("error"),
          May(<< Run("ignore"), Run("error"), Run("cancel") >>) >>
ltpfs_test_fs_run == << May(<< Run("error") >>), Run("fail") >>
ltpfs_tearDown == TakeDown(ltpfs_delete_fs, ltpfs_delete_lv, ltpfs_delete_raid)

LtpfsJob == Twice("test_fs_run", ltpfs_setUp, ltpfs_test_fs_run, ltpfs_tearDown, {},
                  {"mounted", "fs", "lv", "raid"}, HalfMade)

(***************************************************************************)
(* io/disk/ltp_fsstress.py.  Another resource: ltp, installed in /opt.     *)
(***************************************************************************)
fsstress_delete_fs == DeleteFs("note", "note")
fsstress_delete_lv == DeleteLv
fsstress_delete_raid == DeleteRaid
fsstress_pre_cleanup ==
    PreCleanup(fsstress_delete_fs, fsstress_delete_lv, fsstress_delete_raid)
fsstress_create_raid == CreateRaid
fsstress_create_lv == CreateLv
fsstress_create_fs == CreateFs
fsstress_setUp ==
    Required \o << Run("ignore"), Call(fsstress_pre_cleanup) >>
    \o Build(fsstress_create_raid, fsstress_create_lv, fsstress_create_fs)
    \o << Run("error"), Run("error"), Run("ignore"), Run("error"), Change("ltp", "error"),
          Run("error") >>
\* The status of fsstress is lost: only the kernel's log counts.
fsstress_test_fsstress_run == << Run("ignore"), Run("drop"), Run("fail") >>
fsstress_tearDown == TakeDown(fsstress_delete_fs, fsstress_delete_lv, fsstress_delete_raid)

FsstressJob == Twice("test_fsstress_run", fsstress_setUp, fsstress_test_fsstress_run,
                     fsstress_tearDown, {"ltp"}, {"mounted", "fs", "lv", "raid"}, HalfMade)

(***************************************************************************)
(* io/disk/bonnie.py.  More resources: bonnie, installed, and dir.         *)
(***************************************************************************)
bonnie_delete_fs == DeleteFs("error", "note")
bonnie_delete_lv == DeleteLv
bonnie_delete_raid == DeleteRaid
bonnie_pre_cleanup == PreCleanup(bonnie_delete_fs, bonnie_delete_lv, bonnie_delete_raid)
bonnie_create_raid == CreateRaid
bonnie_create_lv == CreateLv
bonnie_create_fs == CreateFs
bonnie_setUp ==
    Required
    \o << IfChanged("bonnie", << >>,
                    << May(<< Run("error"), Run("error"), Change("bonnie", "error") >>) >>),
          IfChanged("dir", << >>, << May(<< Change("dir", "error") >>) >>),
          Run("ignore"), Call(bonnie_pre_cleanup) >>
    \o Build(bonnie_create_raid, bonnie_create_lv, bonnie_create_fs)
bonnie_test == << Run("fail") >>
bonnie_tearDown == TakeDown(bonnie_delete_fs, bonnie_delete_lv, bonnie_delete_raid) \o Warn

BonnieJob == Twice("test", bonnie_setUp, bonnie_test, bonnie_tearDown, {"bonnie", "dir"},
                   {"fs", "lv", "raid"}, HalfMade)

(***************************************************************************)
(* io/disk/tiobench.py and io/disk/fs_mark.py.                             *)
(***************************************************************************)
tiobench_delete_fs == DeleteFs("error", "note")
tiobench_delete_lv == DeleteLv
tiobench_delete_raid == DeleteRaid
tiobench_pre_cleanup == PreCleanup(tiobench_delete_fs, tiobench_delete_lv, tiobench_delete_raid)
tiobench_create_raid == CreateRaid
tiobench_create_lv == CreateLv
tiobench_create_fs == CreateFs
tiobench_setUp ==
    Required \o << Run("error"), Run("error"), Run("ignore"), Call(tiobench_pre_cleanup) >>
    \o Build(tiobench_create_raid, tiobench_create_lv, tiobench_create_fs)
tiobench_test == << Run("error") >>
tiobench_tearDown ==
    TakeDown(tiobench_delete_fs, tiobench_delete_lv, tiobench_delete_raid) \o Warn

TiobenchJob == Twice("test", tiobench_setUp, tiobench_test, tiobench_tearDown, {},
                     {"fs", "lv", "raid"}, HalfMade)

fsmark_delete_fs == DeleteFs("error", "note")
fsmark_delete_lv == DeleteLv
fsmark_delete_raid == DeleteRaid
fsmark_pre_cleanup == PreCleanup(fsmark_delete_fs, fsmark_delete_lv, fsmark_delete_raid)
fsmark_create_raid == CreateRaid
fsmark_create_lv == CreateLv
fsmark_create_fs == CreateFs
fsmark_setUp ==
    Required \o << Run("error"), Run("error"), Run("error"), Run("ignore"),
                   Call(fsmark_pre_cleanup) >>
    \o Build(fsmark_create_raid, fsmark_create_lv, fsmark_create_fs)
fsmark_test == << Run("error"), Run("error") >>
fsmark_tearDown == TakeDown(fsmark_delete_fs, fsmark_delete_lv, fsmark_delete_raid) \o Warn

FsmarkJob == Twice("test", fsmark_setUp, fsmark_test, fsmark_tearDown, {}, {"fs", "lv", "raid"},
                   HalfMade)

(***************************************************************************)
(* io/disk/disktest.py: no logical volume of its own.  Another resource:   *)
(* files, the test's files in a directory that is not on its file system.  *)
(***************************************************************************)
disktest_delete_fs == DeleteFs("error", "note")
disktest_delete_lv == DeleteLv
disktest_delete_raid == DeleteRaid
disktest_pre_cleanup == PreCleanup(disktest_delete_fs, disktest_delete_lv, disktest_delete_raid)
disktest_create_raid == CreateRaid
disktest_create_fs == CreateFs

\* The number of chunks is 1, or a division by zero on less than a gigabyte:
\* never the zero the method cancels for.
disktest__init_params ==
    << Run("error"), Run("error"), Run("ignore"), Call(disktest_pre_cleanup),
       May(<< Call(disktest_create_raid), Assign("raid_create") >>),
       May(<< Call(disktest_create_fs), Assign("fs_create") >>) >>
disktest__compile_disktest == << Run("error"), Run("error") >>

\* The flags are there only when gcc is.
disktest_setUp ==
    << Run("cancel"), Assign("flags") >> \o Required
    \o << Run("cancel"), Call(disktest__init_params), Call(disktest__compile_disktest) >>
disktest_one_disk_chunk ==
    << IfSet("fs_create", << >>, << Change("files", "ignore") >>), Run("error") >>
disktest_test == << Call(disktest_one_disk_chunk), Run("fail") >>

\* The loop that removes the files goes over the characters of self.dir.
disktest_tearDown ==
    << Use("flags"), IfSet("fs_create", << Call(disktest_delete_fs) >>, << >>),
       IfSet("raid_create", << Call(disktest_delete_raid) >>, << >>), Run("ignore") >> \o Warn

DisktestJob == Twice("test", disktest_setUp, disktest_test, disktest_tearDown, {"files"},
                     {"fs", "raid"}, {"fs"})

(***************************************************************************)
(* io/disk/iozone.py: nothing is removed before the test starts, and the   *)
(* tool runs in a directory that is not the file system that was made.     *)
(***************************************************************************)
iozone_create_raid == CreateRaid
iozone_delete_raid == << Restore("raid", "ignore") >>
iozone_create_lv == CreateLv
iozone_delete_lv == << Restore("lv", "error"), Restore("vg", "error") >>
iozone_create_fs == CreateFs
iozone_delete_fs == << Restore("mounted", "error"), Restore("fs", "fail") >>

iozone_setUp ==
    << Run("error"), Assign("disk"), Run("cancel"),
       May(<< Run("error"), Run("cancel") >>), Run("error"), Run("error"), Run("error"),
       May(Build(iozone_create_raid, iozone_create_lv, iozone_create_fs)) >>

\* The analysis of the figures, and the plots; gnuplot may fail.
iozone___init__ == << May(<< Run("error") >>) >>
iozone_process_results == << Run("error") >>
iozone_report == << May(<< Run("error") >>), Run("error") >>
iozone_analyze == << Run("error"), Call(iozone_process_results), Call(iozone_report) >>
iozone_generate_data_source == << Run("error") >>
iozone___init____2 ==
    << May(<< Run("ignore") >>), May(<< Run("error") >>),
       May(<< Call(iozone_generate_data_source) >>) >>
iozone_plot_2d_graphs == << Run("error"), Try(<< Run("error") >>, Errors, << >>) >>

iozone_test ==
    << Run("error"), Run("error"), Run("error"),
       May(<< Call(iozone___init__), Call(iozone_analyze), Call(iozone___init____2),
              Call(iozone_plot_2d_graphs) >>) >>
iozone_tearDown ==
    << Use("disk"), IfSet("fs_create", << Call(iozone_delete_fs) >>, << >>),
       IfSet("lv_create", << Call(iozone_delete_lv) >>, << >>),
       IfSet("raid_create", << Call(iozone_delete_raid) >>, << >>) >>

IozoneJob ==
    [tests |-> << Test("test", iozone_setUp, iozone_test, iozone_tearDown) >>,
     keeps |-> {"raid"}, leaves |-> HalfMade, unreported |-> {}]
================================================================================
