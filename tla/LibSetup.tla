------------------------------ MODULE LibSetup ------------------------------
(* The test library process before and after the test: do_setup() acquires  *)
(* what struct tst_test asks for, do_exit() and do_cleanup() give it back.   *)
(* Any call may fail; a failure breaks the test with tst_brk(), also in the   *)
(* middle of do_cleanup().                                                   *)
EXTENDS Integers, Sequences, FiniteSets

CONSTANTS
  Tests,      \* the struct tst_test (and the machine) of a run
  Paths,      \* the files under /proc/sys and /sys that tests save and set
  Values,     \* their contents; 0 is what they hold before the test
  MaxFaults   \* how many calls may fail

NoVal == -1   \* no value to set: the path is only saved

ASSUME LibSetupAssumption ==
  /\ MaxFaults \in Nat
  /\ 0 \in Values
  /\ Tests \subseteq [devshm : BOOLEAN, needs_checkpoints : BOOLEAN,
       child_needs_reinit : BOOLEAN, needs_tmpdir : BOOLEAN,
       mnt : {"none", "devfs", "rofs", "hugetlbfs", "device", "mount_device"},
       filesystems : Nat, needs_overlay : BOOLEAN,
       hugepages : SUBSET [path : Paths, val : Values],
       save_restore : Seq([path : Paths, val : Values \cup {NoVal}, lenient : BOOLEAN]),
       restore_wallclock : BOOLEAN, needs_cgroup_ctrls : BOOLEAN]

VARIABLES
  test,          \* tst_test; test.filesystems > 0 is all_filesystems
  pc,            \* the step the library process is about to take
  held,          \* what the system holds for the test
  owned,         \* what the process knows it has to give back
  stuck,         \* (history) what it tried to give back in vain
  ro,            \* the file system at mntpoint is read-only
  needs_device,  \* tst_test->needs_device, which do_setup() may set
  sysctl,        \* the contents of Paths
  saved,         \* save_restore_data, the newest entry first
  unset,         \* (history) the Paths a restore could not write
  i,             \* the loop index of the step
  results,       \* the shared page is mapped and the results are in it
  res,           \* the types counted in the results (or just printed)
  ret,           \* do_exit()'s ret
  faults         \* the calls that may still fail

Resources == {"shm", "tmpdir", "mnt", "ovl", "loop", "clock", "cgroup",
              "lost"}  \* a loop device whose acquisition failed half-way
Types == {"TPASS", "TFAIL", "TBROK", "TWARN", "TCONF"}

rsc == <<held, owned, stuck>>
conf == <<sysctl, saved, unset>>
mode == <<test, ro, needs_device, results>>
vars == <<test, pc, held, owned, stuck, ro, needs_device, sysctl, saved, unset, i,
          results, res, ret, faults>>

Init ==
  /\ test \in Tests
  /\ pc = "checks"
  /\ held = {} /\ owned = {} /\ stuck = {}
  /\ ro = FALSE
  /\ needs_device = (test.mnt \in {"device", "mount_device"} \/ test.filesystems > 0)
  /\ sysctl = [p \in Paths |-> 0]
  /\ saved = <<>> /\ unset = {}
  /\ i = 1
  /\ results = FALSE
  /\ res = {} /\ ret = {}
  /\ faults = MaxFaults
-----------------------------------------------------------------------------
(* Control.                                                                 *)

Goto(step) == pc' = step /\ UNCHANGED <<i, res, ret, faults>>
GotoAt(step, n) == pc' = step /\ i' = n /\ UNCHANGED <<res, ret, faults>>

\* What do_exit(t) makes of the results r; "0" stands for no type.
ExitCode(t, r) ==
  (IF t = "0" \/ (t = "TCONF" /\ "TPASS" \in r) THEN {} ELSE {t})
    \cup (r \cap {"TFAIL", "TWARN", "TBROK"})
    \cup (IF "TPASS" \in r THEN {} ELSE r \cap {"TCONF"})

\* tst_brk(t) in the library process, which has also reported the types more:
\* without results it just exits, else it enters do_exit() and do_cleanup().
Break(t, more) ==
  /\ res' = res \cup more \cup {t}
  /\ IF results THEN pc' = "cg_cleanup" /\ ret' = ExitCode(t, res')
                ELSE pc' = "exit_early" /\ ret' = {t}
  /\ i' = 1
Brk(t, more) == Break(t, more) /\ UNCHANGED faults

Fault == faults > 0 /\ faults' = faults - 1

\* A call fails and the code breaks the test, or shrugs it off.
Fails(t) == Fault /\ Break(t, {})
Shrugs(step) == Fault /\ pc' = step /\ UNCHANGED <<i, res, ret>>

Acquire(r) == held' = held \cup {r} /\ owned' = owned \cup {r} /\ UNCHANGED stuck
Refused(r) == stuck' = stuck \cup {r} /\ UNCHANGED <<held, owned>>
-----------------------------------------------------------------------------
(* do_setup(), in its order.                                                *)

\* What is checked before setup_ipc(): the sanity of tst_test, tconf_msg, the
\* architecture.
Checks ==
  /\ pc = "checks"
  /\ Goto("ipc") \/ \E t \in {"TBROK", "TCONF"} : Fails(t)
  /\ UNCHANGED <<rsc, conf, mode>>

\* tst_tmpdir(): mkdtemp() fails; chown() or chmod() fails, or chdir() fails and
\* so does the removal; chdir() fails and the directory is removed (this prints
\* a message of type TERRNO alone, which is counted as a TPASS).
Tmpdir(step) ==
  \/ Goto(step) /\ Acquire("tmpdir")
  \/ Fails("TBROK") /\ UNCHANGED rsc
  \/ Fails("TBROK") /\ Acquire("tmpdir")
  \/ /\ Fault /\ Break("TBROK", {"TPASS"})
     /\ owned' = owned \cup {"tmpdir"} /\ UNCHANGED <<held, stuck>>

\* setup_ipc(): the directory of the file, the file, the mapping, and the file's
\* removal unless exec()'d children need it.
IpcDir ==
  /\ pc = "ipc"
  /\ IF test.devshm THEN Goto("ipc_open") /\ UNCHANGED rsc ELSE Tmpdir("ipc_open")
  /\ UNCHANGED <<conf, mode>>

IpcOpen ==
  /\ pc = "ipc_open"
  /\ \/ Goto("ipc_map") /\ Acquire("shm")
     \/ /\ Fails("TBROK")
        /\ owned' = owned \cup {"shm"} /\ UNCHANGED <<held, stuck>>
  /\ UNCHANGED <<conf, mode>>

IpcMap ==
  /\ pc = "ipc_map"
  /\ \/ Goto("ipc_keep") /\ results' = TRUE
     \/ Fails("TBROK") /\ UNCHANGED results
  /\ UNCHANGED <<rsc, conf, test, ro, needs_device>>

\* Mutant of IpcKeep: the file is never removed here.
IpcKeepAlways == pc = "ipc_keep" /\ Goto("opts") /\ UNCHANGED <<rsc, conf, mode>>

IpcKeep ==
  /\ pc = "ipc_keep"
  /\ \/ Goto("opts") /\ (test.needs_checkpoints \/ test.child_needs_reinit) /\ UNCHANGED rsc
     \/ /\ ~test.needs_checkpoints /\ ~test.child_needs_reinit
        /\ \/ Goto("opts") /\ held' = held \ {"shm"} /\ UNCHANGED <<owned, stuck>>
           \/ Fails("TBROK") /\ UNCHANGED rsc
  /\ UNCHANGED <<conf, mode>>

\* parse_opts(): -h and -V exit at once.
ParseOpts ==
  /\ pc = "opts"
  /\ Goto("needs") \/ Goto("exit_help") \/ Fails("TBROK")
  /\ UNCHANGED <<rsc, conf, mode>>

\* What is needed of the kernel, the machine and the installed commands.
Needs ==
  /\ pc = "needs"
  /\ Goto("hugepages") \/ Fails("TCONF")
  /\ UNCHANGED <<rsc, conf, mode>>

\* Mutant of Save: the entry goes to the end.
SaveLast(c) == saved' = Append(saved, [path |-> c.path, val |-> sysctl[c.path]])

\* tst_sys_conf_save(c): the path cannot be saved; it is saved, and set unless
\* c.val is NULL; it is saved and cannot be set.  The flags of a lenient c let
\* the test go on.
Save(c) == saved' = <<[path |-> c.path, val |-> sysctl[c.path]]>> \o saved
SysConfSave(c, Proceed, GiveUp) ==
  \/ GiveUp /\ UNCHANGED <<sysctl, saved>>
  \/ /\ Proceed /\ Save(c)
     /\ sysctl' = IF c.val = NoVal THEN sysctl ELSE [sysctl EXCEPT ![c.path] = c.val]
  \/ c.val # NoVal /\ GiveUp /\ Save(c) /\ UNCHANGED sysctl

\* tst_reserve_hugepages() saves the number of huge pages and sets it.  The
\* kernel may reserve fewer than asked for, which is found by reading it back.
Hugepages ==
  /\ pc = "hugepages"
  /\ \/ test.hugepages = {} /\ Goto("tmpdir") /\ UNCHANGED conf
     \/ \E c \in test.hugepages :
          /\ \/ SysConfSave(c, Goto("tmpdir"), \E t \in {"TBROK", "TCONF"} : Fails(t))
             \/ /\ Fails("TCONF") /\ Save(c)
                /\ \E v \in Values : sysctl' = [sysctl EXCEPT ![c.path] = v]
          /\ UNCHANGED unset
  /\ UNCHANGED <<rsc, mode>>

NeedsTmpdir ==
  test.needs_tmpdir \/ needs_device \/ test.mnt # "none" \/ test.needs_checkpoints

TmpdirStep ==
  /\ pc = "tmpdir"
  /\ IF NeedsTmpdir /\ "tmpdir" \notin owned THEN Tmpdir("save_restore")
                                             ELSE Goto("save_restore") /\ UNCHANGED rsc
  /\ UNCHANGED <<conf, mode>>

SkipConf == Fault /\ pc' = pc /\ i' = i + 1 /\ UNCHANGED <<res, ret>>
SaveRestore ==
  /\ pc = "save_restore"
  /\ \/ i > Len(test.save_restore) /\ GotoAt("mntpoint", 1) /\ UNCHANGED conf
     \/ /\ i <= Len(test.save_restore)
        /\ SysConfSave(test.save_restore[i], GotoAt("save_restore", i + 1),
                       IF test.save_restore[i].lenient THEN SkipConf
                       ELSE \E t \in {"TBROK", "TCONF"} : Fails(t))
        /\ UNCHANGED unset
  /\ UNCHANGED <<rsc, mode>>

\* The ulimits, and the directory of the mount point.
Mntpoint ==
  /\ pc = "mntpoint"
  /\ Goto("mount_fs") \/ Fails("TBROK")
  /\ UNCHANGED <<rsc, conf, mode>>

\* Mutant of MountRo: mntpoint_mounted is set at the end.
MountRoLate(OnFailure, step) ==
  \/ OnFailure /\ UNCHANGED <<rsc, ro>>
  \/ Fails("TBROK") /\ held' = held \cup {"mnt"} /\ UNCHANGED <<owned, stuck, ro, needs_device>>
  \/ Goto(step) /\ Acquire("mnt") /\ ro' = TRUE /\ UNCHANGED needs_device

\* prepare_and_mount_ro_fs(): the mount fails, which only its return value says;
\* it works and populating it or the read-only remount fails; all goes well.
MountRo(OnFailure, step) ==
  \/ OnFailure /\ UNCHANGED <<rsc, ro>>
  \/ Fails("TBROK") /\ Acquire("mnt") /\ UNCHANGED <<ro, needs_device>>
  \/ Goto(step) /\ Acquire("mnt") /\ ro' = TRUE /\ UNCHANGED needs_device

\* No read-only tmpfs: a block device will do.
Fallback == Shrugs("device") /\ needs_device' = TRUE

MountFs ==
  /\ pc = "mount_fs"
  /\ \/ /\ test.mnt \in {"none", "device", "mount_device"}
        /\ Goto("device") /\ UNCHANGED <<rsc, ro, needs_device>>
     \/ /\ test.mnt = "devfs"        \* only if the tmpdir is mounted nodev
        /\ \/ Goto("device") /\ UNCHANGED rsc
           \/ Goto("device") /\ Acquire("mnt")
           \/ Fails("TBROK") /\ UNCHANGED rsc
        /\ UNCHANGED <<ro, needs_device>>
     \/ test.mnt = "rofs" /\ MountRo(Fallback, "device")
     \/ /\ test.mnt = "hugetlbfs"
        /\ \/ Goto("device") /\ Acquire("mnt")
           \/ \E t \in {"TBROK", "TCONF"} : Fails(t) /\ UNCHANGED rsc
        /\ UNCHANGED <<ro, needs_device>>
  /\ UNCHANGED <<conf, test, results>>

\* tst_acquire_device_(): $LTP_DEV, or a loop device.  Attaching one may fail
\* after LOOP_SET_FD: then it stays attached and nobody knows.  (It breaks the test
\* itself when it has no device to return, so do_setup()'s TCONF for that is dead.)
Device ==
  /\ pc = "device"
  /\ LET step == IF test.filesystems > 0 THEN "overlay" ELSE "prepare"
     IN  IF needs_device /\ "mnt" \notin owned
         THEN \/ Goto(step) /\ (UNCHANGED rsc \/ Acquire("loop"))
              \/ Fails("TBROK") /\ UNCHANGED rsc
              \/ /\ Fault /\ Break("TBROK", {"TWARN"})
                 /\ UNCHANGED held \/ held' = held \cup {"lost"}
                 /\ UNCHANGED <<owned, stuck>>
              \/ /\ test.filesystems = 0   \* the default file system is not supported
                 /\ Fails("TCONF") /\ (UNCHANGED rsc \/ Acquire("loop"))
         ELSE Goto("overlay") /\ UNCHANGED rsc
  /\ UNCHANGED <<conf, mode>>

\* prepare_device(): mkfs, which refuses a device that is still mounted, the look
\* at the memory there is for a tmpfs, and the mount.
PrepareDevice(step) ==
  IF "mnt" \in held THEN Brk("TBROK", {}) /\ UNCHANGED <<rsc, ro, needs_device>>
  ELSE \/ (\E t \in {"TBROK", "TCONF"} : Fails(t)) /\ UNCHANGED <<rsc, ro, needs_device>>
       \/ /\ test.mnt = "rofs"
          /\ MountRo(Shrugs(step) /\ UNCHANGED needs_device, step)
       \/ /\ test.mnt = "mount_device"
          /\ Goto(step) /\ Acquire("mnt") /\ UNCHANGED <<ro, needs_device>>
       \/ /\ test.mnt \notin {"rofs", "mount_device"}
          /\ Goto(step) /\ UNCHANGED <<rsc, ro, needs_device>>

Prepare ==
  /\ pc = "prepare"
  /\ PrepareDevice("overlay")
  /\ UNCHANGED <<conf, test, results>>

\* The overlay lies on the file system at mntpoint, which must be mounted.
Overlay ==
  /\ pc = "overlay"
  /\ \/ ~test.needs_overlay /\ Goto("resources") /\ UNCHANGED rsc
     \/ /\ test.needs_overlay /\ (test.mnt # "mount_device" \/ "mnt" \notin owned)
        /\ Brk("TBROK", {}) /\ UNCHANGED rsc
     \/ /\ test.needs_overlay /\ test.mnt = "mount_device" /\ "mnt" \in owned
        /\ \/ Goto("resources") /\ Acquire("ovl")
           \/ \E t \in {"TBROK", "TCONF"} : Fails(t) /\ UNCHANGED rsc
  /\ UNCHANGED <<conf, mode>>

\* copy_resources() and tst_wallclock_save().
Wallclock ==
  /\ pc = "resources"
  /\ \/ /\ Goto("cgroups")
        /\ owned' = IF test.restore_wallclock THEN owned \cup {"clock"} ELSE owned
     \/ (\E t \in {"TBROK", "TCONF"} : Fails(t)) /\ UNCHANGED owned
  /\ UNCHANGED <<held, stuck, conf, mode>>

\* tst_taint_init() and do_cgroup_requires().
Cgroups ==
  /\ pc = "cgroups"
  /\ LET step == IF test.filesystems > 0 THEN "per_fs" ELSE "run"
     IN  IF test.needs_cgroup_ctrls
         THEN \/ Goto(step) /\ Acquire("cgroup")
              \/ \E t \in {"TBROK", "TCONF"} : Fails(t) /\ (UNCHANGED rsc \/ Acquire("cgroup"))
         ELSE (Goto(step) \/ \E t \in {"TBROK", "TCONF"} : Fails(t)) /\ UNCHANGED rsc
  /\ UNCHANGED <<conf, mode>>
-----------------------------------------------------------------------------
(* The test, once or once per file system.                                  *)

\* What the forked test does: it reports results, and changes the files it had
\* the library save and, if it asked for its restoration, the clock.
SavedPaths == {saved[n].path : n \in 1 .. Len(saved)}
Outcomes == {{"TPASS"}, {"TFAIL"}, {"TCONF"}, {"TPASS", "TWARN"}, {"TBROK"}}
RunTest(outcome) ==
  /\ res' = res \cup outcome
  /\ \E f \in [SavedPaths -> Values] :
       sysctl' = [p \in Paths |-> IF p \in SavedPaths THEN f[p] ELSE sysctl[p]]
  /\ held' = IF test.restore_wallclock THEN held \cup {"clock"} ELSE held
  /\ UNCHANGED <<saved, unset, owned, stuck, faults>>

DoExit(t) == pc' = "cg_cleanup" /\ i' = 1 /\ ret' = ExitCode(t, res')

\* fork_testrun() does not return but breaks the test: fork() fails, or the test
\* exits with a status of its own or is killed, by the timeout for one.
TestBroken ==
  /\ \E outcome \in Outcomes \cup {{}} : RunTest(outcome \cup {"TBROK"})
  /\ DoExit("TBROK")

\* fork_testrun(), then do_exit(0).
Run ==
  /\ pc = "run"
  /\ TestBroken \/ ((\E outcome \in Outcomes : RunTest(outcome)) /\ DoExit("0"))
  /\ UNCHANGED mode

\* run_tcases_per_fs(): the next file system is skipped, or is made, or there is
\* none for the test (found at the first one only); do_exit(0) after the last one.
PerFs ==
  /\ pc = "per_fs"
  /\ \/ i <= test.filesystems /\ PrepareDevice("run_fs")
     \/ /\ i <= test.filesystems /\ res' = res \cup {"TCONF"}
        /\ i' = i + 1 /\ pc' = pc /\ UNCHANGED <<rsc, ro, needs_device, ret, faults>>
     \/ i = 1 /\ Brk("TCONF", {}) /\ UNCHANGED <<rsc, ro, needs_device>>
     \/ /\ i > test.filesystems /\ UNCHANGED res /\ DoExit("0")
        /\ UNCHANGED <<rsc, ro, needs_device, faults>>
  /\ UNCHANGED <<conf, test, results>>

\* run_tcase_on_fs() goes on to unmount when fork_testrun() returns, and
\* run_tcases_per_fs() then sees whether the test was broken.
RunFs ==
  /\ pc = "run_fs"
  /\ \/ TestBroken
     \/ /\ \E outcome \in Outcomes : RunTest(outcome)
        /\ pc' = IF "TBROK" \in res' THEN "umount_fs_abort" ELSE "umount_fs"
        /\ UNCHANGED <<i, ret>>
  /\ UNCHANGED mode

\* The flag is cleared whether or not tst_umount() worked.
UmountFs ==
  /\ pc \in {"umount_fs", "umount_fs_abort"}
  /\ i' = IF pc = "umount_fs" THEN i + 1 ELSE 1
  /\ pc' = IF pc = "umount_fs" THEN "per_fs" ELSE "cg_cleanup"
  /\ owned' = owned \ {"mnt"}
  /\ \/ held' = held \ {"mnt"} /\ UNCHANGED <<stuck, res, faults>>
     \/ /\ "mnt" \in owned /\ Fault
        /\ stuck' = stuck \cup {"mnt"} /\ res' = res \cup {"TWARN"} /\ UNCHANGED held
  /\ ret' = IF pc = "umount_fs" THEN ret ELSE ExitCode("0", res')
  /\ UNCHANGED <<conf, mode>>
-----------------------------------------------------------------------------
(* do_cleanup(), in its order.                                              *)

\* A call of do_cleanup() fails that has failed before: no new fault, and so it may
\* fail each time it is called again.
FailsAgain(r) == r \in stuck /\ UNCHANGED faults

\* tst_cg_cleanup().  After it broke once it may break again every time it is
\* called (it reads groups that it has removed); module CGroup has the details.
CgBreaks ==
  /\ "cgroup" \in owned
  /\ Fault \/ FailsAgain("cgroup")
  /\ Break("TBROK", {}) /\ Refused("cgroup")
CgCleanup ==
  /\ pc = "cg_cleanup"
  /\ IF ~test.needs_cgroup_ctrls THEN Goto("ovl") /\ UNCHANGED rsc
     ELSE \/ Goto("ovl") /\ held' = held \ {"cgroup"} /\ UNCHANGED <<owned, stuck>>
          \/ CgBreaks
  /\ UNCHANGED <<conf, mode>>

\* SAFE_UMOUNT(): tst_umount() warns and the macro breaks the test, also when
\* nothing is mounted there any more.  The flag stays set.
OvlBreaks ==
  /\ \/ "ovl" \in held /\ (Fault \/ FailsAgain("ovl")) /\ Refused("ovl")
     \/ "ovl" \notin held /\ UNCHANGED <<rsc, faults>>
  /\ Break("TBROK", {"TWARN"})

OvlUmount ==
  /\ pc = "ovl"
  /\ IF "ovl" \notin owned THEN Goto("mnt") /\ UNCHANGED rsc
     ELSE \/ "ovl" \in held /\ Goto("mnt") /\ held' = held \ {"ovl"} /\ UNCHANGED <<owned, stuck>>
          \/ OvlBreaks
  /\ UNCHANGED <<conf, mode>>

\* A step of do_cleanup() that takes R away, unless the kernel says it is busy.
\* Whatever happens, do_cleanup() goes on.
GiveBack(R, busy, step) ==
  \/ ~busy /\ R \cap held # {} /\ Goto(step) /\ held' = held \ R /\ UNCHANGED <<owned, stuck>>
  \/ /\ pc' = step /\ res' = res \cup {"TWARN"} /\ UNCHANGED <<i, ret, held, owned>>
     /\ Fault \/ ((busy \/ R \cap held = {}) /\ UNCHANGED faults)
     /\ stuck' = stuck \cup (R \cap held)

\* Mutant of MntUmount: SAFE_UMOUNT() instead of tst_umount().
MntUmountSafe ==
  /\ pc = "mnt"
  /\ IF "mnt" \notin owned THEN Goto("release") /\ UNCHANGED rsc
     ELSE \/ "mnt" \in held /\ Goto("release") /\ held' = held \ {"mnt"} /\ UNCHANGED <<owned, stuck>>
          \/ "mnt" \in held /\ Fails("TBROK") /\ Refused("mnt")
          \/ "mnt" \notin held /\ Brk("TBROK", {}) /\ UNCHANGED rsc
  /\ UNCHANGED <<conf, mode>>

\* tst_umount(): the flag stays set here, too.
MntUmount ==
  /\ pc = "mnt"
  /\ IF "mnt" \in owned THEN GiveBack({"mnt"}, "ovl" \in held, "release")
                        ELSE Goto("release") /\ UNCHANGED rsc
  /\ UNCHANGED <<conf, mode>>

\* tst_release_device(): device_acquired is cleared whether or not the device
\* was detached, which it cannot be while it is mounted.
ReleaseDevice ==
  /\ pc = "release"
  /\ \/ "loop" \notin owned /\ Goto("rmdir") /\ UNCHANGED rsc
     \/ /\ "loop" \in owned /\ owned' = owned \ {"loop"}
        /\ \/ "mnt" \notin held /\ Goto("rmdir") /\ held' = held \ {"loop"} /\ UNCHANGED stuck
           \/ /\ pc' = "rmdir" /\ res' = res \cup {"TWARN"} /\ UNCHANGED <<i, ret, held>>
              /\ Fault \/ ("mnt" \in held /\ UNCHANGED faults)
              /\ stuck' = stuck \cup {"loop"}
  /\ UNCHANGED <<conf, mode>>

\* tst_rmdir(), which empties the directory, the results file in it included,
\* and cannot remove a mount point.
Rmdir ==
  /\ pc = "rmdir"
  /\ LET inside == IF test.devshm THEN {} ELSE {"shm"}
     IN  IF "tmpdir" \in owned THEN GiveBack({"tmpdir"} \cup inside, "mnt" \in held, "sysctl")
                               ELSE Goto("sysctl") /\ UNCHANGED rsc
  /\ UNCHANGED <<conf, mode>>

\* tst_sys_conf_restore(), from the newest entry to the oldest.
SysRestore ==
  /\ pc = "sysctl"
  /\ \/ i > Len(saved) /\ GotoAt("clock", 1) /\ UNCHANGED conf
     \/ /\ i <= Len(saved) /\ i' = i + 1 /\ pc' = pc /\ UNCHANGED <<ret, saved>>
        /\ \/ /\ sysctl' = [sysctl EXCEPT ![saved[i].path] = saved[i].val]
              /\ UNCHANGED <<unset, res, faults>>
           \/ /\ Fault /\ res' = res \cup {"TWARN"}
              /\ unset' = unset \cup {saved[i].path} /\ UNCHANGED sysctl
  /\ UNCHANGED <<rsc, mode>>

\* tst_wallclock_restore(), once: clock_gettime() or clock_settime() fails, or
\* touching /etc/localtime does.
WallclockRestore ==
  /\ pc = "clock"
  /\ \/ "clock" \notin owned /\ Goto("cleanup_ipc") /\ UNCHANGED rsc
     \/ /\ "clock" \in owned /\ owned' = owned \ {"clock"}
        /\ \/ Goto("cleanup_ipc") /\ held' = held \ {"clock"} /\ UNCHANGED stuck
           \/ Fails("TBROK") /\ stuck' = stuck \cup {"clock"} /\ UNCHANGED held
           \/ Fails("TBROK") /\ held' = held \ {"clock"} /\ UNCHANGED stuck
  /\ UNCHANGED <<conf, mode>>

\* cleanup_ipc(), and exit(ret).
CleanupIpc ==
  /\ pc = "cleanup_ipc"
  /\ pc' = "exited"
  /\ \/ held' = held \ {"shm"} /\ UNCHANGED <<stuck, res, faults>>
     \/ "shm" \in held /\ Fault /\ res' = res \cup {"TWARN"} /\ stuck' = stuck \cup {"shm"} /\ UNCHANGED held
  /\ results' = FALSE
  /\ UNCHANGED <<owned, i, ret, conf, test, ro, needs_device>>

Exited == pc \in {"exit_early", "exit_help", "exited"}
Done == Exited /\ UNCHANGED vars

Step ==
  \/ Checks \/ IpcDir \/ IpcOpen \/ IpcMap \/ IpcKeep \/ ParseOpts \/ Needs \/ Hugepages
  \/ TmpdirStep \/ SaveRestore \/ Mntpoint \/ MountFs \/ Device \/ Prepare \/ Overlay
  \/ Wallclock \/ Cgroups \/ Run \/ PerFs \/ RunFs \/ UmountFs
  \/ CgCleanup \/ OvlUmount \/ MntUmount \/ ReleaseDevice \/ Rmdir \/ SysRestore
  \/ WallclockRestore \/ CleanupIpc
Next == Step \/ Done

\* The process is one thread that is never blocked for ever.
Spec == Init /\ [][Next]_vars
FairSpec == Spec /\ WF_vars(Step)
-----------------------------------------------------------------------------
(* Properties.                                                              *)

Steps == {"checks", "ipc", "ipc_open", "ipc_map", "ipc_keep", "opts", "needs", "hugepages",
  "tmpdir", "save_restore", "mntpoint", "mount_fs", "device", "prepare", "overlay", "resources",
  "cgroups", "run", "per_fs", "run_fs", "umount_fs", "umount_fs_abort", "cg_cleanup", "ovl",
  "mnt", "release", "rmdir", "sysctl", "clock", "cleanup_ipc",
  "exit_early", "exit_help", "exited"}

\* The variables have their types.
TypeOK ==
  /\ test \in Tests
  /\ pc \in Steps
  /\ held \subseteq Resources /\ owned \subseteq Resources /\ stuck \subseteq Resources
  /\ ro \in BOOLEAN /\ needs_device \in BOOLEAN /\ results \in BOOLEAN
  /\ sysctl \in [Paths -> Values]
  /\ saved \in Seq([path : Paths, val : Values])
  /\ unset \subseteq Paths
  /\ i \in Nat
  /\ res \subseteq Types /\ ret \subseteq Types
  /\ faults \in 0 .. MaxFaults

\* When the process exits through do_exit(), the system holds nothing for the
\* test but what it refused to give back when do_cleanup() asked, wherever
\* do_setup(), the test or do_cleanup() itself was interrupted.  The exception is
\* a loop device whose acquisition failed between LOOP_SET_FD and its end.
NothingLeft == pc = "exited" => held \subseteq stuck \cup {"lost"}

\* The files of save_restore and the number of huge pages hold again, at the end,
\* what they held before the test, also if a path was saved twice, the second
\* time with the test's own value in it, and if do_cleanup() ran twice.  (And the
\* variables have their types.)
SysctlRestored == TypeOK /\ (pc = "exited" => \A p \in Paths \ unset : sysctl[p] = 0)

\* do_cleanup() does not get to detaching the device or emptying the temporary
\* directory with the test's file system still mounted, unless its unmounting
\* failed; nor to unmounting that one with the overlay still on it.
MountedLast ==
  /\ pc \in {"release", "rmdir"} /\ "mnt" \in held => "mnt" \in stuck
  /\ pc = "mnt" => "ovl" \notin held

\* An exit that passes do_cleanup() by (tst_brk() without results, -h, -V) comes
\* before anything but the results file and its directory has been acquired; with
\* -h and -V the file is there only if exec()'d children could want it.
EarlyExit ==
  /\ pc \in {"exit_early", "exit_help"} =>
       /\ held \subseteq {"shm", "tmpdir"}
       /\ sysctl = [p \in Paths |-> 0]
  /\ pc = "exit_help" /\ test.devshm /\ held # {} =>
       test.needs_checkpoints \/ test.child_needs_reinit

\* No failure and no broken test is missing from the exit status, also one that
\* was reported in the middle of do_cleanup().
ExitCovers == pc = "exited" => res \cap {"TFAIL", "TBROK"} \subseteq ret

\* do_exit() comes to an end, whatever fails in do_cleanup() and although a
\* failure there breaks the test, which enters do_exit() and do_cleanup() again:
\* the other steps fail at most once or go on.  The exceptions are the two that
\* may break each time they are come to, tst_cg_cleanup() and the unmounting of the
\* overlay: if one of them does so for ever, so does the recursion.
CleanupBreaks == (pc = "cg_cleanup" /\ CgBreaks) \/ (pc = "ovl" /\ OvlBreaks)
Terminates == <>Exited \/ []<><<CleanupBreaks>>_vars

\* lib/tst_test.c on do_exit(): "Prints results, cleans up after the test library
\* and exits the test library process."
DoExitExits == pc = "cg_cleanup" ~> pc = "exited"

=============================================================================
