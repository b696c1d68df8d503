--------------------------- MODULE LibSetupProofs ---------------------------
(* What do_setup(), do_exit() and do_cleanup() guarantee for every test,     *)
(* whatever calls fail and however many.                                     *)
EXTENDS LibSetup, TLAPS

\* The steps of do_cleanup(), and those after which it has dealt with r.
AfterShm == {"exited"}
AfterClock == AfterShm \cup {"cleanup_ipc"}
AfterTmpdir == AfterClock \cup {"clock", "sysctl"}
AfterLoop == AfterTmpdir \cup {"rmdir"}
AfterMnt == AfterLoop \cup {"release"}
AfterOvl == AfterMnt \cup {"mnt"}
AfterCgroup == AfterOvl \cup {"ovl"}
Cleanup == AfterCgroup \cup {"cg_cleanup"}
Dealt(r, After) == pc \in After /\ r \in held => r \in stuck

\* Before the shared page is mapped; before anything but its file is acquired.
Unmapped == {"checks", "ipc", "ipc_open", "ipc_map", "exit_early"}
Early == Unmapped \cup {"ipc_keep", "opts", "needs", "exit_help"}
Keeps == test.needs_checkpoints \/ test.child_needs_reinit

\* Everything the system holds is known to the process or has been refused.
Known ==
  /\ held \subseteq owned \cup stuck \cup {"lost"}
  /\ "ovl" \in held => "ovl" \in owned
  /\ "cgroup" \in held => test.needs_cgroup_ctrls
  /\ pc \in {"cgroups", "run", "per_fs", "run_fs", "umount_fs", "umount_fs_abort"}
       /\ test.restore_wallclock => "clock" \in owned

Released ==
  /\ Dealt("cgroup", AfterCgroup) /\ (pc \in AfterOvl => "ovl" \notin held)
  /\ Dealt("mnt", AfterMnt) /\ Dealt("loop", AfterLoop) /\ Dealt("tmpdir", AfterTmpdir)
  /\ Dealt("clock", AfterClock) /\ Dealt("shm", AfterShm)

Beginning ==
  /\ pc # "exited" => (results <=> pc \notin Unmapped)
  /\ pc \in Early => held \subseteq {"shm", "tmpdir"} /\ sysctl = [p \in Paths |-> 0]
  /\ test.devshm /\ pc \in {"checks", "ipc", "ipc_open"} => held = {}
  /\ test.devshm /\ pc \in {"ipc_map", "ipc_keep"} => held \subseteq {"shm"}
  /\ test.devshm /\ pc \in {"opts", "exit_help"} /\ held # {} => Keeps

Counted == pc \in Cleanup => res \cap {"TFAIL", "TBROK"} \subseteq ret

Inv ==
  /\ held \subseteq Resources
  /\ results \in BOOLEAN
  /\ Known /\ Released /\ Beginning /\ Counted
-----------------------------------------------------------------------------
\* Every step keeps the invariant: do_setup() acquires and records at once, a
\* break enters do_cleanup() with everything recorded, and each step of
\* do_cleanup() deals with its resource and acquires nothing.
LEMMA Inductive ==
  ASSUME Inv, [Next]_vars
  PROVE Inv'
<1> USE DEF Inv, Known, Released, Beginning, Counted, Dealt, AfterShm, AfterClock, AfterTmpdir,
            AfterLoop, AfterMnt, AfterOvl, AfterCgroup, Cleanup, Unmapped, Early, Keeps,
            Resources, rsc, conf, mode
<1>1. CASE Checks
  BY Zenon, <1>1 DEF Checks, Goto, Fails, Break, Fault, ExitCode
<1>2. CASE IpcDir
  BY ZenonT(60), <1>2 DEF IpcDir, Goto, Tmpdir, Break, Fault, Fails, Acquire, ExitCode
<1>3. CASE IpcOpen
  BY Zenon, <1>3 DEF IpcOpen, Goto, Fails, Acquire, Break, Fault, ExitCode
<1>4. CASE IpcMap
  <2>1. (held \subseteq Resources /\ results \in BOOLEAN)'
    BY Zenon, <1>4 DEF IpcMap, Goto, Fails, Break, Fault, ExitCode
  <2>2. Known'
    BY Zenon, <1>4 DEF IpcMap, Goto, Fails, Break, Fault, ExitCode
  <2>3. Released'
    BY Zenon, <1>4 DEF IpcMap, Goto, Fails, Break, Fault, ExitCode
  <2>4. Beginning'
    BY <1>4 DEF IpcMap, Goto, Fails, Break, Fault, ExitCode
  <2>5. Counted'
    BY Zenon, <1>4 DEF IpcMap, Goto, Fails, Break, Fault, ExitCode
  <2> QED BY Zenon, <2>1, <2>2, <2>3, <2>4, <2>5
<1>5. CASE IpcKeep
  BY ZenonT(60), <1>5 DEF IpcKeep, Goto, Fails, Break, Fault, ExitCode
<1>6. CASE ParseOpts
  BY Zenon, <1>6 DEF ParseOpts, Goto, Fails, Break, Fault, ExitCode
<1>7. CASE Needs
  BY Zenon, <1>7 DEF Needs, Goto, Fails, Break, Fault, ExitCode
<1>8. CASE Hugepages
  BY Zenon, <1>8 DEF Hugepages, Goto, Fails, SysConfSave, Break, Fault, ExitCode
<1>9. CASE TmpdirStep
  BY ZenonT(60), <1>9 DEF TmpdirStep, Goto, Tmpdir, Break, Fault, Fails, Acquire, ExitCode
<1>10. CASE SaveRestore
  BY Zenon, <1>10 DEF SaveRestore, GotoAt, Fails, SysConfSave, SkipConf, Break, Fault, ExitCode
<1>11. CASE Mntpoint
  BY Zenon, <1>11 DEF Mntpoint, Goto, Fails, Break, Fault, ExitCode
<1>12. CASE MountFs
  BY ZenonT(60), <1>12
    DEF MountFs, Goto, Fails, Shrugs, Fallback, Acquire, MountRo, Break, Fault, ExitCode
<1>13. CASE Device
  <2>1. (held \subseteq Resources /\ results \in BOOLEAN)'
    BY Zenon, <1>13 DEF Device, Goto, Fails, Acquire, Break, Fault, ExitCode
  <2>2. Known'
    <3>1. pc' \notin {"cgroups", "run", "per_fs", "run_fs", "umount_fs", "umount_fs_abort"}
      BY Zenon, <1>13 DEF Device, Goto, Fails, Acquire, Break, Fault, ExitCode
    <3>2. held' \subseteq owned' \cup stuck' \cup {"lost"}
      BY Zenon, <1>13 DEF Device, Goto, Fails, Acquire, Break, Fault, ExitCode
    <3>3. /\ ("ovl" \in held => "ovl" \in owned)'
          /\ ("cgroup" \in held => test.needs_cgroup_ctrls)'
      BY <1>13 DEF Device, Goto, Fails, Acquire, Break, Fault, ExitCode
    <3> QED BY Zenon, <3>1, <3>2, <3>3
  <2>3. Released'
    BY Zenon, <1>13 DEF Device, Goto, Fails, Acquire, Break, Fault, ExitCode
  <2>4. Beginning'
    BY Zenon, <1>13 DEF Device, Goto, Fails, Acquire, Break, Fault, ExitCode
  <2>5. Counted'
    BY Zenon, <1>13 DEF Device, Goto, Fails, Acquire, Break, Fault, ExitCode
  <2> QED BY Zenon, <2>1, <2>2, <2>3, <2>4, <2>5
<1>14. CASE Prepare
  BY Zenon, <1>14 DEF Prepare, PrepareDevice, Goto, Brk, Fails, Shrugs, Acquire, MountRo, Break,
       Fault, ExitCode
<1>15. CASE Overlay
  BY ZenonT(60), <1>15 DEF Overlay, Goto, Brk, Fails, Acquire, Break, Fault, ExitCode
<1>16. CASE Wallclock
  BY Zenon, <1>16 DEF Wallclock, Goto, Fails, Break, Fault, ExitCode
<1>17. CASE Cgroups
  BY ZenonT(60), <1>17 DEF Cgroups, Goto, Fails, Acquire, Break, Fault, ExitCode
<1>18. CASE Run
  BY Zenon, <1>18 DEF Run, TestBroken, DoExit, ExitCode, Outcomes, RunTest
<1>19. CASE PerFs
  BY ZenonT(60), <1>19
    DEF PerFs, DoExit, ExitCode, PrepareDevice, Goto, Brk, Fails, Shrugs, Acquire, MountRo, Break,
      Fault
<1>20. CASE RunFs
  BY Zenon, <1>20 DEF RunFs, TestBroken, DoExit, ExitCode, Outcomes, RunTest
<1>21. CASE UmountFs
  BY Zenon, <1>21 DEF UmountFs, ExitCode, Fault
<1>22. CASE CgCleanup
  BY Zenon, <1>22
    DEF CgCleanup, CgBreaks, FailsAgain, Goto, Brk, Fails, Refused, Break, Fault, ExitCode
<1>23. CASE OvlUmount
  BY ZenonT(60), <1>23
    DEF OvlUmount, OvlBreaks, FailsAgain, Goto, Break, Brk, Fault, Refused, ExitCode
<1>24. CASE MntUmount
  <2>1. (held \subseteq Resources /\ results \in BOOLEAN)'
    BY Zenon, <1>24 DEF MntUmount, Goto, GiveBack, Fault
  <2>2. Known'
    BY Zenon, <1>24 DEF MntUmount, Goto, GiveBack, Fault
  <2>3. Released'
    BY <1>24 DEF MntUmount, Goto, GiveBack, Fault
  <2>4. Beginning'
    BY Zenon, <1>24 DEF MntUmount, Goto, GiveBack, Fault
  <2>5. Counted'
    BY Zenon, <1>24 DEF MntUmount, Goto, GiveBack, Fault
  <2> QED BY Zenon, <2>1, <2>2, <2>3, <2>4, <2>5
<1>25. CASE ReleaseDevice
  BY Zenon, <1>25 DEF ReleaseDevice, Goto, Fault
<1>26. CASE Rmdir
  BY ZenonT(60), <1>26 DEF Rmdir, Goto, GiveBack, Fault
<1>27. CASE SysRestore
  BY Zenon, <1>27 DEF SysRestore, GotoAt, Fault
<1>28. CASE WallclockRestore
  BY ZenonT(60), <1>28 DEF WallclockRestore, Goto, Fails, Break, Fault, ExitCode
<1>29. CASE CleanupIpc
  BY ZenonT(60), <1>29 DEF CleanupIpc, Fault
<1>30. CASE Done
  BY <1>30 DEF Done, vars
<1>31. CASE UNCHANGED vars
  BY <1>31 DEF vars
<1> QED BY ZenonT(60), <1>1, <1>2, <1>3, <1>4, <1>5, <1>6, <1>7, <1>8, <1>9, <1>10, <1>11,
           <1>12, <1>13, <1>14, <1>15, <1>16, <1>17, <1>18, <1>19, <1>20, <1>21, <1>22, <1>23,
           <1>24, <1>25, <1>26, <1>27, <1>28, <1>29, <1>30, <1>31
          DEF Next, Step

\* The invariant holds at the start.
LEMMA Begin == Init => Inv
  BY Zenon DEF Init, Inv, Known, Released, Beginning, Counted, Dealt, AfterShm, AfterClock,
         AfterTmpdir, AfterLoop, AfterMnt, AfterOvl, AfterCgroup, Cleanup, Unmapped, Early, Keeps,
         Resources

\* And so in every state.
LEMMA Invariance == Spec => []Inv
<1>1. Inv /\ [Next]_vars => Inv'
  BY Zenon, Inductive
<1> QED BY Begin, <1>1, PTL DEF Spec

\* Whatever fails in do_setup(), in the test or in do_cleanup() itself, an exit
\* through do_exit() leaves nothing behind but what could not be given back.
THEOREM NothingLeftHolds == Spec => []NothingLeft
<1>1. Inv => NothingLeft
  BY Zenon
    DEF Inv, Known, Released, Dealt, AfterShm, AfterClock, AfterTmpdir, AfterLoop, AfterMnt,
        AfterOvl, AfterCgroup, Resources, NothingLeft
<1> QED BY Invariance, <1>1, PTL

\* do_cleanup() takes what lies on top first: the overlay, the file system, then
\* the device and the directory below.
THEOREM MountedLastHolds == Spec => []MountedLast
<1>1. Inv => MountedLast
  BY Zenon
    DEF Inv, Released, Dealt, AfterShm, AfterClock, AfterTmpdir, AfterLoop, AfterMnt, AfterOvl,
        MountedLast
<1> QED BY Invariance, <1>1, PTL

\* The exits that pass do_cleanup() by come before there is much to clean up.
THEOREM EarlyExitHolds == Spec => []EarlyExit
<1>1. Inv => EarlyExit
  BY Zenon DEF Inv, Beginning, Unmapped, Early, Keeps, EarlyExit
<1> QED BY Invariance, <1>1, PTL

\* The exit status has every failure and every broken test in it, also those
\* that do_cleanup() reports.
THEOREM ExitCoversHolds == Spec => []ExitCovers
<1>1. Inv => ExitCovers
  BY Zenon
    DEF Inv, Counted, Cleanup, AfterShm, AfterClock, AfterTmpdir, AfterLoop, AfterMnt, AfterOvl,
        AfterCgroup, ExitCovers
<1> QED BY Invariance, <1>1, PTL
-----------------------------------------------------------------------------
(* The files under /proc/sys and /sys.                                       *)

\* The oldest entry of a path, which has what the path held before the test.
Origin(p, m) ==
  /\ m \in 1 .. Len(saved) /\ saved[m].path = p /\ saved[m].val = 0
  /\ \A k \in 1 .. Len(saved) : k > m => saved[k].path # p

\* tst_sys_conf_restore() begins with the newest entry whenever do_cleanup() is entered.
\* As long as it has not come to the oldest entry of a path, the path may hold anything.
Entered == {"cg_cleanup", "ovl", "mnt", "release", "rmdir", "sysctl"}
Restored == {"clock", "cleanup_ipc", "exited"}
ConfInv ==
  /\ sysctl \in [Paths -> Values] /\ saved \in Seq([path : Paths, val : Values])
  /\ unset \subseteq Paths
  /\ \A p \in Paths : sysctl[p] # 0 => p \in SavedPaths
  /\ \A p \in SavedPaths : \E m \in 1 .. Len(saved) : Origin(p, m)
  /\ pc \in Entered \ {"sysctl"} => i = 1
  /\ pc = "sysctl" => \A p \in Paths \ unset :
       sysctl[p] = 0 \/ \E m \in 1 .. Len(saved) : m >= i /\ Origin(p, m)
  /\ pc \in Restored => \A p \in Paths \ unset : sysctl[p] = 0
TypeInv ==
  /\ test \in Tests /\ pc \in Steps
  /\ held \subseteq Resources /\ owned \subseteq Resources /\ stuck \subseteq Resources
  /\ ro \in BOOLEAN /\ needs_device \in BOOLEAN /\ results \in BOOLEAN
  /\ res \subseteq Types /\ ret \subseteq Types
CountInv == i \in Nat \ {0} /\ faults \in 0 .. MaxFaults

\* What an entry put in front of save_restore_data makes of it.
LEMMA Prepend ==
  ASSUME NEW S, NEW s \in Seq(S), NEW e \in S, NEW t, t = <<e>> \o s
  PROVE  /\ t \in Seq(S) /\ Len(s) \in Nat /\ Len(t) = Len(s) + 1 /\ t[1] = e
         /\ \A k \in 1 .. Len(s) : t[k + 1] = s[k]
OBVIOUS

\* Its entries.
LEMMA Entry ==
  ASSUME NEW S, NEW s \in Seq(S), NEW n \in 1 .. Len(s)
  PROVE  s[n] \in S
OBVIOUS

\* An entry of a path that was not changed yet is an origin; it takes the origin from no
\* other entry.
LEMMA Saving ==
  ASSUME ConfInv, NEW c \in [path : Paths, val : Values], c.val = sysctl[c.path],
         saved' = <<c>> \o saved,
         sysctl' = sysctl \/ \E v \in Values : sysctl' = [sysctl EXCEPT ![c.path] = v],
         UNCHANGED unset, pc' \notin Restored, pc' # "sysctl", pc' \in Entered => i' = 1
  PROVE  ConfInv'
<1>0. saved \in Seq([path : Paths, val : Values]) /\ c.path \in Paths
  BY Zenon DEF ConfInv
<1>1. /\ saved' \in Seq([path : Paths, val : Values]) /\ Len(saved) \in Nat
      /\ Len(saved') = Len(saved) + 1 /\ saved'[1] = c
      /\ \A k \in 1 .. Len(saved) : saved'[k + 1] = saved[k]
  BY <1>0, Prepend
<1>2. sysctl' \in [Paths -> Values] /\ \A p \in Paths \ {c.path} : sysctl'[p] = sysctl[p]
  BY Zenon, <1>0 DEF ConfInv
<1>3. SavedPaths' = SavedPaths \cup {c.path}
  <2>1. ASSUME NEW n \in 1 .. Len(saved') PROVE saved'[n].path \in SavedPaths \cup {c.path}
    <3>1. CASE n = 1
      BY Zenon, <1>1, <3>1
    <3>2. CASE n # 1
      <4>1. n - 1 \in 1 .. Len(saved) /\ n = (n - 1) + 1
        BY <1>1, <3>2
      <4>2. QED
        <5>1. saved'[n] = saved[n - 1]
          BY Zenon, <1>1, <4>1
        <5>2. QED
          BY Zenon, <4>1, <5>1 DEF SavedPaths
    <3>3. QED
      BY Zenon, <3>1, <3>2
  <2>2. ASSUME NEW n \in 1 .. Len(saved) PROVE saved[n].path \in SavedPaths'
    <3>1. n + 1 \in 1 .. Len(saved')
      BY <1>1
    <3>2. QED
      BY Zenon, <1>1, <3>1 DEF SavedPaths
  <2>3. c.path \in SavedPaths'
    <3>1. 1 \in 1 .. Len(saved')
      BY <1>1
    <3>2. QED
      BY Zenon, <1>1, <3>1 DEF SavedPaths
  <2>4. SavedPaths' \subseteq SavedPaths \cup {c.path}
    <3>1. ASSUME NEW x \in SavedPaths' PROVE x \in SavedPaths \cup {c.path}
      <4>1. PICK n \in 1 .. Len(saved') : x = saved'[n].path
        BY Zenon, <3>1 DEF SavedPaths
      <4>2. QED
        BY Zenon, <2>1, <4>1
    <3>2. QED
      BY Zenon, <3>1
  <2>5. SavedPaths \subseteq SavedPaths'
    <3>1. ASSUME NEW x \in SavedPaths PROVE x \in SavedPaths'
      <4>1. PICK n \in 1 .. Len(saved) : x = saved[n].path
        BY Zenon, <3>1 DEF SavedPaths
      <4>2. QED
        BY Zenon, <2>2, <4>1
    <3>2. QED
      BY Zenon, <3>1
  <2>6. QED
    BY Zenon, <2>3, <2>4, <2>5
<1>4. ASSUME NEW p \in SavedPaths' PROVE \E m \in 1 .. Len(saved') : Origin(p, m)'
  <2>1. CASE p \in SavedPaths
    <3>1. PICK m \in 1 .. Len(saved) : Origin(p, m)
      BY Zenon, <2>1 DEF ConfInv
    <3>2. m + 1 \in 1 .. Len(saved') /\ saved'[m + 1].path = p /\ saved'[m + 1].val = 0
      BY <1>1, <3>1 DEF Origin
    <3>3. ASSUME NEW k \in 1 .. Len(saved'), k > m + 1 PROVE saved'[k].path # p
      <4>1. k - 1 \in 1 .. Len(saved) /\ k - 1 > m /\ (k - 1) + 1 = k
        BY <1>1, <3>3
      <4>2. saved[k - 1].path # p
        BY Zenon, <3>1, <4>1 DEF Origin
      <4>3. QED
        BY Zenon, <1>1, <4>1, <4>2
    <3>4. QED
      BY Zenon, <3>2, <3>3 DEF Origin
  <2>2. CASE p \notin SavedPaths
    <3>1. p = c.path /\ c.val = 0
      BY Zenon, <1>0, <1>3, <2>2 DEF ConfInv
    <3>2. 1 \in 1 .. Len(saved')
      BY <1>1
    <3>3. ASSUME NEW k \in 1 .. Len(saved'), k > 1 PROVE saved'[k].path # p
      <4>1. k - 1 \in 1 .. Len(saved) /\ (k - 1) + 1 = k
        BY <1>1, <3>3
      <4>2. saved'[k] = saved[k - 1]
        BY Zenon, <1>1, <4>1
      <4>3. QED
        BY Zenon, <2>2, <4>1, <4>2 DEF SavedPaths
    <3>4. QED
      BY Zenon, <1>1, <3>1, <3>2, <3>3 DEF Origin
  <2>3. QED
    BY Zenon, <2>1, <2>2
<1>5. \A p \in Paths : sysctl'[p] # 0 => p \in SavedPaths'
  BY Zenon, <1>2, <1>3 DEF ConfInv
<1>6. QED
  BY Zenon, <1>1, <1>2, <1>4, <1>5 DEF ConfInv, Entered

\* Paths that were saved may be changed before the restore.
LEMMA Changing ==
  ASSUME ConfInv, sysctl' \in [Paths -> Values],
         \A p \in Paths \ SavedPaths : sysctl'[p] = sysctl[p],
         UNCHANGED <<saved, unset>>,
         pc' \notin Restored, pc' # "sysctl", pc' \in Entered => i' = 1
  PROVE  ConfInv'
<1>1. SavedPaths' = SavedPaths
  BY Zenon DEF SavedPaths
<1>2. \A p, m : Origin(p, m)' <=> Origin(p, m)
  BY Zenon DEF Origin
<1>3. \A p \in SavedPaths : \E m \in 1 .. Len(saved') : Origin(p, m)'
  BY Zenon, <1>2 DEF ConfInv
<1>4. QED
  BY Zenon, <1>1, <1>3 DEF ConfInv, Entered

\* A step that leaves the files alone.
LEMMA Plain ==
  ASSUME ConfInv, UNCHANGED conf, pc' \in Restored => pc \in Restored, pc' \in Entered => i' = 1
  PROVE  ConfInv'
<1>1. UNCHANGED <<sysctl, saved, unset>> /\ SavedPaths' = SavedPaths
  BY Zenon DEF conf, SavedPaths
<1>2. \A p, m : Origin(p, m)' <=> Origin(p, m)
  BY Zenon, <1>1 DEF Origin
<1>3. \A p \in SavedPaths : \E m \in 1 .. Len(saved') : Origin(p, m)'
  BY Zenon, <1>1, <1>2 DEF ConfInv
<1>4. ASSUME pc' = "sysctl", NEW p \in Paths \ unset
      PROVE  sysctl'[p] = 0 \/ \E m \in 1 .. Len(saved') : m >= i' /\ Origin(p, m)'
  <2>1. i' = 1
    BY Zenon, <1>4 DEF Entered
  <2>2. sysctl[p] # 0 => \E m \in 1 .. Len(saved') : Origin(p, m)'
    BY Zenon, <1>1, <1>3 DEF ConfInv
  <2>3. \A m \in 1 .. Len(saved') : m >= 1
    BY SMT
  <2>4. QED
    BY Zenon, <1>1, <2>1, <2>2, <2>3
<1>5. QED
  BY Zenon, <1>1, <1>3, <1>4 DEF ConfInv, Entered

\* tst_sys_conf_restore() takes one entry: the oldest of its path, after which the path
\* is restored or counted as not, or one with an older one to come.
LEMMA Restoring ==
  ASSUME ConfInv, CountInv, SysRestore
  PROVE  ConfInv'
<1>0. pc = "sysctl" /\ Len(saved) \in Nat /\ i \in Nat \ {0}
  BY DEF SysRestore, ConfInv, CountInv
<1>1. CASE i > Len(saved) /\ GotoAt("clock", 1) /\ UNCHANGED conf
  <2>1. UNCHANGED <<sysctl, saved, unset>> /\ pc' = "clock" /\ SavedPaths' = SavedPaths
    BY Zenon, <1>1 DEF conf, GotoAt, SavedPaths
  <2>2. \A m \in 1 .. Len(saved) : ~(m >= i)
    BY <1>0, <1>1
  <2>3. \A p \in Paths \ unset : sysctl[p] = 0
    BY Zenon, <1>0, <2>2 DEF ConfInv
  <2>4. \A p, m : Origin(p, m)' <=> Origin(p, m)
    BY Zenon, <2>1 DEF Origin
  <2>5. \A p \in SavedPaths : \E m \in 1 .. Len(saved') : Origin(p, m)'
    BY Zenon, <2>1, <2>4 DEF ConfInv
  <2>6. QED
    BY Zenon, <2>1, <2>3, <2>5 DEF ConfInv, Entered
<1>2. CASE /\ i <= Len(saved) /\ i' = i + 1 /\ pc' = pc /\ UNCHANGED saved
           /\ \/ sysctl' = [sysctl EXCEPT ![saved[i].path] = saved[i].val] /\ UNCHANGED unset
              \/ unset' = unset \cup {saved[i].path} /\ UNCHANGED sysctl
  <2>0. i \in 1 .. Len(saved)
    BY <1>0, <1>2
  <2>1. saved[i] \in [path : Paths, val : Values]
    BY Zenon, <2>0, Entry DEF ConfInv
  <2>a. saved[i].path \in Paths /\ saved[i].val \in Values
    BY Zenon, <2>1
  <2>2. /\ sysctl' \in [Paths -> Values] /\ unset' \subseteq Paths /\ unset \subseteq unset'
        /\ \A p \in Paths \ {saved[i].path} : sysctl'[p] = sysctl[p]
        /\ saved[i].path \notin unset' => sysctl'[saved[i].path] = saved[i].val
    BY Zenon, <1>2, <2>a DEF ConfInv
  <2>3. SavedPaths' = SavedPaths /\ saved[i].path \in SavedPaths
    BY Zenon, <1>2, <2>0 DEF SavedPaths
  <2>4. \A p, m : Origin(p, m)' <=> Origin(p, m)
    BY Zenon, <1>2 DEF Origin
  <2>5. \A p \in SavedPaths : \E m \in 1 .. Len(saved') : Origin(p, m)'
    BY Zenon, <1>2, <2>4 DEF ConfInv
  <2>6. \A p \in Paths : sysctl'[p] # 0 => p \in SavedPaths
    BY Zenon, <2>2, <2>3 DEF ConfInv
  <2>7. ASSUME NEW p \in Paths \ unset'
        PROVE  sysctl'[p] = 0 \/ \E m \in 1 .. Len(saved') : m >= i' /\ Origin(p, m)'
    <3>1. CASE p = saved[i].path /\ saved[i].val # 0
      <4>1. PICK m \in 1 .. Len(saved) : Origin(p, m)
        BY Zenon, <2>3, <3>1 DEF ConfInv
      <4>2. ~(i > m) /\ m # i
        BY Zenon, <2>0, <3>1, <4>1 DEF Origin
      <4>3. m >= i + 1
        BY <1>0, <4>2
      <4>4. QED
        BY Zenon, <1>2, <2>4, <4>1, <4>3
    <3>2. CASE p = saved[i].path /\ saved[i].val = 0
      BY Zenon, <2>2, <2>7, <3>2
    <3>3. CASE p # saved[i].path /\ sysctl[p] # 0
      <4>1. PICK m \in 1 .. Len(saved) : m >= i /\ Origin(p, m)
        BY Zenon, <1>0, <2>2, <2>7, <3>3 DEF ConfInv
      <4>2. m # i
        BY Zenon, <3>3, <4>1 DEF Origin
      <4>3. m >= i + 1
        BY <1>0, <4>1, <4>2
      <4>4. QED
        BY Zenon, <1>2, <2>4, <4>1, <4>3
    <3>4. CASE p # saved[i].path /\ sysctl[p] = 0
      BY Zenon, <2>2, <3>4
    <3>5. QED
      BY Zenon, <3>1, <3>2, <3>3, <3>4
  <2>8. QED
    BY Zenon, <1>0, <1>2, <2>2, <2>3, <2>5, <2>6, <2>7 DEF ConfInv, Entered, Restored
<1>3. QED
  BY Zenon, <1>1, <1>2 DEF SysRestore

\* Every step keeps the types of what is a set or a flag.
LEMMA TypeStep ==
  ASSUME TypeInv, [Next]_vars
  PROVE  TypeInv'
<1> USE DEF TypeInv, Steps, Resources, Types, rsc, mode
<1>1. CASE Checks
  BY Zenon, <1>1 DEF Checks, Goto, Fails, Break, Fault, ExitCode
<1>2. CASE IpcDir
  BY ZenonT(60), <1>2 DEF IpcDir, Goto, Tmpdir, Break, Fault, Fails, Acquire, ExitCode
<1>3. CASE IpcOpen
  BY Zenon, <1>3 DEF IpcOpen, Goto, Fails, Acquire, Break, Fault, ExitCode
<1>4. CASE IpcMap
  BY Zenon, <1>4 DEF IpcMap, Goto, Fails, Break, Fault, ExitCode
<1>5. CASE IpcKeep
  BY ZenonT(60), <1>5 DEF IpcKeep, Goto, Fails, Break, Fault, ExitCode
<1>6. CASE ParseOpts
  BY Zenon, <1>6 DEF ParseOpts, Goto, Fails, Break, Fault, ExitCode
<1>7. CASE Needs
  BY Zenon, <1>7 DEF Needs, Goto, Fails, Break, Fault, ExitCode
<1>8. CASE Hugepages
  BY ZenonT(60), <1>8 DEF Hugepages, Goto, Fails, SysConfSave, Break, Fault, ExitCode
<1>9. CASE TmpdirStep
  BY ZenonT(60), <1>9 DEF TmpdirStep, Goto, Tmpdir, Break, Fault, Fails, Acquire, ExitCode
<1>10. CASE SaveRestore
  BY ZenonT(60), <1>10
    DEF SaveRestore, GotoAt, Fails, SysConfSave, SkipConf, Break, Fault, ExitCode
<1>11. CASE Mntpoint
  BY Zenon, <1>11 DEF Mntpoint, Goto, Fails, Break, Fault, ExitCode
<1>12. CASE MountFs
  BY ZenonT(60), <1>12
    DEF MountFs, Goto, Fails, Shrugs, Fallback, Acquire, MountRo, Break, Fault, ExitCode
<1>13. CASE Device
  BY ZenonT(60), <1>13 DEF Device, Goto, Fails, Acquire, Break, Fault, ExitCode
<1>14. CASE Prepare
  BY Zenon, <1>14
    DEF Prepare, PrepareDevice, Goto, Brk, Fails, Shrugs, Acquire, MountRo, Break, Fault,
        ExitCode
<1>15. CASE Overlay
  BY ZenonT(60), <1>15 DEF Overlay, Goto, Brk, Fails, Acquire, Break, Fault, ExitCode
<1>16. CASE Wallclock
  BY ZenonT(60), <1>16 DEF Wallclock, Goto, Fails, Break, Fault, ExitCode
<1>17. CASE Cgroups
  BY ZenonT(60), <1>17 DEF Cgroups, Goto, Fails, Acquire, Break, Fault, ExitCode
<1>18. CASE Run
  BY Zenon, <1>18 DEF Run, TestBroken, DoExit, ExitCode, Outcomes, RunTest
<1>19. CASE PerFs
  BY ZenonT(60), <1>19
    DEF PerFs, DoExit, ExitCode, PrepareDevice, Goto, Brk, Fails, Shrugs, Acquire, MountRo, Break,
      Fault
<1>20. CASE RunFs
  BY Zenon, <1>20 DEF RunFs, TestBroken, DoExit, ExitCode, Outcomes, RunTest
<1>21. CASE UmountFs
  BY Zenon, <1>21 DEF UmountFs, ExitCode, Fault
<1>22. CASE CgCleanup
  BY Zenon, <1>22
    DEF CgCleanup, CgBreaks, FailsAgain, Goto, Brk, Fails, Refused, Break, Fault, ExitCode
<1>23. CASE OvlUmount
  BY ZenonT(60), <1>23
    DEF OvlUmount, OvlBreaks, FailsAgain, Goto, Break, Brk, Fault, Refused, ExitCode
<1>24. CASE MntUmount
  BY Zenon, <1>24 DEF MntUmount, Goto, GiveBack, Fault
<1>25. CASE ReleaseDevice
  BY Zenon, <1>25 DEF ReleaseDevice, Goto, Fault
<1>26. CASE Rmdir
  BY Zenon, <1>26 DEF Rmdir, Goto, GiveBack, Fault
<1>27. CASE SysRestore
  BY Zenon, <1>27 DEF SysRestore, GotoAt, Fault
<1>28. CASE WallclockRestore
  BY Zenon, <1>28 DEF WallclockRestore, Goto, Fails, Break, Fault, ExitCode
<1>29. CASE CleanupIpc
  BY Zenon, <1>29 DEF CleanupIpc, Fault
<1>30. CASE UNCHANGED vars
  BY ZenonT(60), <1>30 DEF vars
<1> QED BY ZenonT(60), <1>1, <1>2, <1>3, <1>4, <1>5, <1>6, <1>7, <1>8, <1>9, <1>10, <1>11,
           <1>12, <1>13, <1>14, <1>15, <1>16, <1>17, <1>18, <1>19, <1>20, <1>21, <1>22, <1>23,
           <1>24, <1>25, <1>26, <1>27, <1>28, <1>29, <1>30
          DEF Next, Step, Done

\* The steps that leave the files alone enter do_cleanup() with the index at 1, and come
\* to the end of it through the restore only.
Tidy == /\ UNCHANGED conf
        /\ pc' \in Restored => pc \in Restored
        /\ pc' \in Entered => i' = 1
Writers == Hugepages \/ SaveRestore \/ Run \/ RunFs \/ SysRestore
\* Every step but the writers is one of these.
LEMMA TidyStep ==
  ASSUME ConfInv, Step, ~Writers
  PROVE  Tidy
<1> USE DEF Tidy, Entered, Restored, conf
<1>0. pc \in Entered \ {"sysctl"} => i = 1
  BY Zenon DEF ConfInv
<1>1. CASE Checks
  BY Zenon, <1>0, <1>1 DEF Checks, Goto, Fails, Break, Fault
<1>2. CASE IpcDir
  BY Zenon, <1>0, <1>2 DEF IpcDir, Goto, Tmpdir, Break, Fault, Fails, Acquire
<1>3. CASE IpcOpen
  BY Zenon, <1>0, <1>3 DEF IpcOpen, Goto, Fails, Acquire, Break, Fault
<1>4. CASE IpcMap
  BY Zenon, <1>0, <1>4 DEF IpcMap, Goto, Fails, Break, Fault
<1>5. CASE IpcKeep
  BY Zenon, <1>0, <1>5 DEF IpcKeep, Goto, Fails, Break, Fault
<1>6. CASE ParseOpts
  BY Zenon, <1>0, <1>6 DEF ParseOpts, Goto, Fails, Break, Fault
<1>7. CASE Needs
  BY Zenon, <1>0, <1>7 DEF Needs, Goto, Fails, Break, Fault
<1>8. CASE TmpdirStep
  BY Zenon, <1>0, <1>8 DEF TmpdirStep, Goto, Tmpdir, Break, Fault, Fails, Acquire
<1>9. CASE Mntpoint
  BY Zenon, <1>0, <1>9 DEF Mntpoint, Goto, Fails, Break, Fault
<1>10. CASE MountFs
  BY Zenon, <1>0, <1>10
    DEF MountFs, Goto, Fails, Shrugs, Fallback, Acquire, MountRo, Break, Fault
<1>11. CASE Device
  BY Zenon, <1>0, <1>11 DEF Device, Goto, Fails, Acquire, Break, Fault
<1>12. CASE Prepare
  BY Zenon, <1>0, <1>12
    DEF Prepare, PrepareDevice, Goto, Brk, Fails, Shrugs, Acquire, MountRo, Break, Fault
<1>13. CASE Overlay
  BY Zenon, <1>0, <1>13 DEF Overlay, Goto, Brk, Fails, Acquire, Break, Fault
<1>14. CASE Wallclock
  BY Zenon, <1>0, <1>14 DEF Wallclock, Goto, Fails, Break, Fault
<1>15. CASE Cgroups
  BY Zenon, <1>0, <1>15 DEF Cgroups, Goto, Fails, Acquire, Break, Fault
<1>16. CASE PerFs
  BY Zenon, <1>0, <1>16
    DEF PerFs, DoExit, PrepareDevice, Goto, Brk, Fails, Shrugs, Acquire, MountRo, Break, Fault
<1>17. CASE UmountFs
  BY Zenon, <1>0, <1>17 DEF UmountFs, Fault
<1>18. CASE CgCleanup
  BY Zenon, <1>0, <1>18
    DEF CgCleanup, CgBreaks, FailsAgain, Goto, Brk, Fails, Refused, Break, Fault
<1>19. CASE OvlUmount
  BY Zenon, <1>0, <1>19 DEF OvlUmount, OvlBreaks, FailsAgain, Goto, Break, Brk, Fault, Refused
<1>20. CASE MntUmount
  BY Zenon, <1>0, <1>20 DEF MntUmount, Goto, GiveBack, Fault
<1>21. CASE ReleaseDevice
  BY Zenon, <1>0, <1>21 DEF ReleaseDevice, Goto, Fault
<1>22. CASE Rmdir
  BY Zenon, <1>0, <1>22 DEF Rmdir, Goto, GiveBack, Fault
<1>23. CASE WallclockRestore
  BY Zenon, <1>0, <1>23 DEF WallclockRestore, Goto, Fails, Break, Fault
<1>24. CASE CleanupIpc
  BY Zenon, <1>0, <1>24 DEF CleanupIpc, Fault
<1> QED BY Zenon, <1>1, <1>2, <1>3, <1>4, <1>5, <1>6, <1>7, <1>8, <1>9, <1>10, <1>11, <1>12,
           <1>13, <1>14, <1>15, <1>16, <1>17, <1>18, <1>19, <1>20, <1>21, <1>22, <1>23, <1>24
          DEF Step, Writers

\* The index of a loop goes up by one or starts again, and the budget of failures is kept.
LEMMA CountStep ==
  ASSUME CountInv, [Next]_vars
  PROVE  CountInv'
<1>a. ASSUME (i' = i \/ i' = 1 \/ i' = i + 1) /\ (faults' = faults \/ Fault) PROVE CountInv'
  BY <1>a, LibSetupAssumption DEF CountInv, Fault
<1>1. CASE Checks
  BY Zenon, <1>a, <1>1 DEF Checks, Goto, Fails, Break
<1>2. CASE IpcDir
  BY Zenon, <1>a, <1>2 DEF IpcDir, Goto, Tmpdir, Break, Fails
<1>3. CASE IpcOpen
  BY Zenon, <1>a, <1>3 DEF IpcOpen, Goto, Fails, Break
<1>4. CASE IpcMap
  BY Zenon, <1>a, <1>4 DEF IpcMap, Goto, Fails, Break
<1>5. CASE IpcKeep
  BY Zenon, <1>a, <1>5 DEF IpcKeep, Goto, Fails, Break
<1>6. CASE ParseOpts
  BY Zenon, <1>a, <1>6 DEF ParseOpts, Goto, Fails, Break
<1>7. CASE Needs
  BY Zenon, <1>a, <1>7 DEF Needs, Goto, Fails, Break
<1>8. CASE Hugepages
  BY Zenon, <1>a, <1>8 DEF Hugepages, Goto, Fails, SysConfSave, Break
<1>9. CASE TmpdirStep
  BY Zenon, <1>a, <1>9 DEF TmpdirStep, Goto, Tmpdir, Break, Fails
<1>10. CASE SaveRestore
  BY Zenon, <1>a, <1>10 DEF SaveRestore, GotoAt, Fails, SysConfSave, SkipConf, Break
<1>11. CASE Mntpoint
  BY Zenon, <1>a, <1>11 DEF Mntpoint, Goto, Fails, Break
<1>12. CASE MountFs
  BY Zenon, <1>a, <1>12 DEF MountFs, Goto, Fails, Shrugs, Fallback, MountRo, Break
<1>13. CASE Device
  BY Zenon, <1>a, <1>13 DEF Device, Goto, Fails, Break
<1>14. CASE Prepare
  BY Zenon, <1>a, <1>14 DEF Prepare, PrepareDevice, Goto, Brk, Fails, Shrugs, MountRo, Break
<1>15. CASE Overlay
  BY Zenon, <1>a, <1>15 DEF Overlay, Goto, Brk, Fails, Break
<1>16. CASE Wallclock
  BY Zenon, <1>a, <1>16 DEF Wallclock, Goto, Fails, Break
<1>17. CASE Cgroups
  BY Zenon, <1>a, <1>17 DEF Cgroups, Goto, Fails, Break
<1>18. CASE Run
  BY Zenon, <1>a, <1>18 DEF Run, TestBroken, DoExit, RunTest
<1>19. CASE PerFs
  BY Zenon, <1>a, <1>19
    DEF PerFs, DoExit, PrepareDevice, Goto, Brk, Fails, Shrugs, MountRo, Break
<1>20. CASE RunFs
  BY Zenon, <1>a, <1>20 DEF RunFs, TestBroken, DoExit, RunTest
<1>21. CASE UmountFs
  BY Zenon, <1>a, <1>21 DEF UmountFs
<1>22. CASE CgCleanup
  BY Zenon, <1>a, <1>22 DEF CgCleanup, CgBreaks, FailsAgain, Goto, Brk, Fails, Break
<1>23. CASE OvlUmount
  BY Zenon, <1>a, <1>23 DEF OvlUmount, OvlBreaks, FailsAgain, Goto, Break, Brk
<1>24. CASE MntUmount
  BY Zenon, <1>a, <1>24 DEF MntUmount, Goto, GiveBack
<1>25. CASE ReleaseDevice
  BY Zenon, <1>a, <1>25 DEF ReleaseDevice, Goto
<1>26. CASE Rmdir
  BY Zenon, <1>a, <1>26 DEF Rmdir, Goto, GiveBack
<1>27. CASE SysRestore
  BY Zenon, <1>a, <1>27 DEF SysRestore, GotoAt
<1>28. CASE WallclockRestore
  BY Zenon, <1>a, <1>28 DEF WallclockRestore, Goto, Fails, Break
<1>29. CASE CleanupIpc
  BY Zenon, <1>a, <1>29 DEF CleanupIpc
<1>30. CASE UNCHANGED vars
  BY Zenon, <1>a, <1>30 DEF vars
<1> QED BY ZenonT(60), <1>1, <1>2, <1>3, <1>4, <1>5, <1>6, <1>7, <1>8, <1>9, <1>10, <1>11,
           <1>12, <1>13, <1>14, <1>15, <1>16, <1>17, <1>18, <1>19, <1>20, <1>21, <1>22, <1>23,
           <1>24, <1>25, <1>26, <1>27, <1>28, <1>29, <1>30
          DEF Next, Step, Done

\* tst_sys_conf_save() puts an entry in front, or nothing happens; and the test goes on or
\* breaks.
LEMMA SavingStep ==
  ASSUME ConfInv, TypeInv, CountInv, Hugepages \/ SaveRestore
  PROVE  ConfInv'
<1>1. pc' \notin Restored /\ pc' # "sysctl" /\ (pc' \in Entered => i' = 1) /\ UNCHANGED unset
  BY Zenon DEF Hugepages, SaveRestore, Goto, GotoAt, Fails, SysConfSave, SkipConf, Break,
               Restored, Entered, conf
<1>2. CASE UNCHANGED <<sysctl, saved>>
  BY Zenon, <1>1, <1>2, Plain DEF conf
<1>3. ASSUME NEW c, c.path \in Paths, c.val \in Values \cup {NoVal}, Save(c),
             \/ sysctl' = sysctl
             \/ \E v \in Values : sysctl' = [sysctl EXCEPT ![c.path] = v]
      PROVE  ConfInv'
  <2>1. sysctl[c.path] \in Values
    BY Zenon, <1>3 DEF ConfInv
  <2>2. [path |-> c.path, val |-> sysctl[c.path]] \in [path : Paths, val : Values]
    BY Zenon, <1>3, <2>1
  <2>3. QED
    BY Zenon, <1>1, <1>3, <2>2, Saving DEF Save
<1>4. ASSUME NEW c, c.path \in Paths, c.val \in Values \cup {NoVal}, NEW P, NEW G,
             SysConfSave(c, P, G)
      PROVE  ConfInv'
  <2>1. CASE UNCHANGED <<sysctl, saved>>
    BY Zenon, <1>2, <2>1
  <2>2. CASE /\ Save(c)
             /\ sysctl' = IF c.val = NoVal THEN sysctl ELSE [sysctl EXCEPT ![c.path] = c.val]
    BY Zenon, <1>3, <1>4, <2>2
  <2>3. CASE Save(c) /\ UNCHANGED sysctl
    BY Zenon, <1>3, <1>4, <2>3
  <2>4. QED
    BY Zenon, <1>4, <2>1, <2>2, <2>3 DEF SysConfSave
<1>5. CASE Hugepages
  <2>1. CASE UNCHANGED conf
    BY Zenon, <1>2, <2>1 DEF conf
  <2>2. ASSUME NEW c \in test.hugepages,
               \/ SysConfSave(c, Goto("tmpdir"), \E t \in {"TBROK", "TCONF"} : Fails(t))
               \/ Save(c) /\ \E v \in Values : sysctl' = [sysctl EXCEPT ![c.path] = v]
        PROVE  ConfInv'
    <3>1. test.hugepages \subseteq [path : Paths, val : Values]
      BY Zenon, LibSetupAssumption DEF TypeInv
    <3>2. c.path \in Paths /\ c.val \in Values \cup {NoVal}
      BY Zenon, <3>1
    <3>3. QED
      BY Zenon, <1>3, <1>4, <2>2, <3>2
  <2>3. QED
    BY Zenon, <1>5, <2>1, <2>2 DEF Hugepages
<1>6. CASE SaveRestore
  <2>1. CASE UNCHANGED conf
    BY Zenon, <1>2, <2>1 DEF conf
  <2>2. CASE i <= Len(test.save_restore) /\ ~UNCHANGED conf
    <3>1. test.save_restore \in Seq([path : Paths, val : Values \cup {NoVal}, lenient : BOOLEAN])
      BY Zenon, LibSetupAssumption DEF TypeInv
    <3>2. i \in 1 .. Len(test.save_restore)
      BY <2>2, <3>1 DEF CountInv
    <3>3. test.save_restore[i] \in [path : Paths, val : Values \cup {NoVal}, lenient : BOOLEAN]
      BY Zenon, <3>1, <3>2, Entry
    <3>4. /\ test.save_restore[i].path \in Paths
          /\ test.save_restore[i].val \in Values \cup {NoVal}
      BY Zenon, <3>3
    <3>5. QED
      BY Zenon, <1>4, <1>6, <2>2, <3>4 DEF SaveRestore
  <2>3. QED
    BY Zenon, <1>6, <2>1, <2>2 DEF SaveRestore
<1>7. QED
  BY Zenon, <1>5, <1>6

\* The test changes what the library has saved.
LEMMA RunStep ==
  ASSUME ConfInv, Run \/ RunFs
  PROVE  ConfInv'
<1>1. PICK f \in [SavedPaths -> Values] :
        sysctl' = [p \in Paths |-> IF p \in SavedPaths THEN f[p] ELSE sysctl[p]]
  BY Zenon DEF Run, TestBroken, DoExit, RunFs, RunTest
<1>2. /\ sysctl' \in [Paths -> Values] /\ \A p \in Paths \ SavedPaths : sysctl'[p] = sysctl[p]
  BY Zenon, <1>1 DEF ConfInv
<1>3. /\ UNCHANGED <<saved, unset>> /\ pc' \notin Restored /\ pc' # "sysctl"
      /\ pc' \in Entered => i' = 1
  BY Zenon DEF Run, TestBroken, DoExit, RunFs, RunTest, Restored, Entered
<1>4. QED
  BY Zenon, <1>2, <1>3, Changing

\* The files hold at the end what they held before the test, whatever was saved twice,
\* whatever failed and however often do_cleanup() began again, except those a restore
\* could not write (tst_sys_conf_save(), tst_sys_conf_restore()); and the variables have
\* their types.
THEOREM SysctlRestoredHolds == Spec => []SysctlRestored
<1>1. Init => TypeInv /\ CountInv /\ ConfInv
  <2> SUFFICES ASSUME Init PROVE TypeInv /\ CountInv /\ ConfInv
    OBVIOUS
  <2>1. TypeInv
    <3>1. needs_device \in BOOLEAN
      BY DEF Init
    <3>2. QED
      BY Zenon, <3>1 DEF Init, TypeInv, Steps
  <2>2. CountInv
    BY LibSetupAssumption DEF Init, CountInv
  <2>3. saved \in Seq([path : Paths, val : Values]) /\ SavedPaths = {}
    BY DEF Init, SavedPaths
  <2>4. ConfInv
    BY Zenon, <2>3, LibSetupAssumption DEF Init, ConfInv, Entered, Restored
  <2>5. QED
    BY Zenon, <2>1, <2>2, <2>4
<1>2. TypeInv /\ CountInv /\ ConfInv /\ [Next]_vars => (TypeInv /\ CountInv /\ ConfInv)'
  <2> SUFFICES ASSUME TypeInv, CountInv, ConfInv, [Next]_vars PROVE ConfInv'
    BY Zenon, TypeStep, CountStep
  <2>1. CASE Hugepages \/ SaveRestore
    BY Zenon, <2>1, SavingStep
  <2>2. CASE Run \/ RunFs
    BY Zenon, <2>2, RunStep
  <2>3. CASE SysRestore
    BY Zenon, <2>3, Restoring
  <2>4. CASE Step /\ ~Writers
    BY Zenon, <2>4, TidyStep, Plain DEF Tidy
  <2>5. CASE UNCHANGED vars
    <3>1. UNCHANGED <<pc, i, sysctl, saved, unset>> /\ SavedPaths' = SavedPaths
      BY Zenon, <2>5 DEF vars, SavedPaths
    <3>2. \A p, m : Origin(p, m)' <=> Origin(p, m)
      BY Zenon, <3>1 DEF Origin
    <3>3. QED
      BY Zenon, <3>1, <3>2 DEF ConfInv
  <2>6. QED
    BY Zenon, <2>1, <2>2, <2>3, <2>4, <2>5 DEF Next, Done, Writers
<1>3. TypeInv /\ CountInv /\ ConfInv => SysctlRestored
  BY Zenon DEF TypeInv, CountInv, ConfInv, Restored, SysctlRestored, TypeOK
<1>4. QED
  BY <1>1, <1>2, <1>3, PTL DEF Spec
=============================================================================
