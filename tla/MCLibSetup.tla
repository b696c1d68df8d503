----------------------------- MODULE MCLibSetup -----------------------------
(* Tests of the kinds found under testcases/, and the paths they set.       *)
EXTENDS LibSetup

Plain == [devshm |-> TRUE, needs_checkpoints |-> FALSE, child_needs_reinit |-> FALSE,
          needs_tmpdir |-> FALSE, mnt |-> "none", filesystems |-> 0, needs_overlay |-> FALSE,
          hugepages |-> {}, save_restore |-> <<>>, restore_wallclock |-> FALSE,
          needs_cgroup_ctrls |-> FALSE]

Conf(p, v, l) == [path |-> p, val |-> v, lenient |-> l]

\* Huge pages whose number is also in save_restore, and a path saved leniently.
Hugetlb == [Plain EXCEPT !.hugepages = {[path |-> "nr_hugepages", val |-> 1]},
                         !.mnt = "hugetlbfs",
                         !.save_restore = <<Conf("nr_hugepages", NoVal, FALSE),
                                            Conf("panic", 1, TRUE)>>]
Checkpoints == [Plain EXCEPT !.needs_checkpoints = TRUE, !.mnt = "devfs"]
Script(shm) == [Plain EXCEPT !.devshm = shm, !.child_needs_reinit = TRUE, !.needs_tmpdir = TRUE]
NoShm == [Plain EXCEPT !.devshm = FALSE, !.mnt = "rofs"]
Rofs == [Plain EXCEPT !.mnt = "rofs"]
Clock == [Plain EXCEPT !.restore_wallclock = TRUE, !.mnt = "mount_device"]
AllFs == [Plain EXCEPT !.filesystems = 2, !.mnt = "mount_device"]
AllFsRaw == [Plain EXCEPT !.filesystems = 2, !.mnt = "device"]
OverlayFs == [Plain EXCEPT !.needs_overlay = TRUE, !.mnt = "mount_device"]
OverlayAllFs == [OverlayFs EXCEPT !.filesystems = 1]
Cgroup == [Plain EXCEPT !.needs_cgroup_ctrls = TRUE, !.mnt = "device"]
OverlayClock == [OverlayFs EXCEPT !.restore_wallclock = TRUE]

MCTests == {Plain, Hugetlb, Checkpoints, Script(TRUE), Script(FALSE), NoShm, Rofs, Clock, AllFs,
            AllFsRaw, OverlayFs, OverlayAllFs, Cgroup, OverlayClock}
MCOverlayTests == {OverlayFs, OverlayClock}
=============================================================================
