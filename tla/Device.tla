------------------------------- MODULE Device -------------------------------
(* Loop devices: tests that run in parallel find a free device of the         *)
(* kernel's table, attach their image to it, use it and detach it, through     *)
(* the library (tst_acquire_device_(), tst_release_device()) or through the    *)
(* tool tst_device.                                                          *)
EXTENDS Integers, FiniteSets

CONSTANTS
  Tests,      \* the tests
  Devs,       \* the loop devices, numbers
  Scenes,     \* what the tests are like and what is around them
  MaxTries    \* how often LOOP_CLR_FD is tried (40 in the code)

\* A test uses the library, the tool (the last kind names its image), or is not there.
Kinds == {"lib", "tool", "toolfile", "absent"}

ASSUME DeviceAssumption ==
  /\ {"udev", "none"} \cap Tests = {}
  /\ Devs \subseteq Nat
  /\ \A s \in Scenes :
       /\ s.kind \in [Tests -> Kinds]
       /\ s.partitions \subseteq Tests   \* those that make a partition on their device
       /\ s.lastclose \in BOOLEAN       \* the kernel has 18048c1af783
       /\ s.udev \in Nat               \* how often udev opens a device
       /\ s.faults \in Nat             \* how many system calls fail
  /\ MaxTries \in Nat \ {0}

VARIABLES
  scene,
  lo,        \* the kernel's devices: state, the test whose image it is, LO_FLAGS_AUTOCLEAR
  openers,   \* who has a device open: <<test, "fd">>, <<test, "mnt">> or <<"udev", "fd">>
  part,      \* the devices with a partition node
  pc,
  dev,       \* dev_path of a test (of its script)
  acquired,  \* device_acquired
  again,     \* the test is in clear_loop_device_partitions()
  tries,     \* i in detach_loop_fd()
  result,    \* how the test ended: "none", "TBROK", "TWARN"
  udev, faults

kernel == <<lo, openers, part>>
vars == <<scene, lo, openers, part, pc, dev, acquired, again, tries, result, udev, faults>>

NoDev == -1
NoTest == "none"
Free == [state |-> "unbound", file |-> NoTest, auto |-> FALSE]

Init ==
  /\ scene \in Scenes
  /\ lo = [d \in Devs |-> Free]
  /\ openers = [d \in Devs |-> {}]
  /\ part = {}
  /\ pc = [p \in Tests |-> IF scene.kind[p] = "absent" THEN "done" ELSE "acquire"]
  /\ dev = [p \in Tests |-> NoDev]
  /\ acquired = [p \in Tests |-> FALSE]
  /\ again = [p \in Tests |-> FALSE]
  /\ tries = [p \in Tests |-> 0]
  /\ result = [p \in Tests |-> "none"]
  /\ udev = scene.udev
  /\ faults = scene.faults
-----------------------------------------------------------------------------
(* The kernel.                                                              *)

\* The partition nodes of a device that is detached may stay for a while.
Lose(d) == part' \in {part, part \ {d}}
\* A close; the last one detaches a device that is marked for it.
Close(d, h) ==
  /\ openers' = [openers EXCEPT ![d] = @ \ {h}]
  /\ IF openers'[d] = {} /\ (lo[d].state = "rundown" \/ lo[d].auto)
     THEN lo' = [lo EXCEPT ![d] = Free] /\ Lose(d)
     ELSE UNCHANGED <<lo, part>>
Open(d, h) == openers' = [openers EXCEPT ![d] = @ \cup {h}]

\* LOOP_CLR_FD of a device that is bound.
ClrFd(d) ==
  IF scene.lastclose
  THEN /\ lo' = [lo EXCEPT ![d] = [state |-> IF Cardinality(openers[d]) = 1 THEN "rundown" ELSE "bound",
                                  file |-> lo[d].file, auto |-> TRUE]]
       /\ UNCHANGED part
  ELSE IF Cardinality(openers[d]) = 1 THEN lo' = [lo EXCEPT ![d] = Free] /\ Lose(d)
       ELSE lo' = [lo EXCEPT ![d].auto = TRUE] /\ UNCHANGED part

\* udev probes the devices that are bound.
UdevOpen(d) ==
  /\ udev > 0 /\ lo[d].state = "bound" /\ <<"udev", "fd">> \notin openers[d]
  /\ udev' = udev - 1
  /\ Open(d, <<"udev", "fd">>)
  /\ UNCHANGED <<scene, lo, part, pc, dev, acquired, again, tries, result, faults>>
UdevClose(d) ==
  /\ <<"udev", "fd">> \in openers[d]
  /\ Close(d, <<"udev", "fd">>)
  /\ UNCHANGED <<scene, pc, dev, acquired, again, tries, result, udev, faults>>
-----------------------------------------------------------------------------
Goto(p, l) == pc' = [pc EXCEPT ![p] = l]
Fault == faults > 0 /\ faults' = faults - 1
Fd(p) == <<p, "fd">>
CloseFdNot(p) == UNCHANGED kernel   \* (Mutant.)  The descriptor is left open.
CloseFd(p) == Close(dev[p], Fd(p))
Ends(p, r) == Goto(p, "done") /\ result' = [result EXCEPT ![p] = r]

\* The caller of a failed attachment: tst_acquire_device_() breaks the test (the
\* tool fails, and the script breaks); clear_loop_device_partitions() goes on.
Unattached(p) ==
  IF again[p] THEN Goto(p, "p_open") /\ UNCHANGED result ELSE Ends(p, "TBROK")

\* tst_acquire_loop_device(): the image is made and a free device is found.
Acquire(p) ==
  /\ pc[p] = "acquire"
  /\ \/ \E d \in Devs :
          /\ lo[d].state = "unbound" /\ \A e \in Devs : lo[e].state = "unbound" => d <= e
          /\ dev' = [dev EXCEPT ![p] = d]
          /\ Goto(p, "open") /\ UNCHANGED <<result, faults>>
     \/ /\ \A d \in Devs : lo[d].state # "unbound"
        /\ Ends(p, "TBROK") /\ UNCHANGED <<dev, faults>>
     \/ Fault /\ Ends(p, "TBROK") /\ UNCHANGED dev
  /\ UNCHANGED <<scene, kernel, acquired, again, tries, udev>>

\* tst_attach_device(): open(), ...
AttachOpen(p) ==
  /\ pc[p] = "open"
  /\ \/ Open(dev[p], Fd(p)) /\ Goto(p, "set_fd") /\ UNCHANGED <<result, faults>>
     \/ Fault /\ Unattached(p) /\ UNCHANGED openers
  /\ UNCHANGED <<scene, lo, part, dev, acquired, again, tries, udev>>

\* (Mutant of SetFd.)  That LOOP_SET_FD fails is not noticed.
SetFdIgnores(p) ==
  /\ pc[p] = "set_fd" /\ Goto(p, "set_status")
  /\ lo' = IF lo[dev[p]].state = "unbound"
           THEN [lo EXCEPT ![dev[p]] = [state |-> "bound", file |-> p, auto |-> FALSE]] ELSE lo
  /\ UNCHANGED <<scene, openers, part, dev, acquired, again, tries, result, udev, faults>>

\* ... LOOP_SET_FD, which fails when the device has been taken (or for another reason), ...
SetFd(p) ==
  /\ pc[p] = "set_fd"
  /\ \/ /\ lo[dev[p]].state = "unbound"
        /\ lo' = [lo EXCEPT ![dev[p]] = [state |-> "bound", file |-> p, auto |-> FALSE]]
        /\ Goto(p, "set_status") /\ UNCHANGED <<openers, part, result, faults>>
     \/ /\ Fault \/ (lo[dev[p]].state # "unbound" /\ UNCHANGED faults)
        /\ CloseFd(p) /\ Unattached(p)
  /\ UNCHANGED <<scene, dev, acquired, again, tries, udev>>

\* tst_acquire_device__() notes that there is a loop device to detach.
Notes(p) == acquired' = [acquired EXCEPT ![p] = @ \/ (~again[p] /\ scene.kind[p] # "toolfile")]

\* ... and LOOP_SET_STATUS.  The device is closed; when that call failed the image
\* stays attached to it.
SetStatus(p) ==
  /\ pc[p] = "set_status"
  /\ \/ /\ lo' = [lo EXCEPT ![dev[p]].auto = FALSE]
        /\ openers' = [openers EXCEPT ![dev[p]] = @ \ {Fd(p)}]
        /\ Goto(p, IF again[p] THEN "p_open" ELSE IF scene.kind[p] = "lib" THEN "use" ELSE "clear")
        /\ Notes(p)
        /\ UNCHANGED <<part, result, faults>>
     \/ Fault /\ CloseFd(p) /\ Unattached(p) /\ UNCHANGED acquired
  /\ UNCHANGED <<scene, dev, again, tries, udev>>

\* The tool clears the device; if it cannot, it releases it (if it was acquired).
ToolClear(p) ==
  /\ pc[p] = "clear"
  /\ acquired' = [acquired EXCEPT ![p] = FALSE]   \* the process ends
  /\ \/ Goto(p, "use") /\ UNCHANGED <<result, faults>>
     \/ /\ Fault
        /\ result' = [result EXCEPT ![p] = "TBROK"]
        /\ Goto(p, IF acquired[p] THEN "r_open" ELSE "done")
  /\ UNCHANGED <<scene, kernel, dev, again, tries, udev>>

\* tst_release_device() does nothing if nothing was acquired in this process; the
\* tool's release is a process of its own and calls tst_detach_device().
ReleaseAt(p) == IF scene.kind[p] = "lib" /\ ~acquired[p] THEN "done" ELSE "r_open"

\* The test may make a partition on its device, and mount it for a while.
Partition(p) ==
  /\ pc[p] = "use" /\ p \in scene.partitions
  /\ part' = part \cup {dev[p]}
  /\ UNCHANGED <<scene, lo, openers, pc, dev, acquired, again, tries, result, udev, faults>>
Mount(p) ==
  /\ pc[p] = "use"
  /\ Open(dev[p], <<p, "mnt">>) /\ Goto(p, "mounted")
  /\ UNCHANGED <<scene, lo, part, dev, acquired, again, tries, result, udev, faults>>
Umount(p) ==
  /\ pc[p] = "mounted"
  /\ Close(dev[p], <<p, "mnt">>) /\ Goto(p, ReleaseAt(p))
  /\ UNCHANGED <<scene, dev, acquired, again, tries, result, udev, faults>>

Release(p) ==
  /\ pc[p] = "use" /\ Goto(p, ReleaseAt(p))
  /\ UNCHANGED <<scene, kernel, dev, acquired, again, tries, result, udev, faults>>
Warned(p) == IF result[p] = "none" THEN "TWARN" ELSE result[p]
\* The device counts as released in any case.
Warns(p) == acquired' = [acquired EXCEPT ![p] = FALSE] /\ Ends(p, Warned(p))
\* tst_detach_device() opens the device ...
DetachOpen(p) ==
  /\ pc[p] = "r_open"
  /\ \/ /\ Open(dev[p], Fd(p)) /\ Goto(p, "clr")
        /\ UNCHANGED <<acquired, result, faults>>
     \/ Fault /\ Warns(p) /\ UNCHANGED openers
  /\ tries' = [tries EXCEPT ![p] = 0]
  /\ UNCHANGED <<scene, lo, part, dev, again, udev>>

\* (Mutant of Detach.)  One successful LOOP_CLR_FD will do.
DetachOnce(p) ==
  /\ pc[p] = "clr" /\ lo[dev[p]].state = "bound"
  /\ lo' = [lo EXCEPT ![dev[p]].auto = TRUE]
  /\ openers' = [openers EXCEPT ![dev[p]] = @ \ {Fd(p)}]
  /\ Goto(p, "part")
  /\ UNCHANGED <<scene, part, dev, acquired, again, tries, result, udev, faults>>

\* ... and detach_loop_fd() clears it until it is told that nothing is attached, that
\* something else is wrong, or has tried often enough.
Detach(p) ==
  /\ pc[p] = "clr"
  /\ \/ /\ tries[p] < MaxTries /\ lo[dev[p]].state = "bound"
        /\ ClrFd(dev[p])
        /\ tries' = [tries EXCEPT ![p] = @ + 1]
        /\ UNCHANGED <<openers, pc, acquired, result, faults>>
     \/ /\ tries[p] < MaxTries /\ lo[dev[p]].state # "bound"
        /\ CloseFd(p)
        /\ IF again[p]
           THEN /\ Ends(p, IF dev[p] \in part THEN Warned(p) ELSE result[p])
                /\ acquired' = [acquired EXCEPT ![p] = FALSE]
           ELSE Goto(p, "part") /\ UNCHANGED <<acquired, result>>
        /\ UNCHANGED <<tries, faults>>
     \/ /\ \/ tries[p] = MaxTries /\ UNCHANGED faults
           \/ tries[p] < MaxTries /\ Fault
        /\ CloseFd(p) /\ Warns(p) /\ UNCHANGED tries
  /\ UNCHANGED <<scene, dev, again, udev>>

\* clear_loop_device_partitions(): if the device, by its path, has a partition, the
\* image is attached again (the library's warning counts, the tool's is only printed), ...
ClearPartitions(p) ==
  /\ pc[p] = "part"
  /\ IF dev[p] \in part
     THEN /\ Goto(p, "open") /\ again' = [again EXCEPT ![p] = TRUE]
          /\ result' = IF scene.kind[p] = "lib" THEN [result EXCEPT ![p] = Warned(p)] ELSE result
          /\ UNCHANGED acquired
     ELSE /\ Ends(p, result[p]) /\ acquired' = [acquired EXCEPT ![p] = FALSE]
          /\ UNCHANGED again
  /\ UNCHANGED <<scene, kernel, dev, tries, udev, faults>>

\* ... its partitions are scanned, which removes the nodes, and it is detached.
ScanPartitions(p) ==
  /\ pc[p] = "p_open"
  /\ \/ /\ Open(dev[p], Fd(p))
        /\ lo' = [lo EXCEPT ![dev[p]].auto = @ /\ lo[dev[p]].state # "bound"]
        /\ part' = IF lo[dev[p]].file = p THEN part \ {dev[p]} ELSE part
        /\ Goto(p, "clr") /\ UNCHANGED <<acquired, result, faults>>
     \/ Fault /\ Warns(p) /\ UNCHANGED kernel
  /\ tries' = [tries EXCEPT ![p] = 0]
  /\ UNCHANGED <<scene, dev, again, udev>>

Step(p) ==
  \/ Acquire(p) \/ AttachOpen(p) \/ SetFd(p) \/ SetStatus(p) \/ ToolClear(p)
  \/ Umount(p) \/ Release(p) \/ DetachOpen(p) \/ Detach(p) \/ ClearPartitions(p)
  \/ ScanPartitions(p)
Uses(p) == Mount(p) \/ Partition(p)
Done == (\A p \in Tests : pc[p] = "done") /\ UNCHANGED vars
Next ==
  \/ \E p \in Tests : Step(p) \/ Uses(p)
  \/ \E d \in Devs : UdevOpen(d) \/ UdevClose(d)
  \/ Done

\* The tests are processes, udev closes what it opened, and the scheduler is fair;
\* a test need not mount.
Spec == Init /\ [][Next]_vars
FairSpec ==
  /\ Spec
  /\ \A p \in Tests : WF_vars(Step(p))
  /\ \A d \in Devs : WF_vars(UdevClose(d))
-----------------------------------------------------------------------------
\* The types; who has detach_loop_fd() or tst_attach_device() under way has the
\* device open, and closes it before anything else.
TypeOK ==
  /\ lo \in [Devs -> [state : {"unbound", "bound", "rundown"}, file : Tests \cup {NoTest}, auto : BOOLEAN]]
  /\ openers \in [Devs -> SUBSET ((Tests \X {"fd", "mnt"}) \cup {<<"udev", "fd">>})]
  /\ part \subseteq Devs
  /\ dev \in [Tests -> Devs \cup {NoDev}]
  /\ acquired \in [Tests -> BOOLEAN] /\ again \in [Tests -> BOOLEAN]
  /\ tries \in [Tests -> 0 .. MaxTries]
  /\ result \in [Tests -> {"none", "TBROK", "TWARN"}]
  /\ udev \in 0 .. scene.udev /\ faults \in 0 .. scene.faults
  /\ \A p \in Tests, d \in Devs :
       <<p, "fd">> \in openers[d] <=> dev[p] = d /\ pc[p] \in {"set_fd", "set_status", "clr"}

Own(p) == pc[p] \in {"use", "mounted"} =>
            lo[dev[p]] = [state |-> "bound", file |-> p, auto |-> FALSE]

\* The device a test was given is its own until it releases it: no other test
\* attaches an image to it, detaches it or marks it to be detached, though
\* detach_loop_fd() tries LOOP_CLR_FD again and again on a device that may not be its
\* any more.  (On a kernel that detaches at the last close, and until some test finds
\* partitions left on its device: clear_loop_device_partitions()
\* detaches and attaches it again, and it may be another's in between.)
Undisturbed == scene.lastclose /\ \A q \in Tests : ~again[q]
UsedIsOwn == Undisturbed => \A p \in Tests : Own(p)

\* A device that is in use by nobody comes back ("Detach loop devices"): in the end
\* every device is free, if no system call failed.
AllFreed == <>[](faults = scene.faults => \A d \in Devs : lo[d].state = "unbound")

\* A test whose device was attached and detached without a failure says so: a clean
\* result means that the detachment was confirmed (ENXIO), not given up.  (And the
\* variables have their types.)
CleanIsDetached ==
  /\ TypeOK
  /\ \A p \in Tests : pc[p] = "done" /\ result[p] = "none" =>
       \A d \in Devs : lo[d].file = p => lo[d].state = "rundown"
=============================================================================
