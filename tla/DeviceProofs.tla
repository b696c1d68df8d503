---------------------------- MODULE DeviceProofs ----------------------------
(* Any number of tests and of loop devices, any number of failures and any    *)
(* probing by udev: on a kernel that detaches a device at the last close, a     *)
(* test's device is its own while the test uses it, until a test starts to     *)
(* clear partitions; on every kernel, a clean result means a device detached.  *)
EXTENDS Device, TLAPS

Handles == (Tests \X {"fd", "mnt"}) \cup {<<"udev", "fd">>}
Los == [state : {"unbound", "bound", "rundown"}, file : Tests \cup {NoTest}, auto : BOOLEAN]
Labels == {"acquire", "open", "set_fd", "set_status", "clear", "use", "mounted", "r_open", "clr",
           "part", "done"}
Attached == {"set_status", "clear", "use", "mounted", "r_open"}
Bound(p) == [state |-> "bound", file |-> p, auto |-> FALSE]

Types ==
  /\ lo \in [Devs -> Los] /\ openers \in [Devs -> SUBSET Handles]
  /\ pc \in [Tests -> Labels] /\ dev \in [Tests -> Devs \cup {NoDev}]
  /\ again = [p \in Tests |-> FALSE]
  /\ \A p \in Tests : pc[p] \notin {"acquire", "done"} => dev[p] \in Devs

\* From LOOP_SET_FD on the device is the test's, unmarked, until the test starts to
\* detach it; while it detaches it the test has the device open, so that nobody else
\* can be the one whose close frees it.
Held(p, d) == lo[d].file = p /\ lo[d].state # "unbound" /\ <<p, "fd">> \in openers[d]
Mine(p) == /\ pc[p] \in Attached => lo[dev[p]] = Bound(p)
           /\ pc[p] = "clr" => Held(p, dev[p])
Good == Types /\ \A p \in Tests : Mine(p)
Inv == again \in [Tests -> BOOLEAN] /\ (Undisturbed => Good)

\* What a step of one test, or of udev, does to a device of another test: nothing.
Keeps(q) == \A d \in Devs : /\ lo[d] = Bound(q) => lo'[d] = Bound(q)
                            /\ Held(q, d) => Held(q, d)'
Still(q) == pc'[q] = pc[q] /\ dev'[q] = dev[q] /\ Keeps(q)

\* A test whose devices are left alone keeps what it has.
LEMMA Framed ==
  ASSUME NEW q \in Tests, Types, Mine(q), Still(q)
  PROVE  Mine(q)'
BY Zenon DEF Types, Mine, Still, Keeps, Attached

\* A close changes no device but the one closed, and that one only if nobody is left
\* and it is marked.
LEMMA Closing ==
  ASSUME Types, NEW d \in Devs, NEW h \in Handles, Close(d, h)
  PROVE  /\ lo' \in [Devs -> Los] /\ openers' \in [Devs -> SUBSET Handles]
         /\ \A q \in Tests : <<q, "fd">> # h => Keeps(q)
         /\ \A q \in Tests : lo[d] = Bound(q) => lo'[d] = Bound(q)
<1>1. Free \in Los
  BY Zenon DEF Free, Los
<1>2. openers' = [openers EXCEPT ![d] = @ \ {h}]
  BY Zenon DEF Close
<1>3. CASE openers'[d] = {} /\ (lo[d].state = "rundown" \/ lo[d].auto)
  <2>1. lo' = [lo EXCEPT ![d] = Free]
    BY Zenon, <1>3 DEF Close
  <2>2. \A q \in Tests : lo[d] # Bound(q)
    BY <1>3 DEF Bound
  <2>3. ASSUME NEW q \in Tests, <<q, "fd">> # h, NEW e \in Devs, Held(q, e) PROVE Held(q, e)'
    <3>1. e # d
      BY Zenon, <1>2, <1>3, <2>3 DEF Held, Types
    <3>2. QED
      BY Zenon, <1>2, <2>1, <2>3, <3>1 DEF Held, Types
  <2>4. QED
    BY Zenon, <1>1, <1>2, <2>1, <2>2, <2>3 DEF Types, Keeps
<1>4. CASE ~(openers'[d] = {} /\ (lo[d].state = "rundown" \/ lo[d].auto))
  <2>1. lo' = lo
    BY Zenon, <1>4 DEF Close
  <2>2. ASSUME NEW q \in Tests, <<q, "fd">> # h, NEW e \in Devs, Held(q, e) PROVE Held(q, e)'
    BY Zenon, <1>2, <2>1, <2>2 DEF Held, Types
  <2>3. QED
    BY Zenon, <1>2, <2>1, <2>2 DEF Types, Keeps
<1>5. QED
  BY Zenon, <1>3, <1>4

\* The handles of tests and of udev are all different.
LEMMA Handled == \A p \in Tests : /\ Fd(p) \in Handles /\ <<p, "mnt">> \in Handles
                                  /\ Fd(p) = <<p, "fd">> /\ <<p, "mnt">> # <<p, "fd">>
                                  /\ <<p, "fd">> # <<"udev", "fd">>
                                  /\ \A q \in Tests : <<p, "fd">> = <<q, "fd">> => p = q
                                  /\ \A q \in Tests : <<p, "mnt">> # <<q, "fd">>
BY Zenon, DeviceAssumption DEF Fd, Handles

\* An open() takes nothing away.
LEMMA Opening ==
  ASSUME Types, NEW d \in Devs, NEW h \in Handles, Open(d, h), UNCHANGED lo
  PROVE  /\ openers' \in [Devs -> SUBSET Handles]
         /\ \A q \in Tests : Keeps(q)
         /\ h \in openers'[d]
BY Zenon DEF Open, Types, Keeps, Held

\* Nor does a step that leaves the kernel alone.
LEMMA Unchanged ==
  ASSUME UNCHANGED <<lo, openers>>, NEW q \in Tests
  PROVE  Keeps(q)
BY Zenon DEF Keeps, Held

\* A step of one test: its own part is shown, the others' follows.
LEMMA OneMoves ==
  ASSUME Good, NEW p \in Tests, Types', Mine(p)',
         \A q \in Tests \ {p} : Keeps(q),
         NEW l, Goto(p, l), UNCHANGED dev \/ \E d : dev' = [dev EXCEPT ![p] = d]
  PROVE  Good'
<1>1. \A q \in Tests \ {p} : Still(q)
  BY Zenon DEF Still, Goto, Good, Types
<1>2. QED
  BY Zenon, <1>1, Framed DEF Good

\* At the start no test has a device.
LEMMA Begin == Init => Inv
<1>1. Init => again = [p \in Tests |-> FALSE]
  BY Zenon DEF Init
<1>2. Init => Good
  BY DEF Init, Good, Types, Mine, Free, Los, Labels, Attached, NoDev
<1>3. QED
  BY Zenon, <1>1, <1>2 DEF Inv

\* No test that has started to clear partitions takes it back, and the kernel stays.
LEMMA Disturbance ==
  ASSUME again \in [Tests -> BOOLEAN], [Next]_vars
  PROVE  again' \in [Tests -> BOOLEAN] /\ (Undisturbed' => Undisturbed)
<1>1. scene' = scene
  BY ZenonT(60)
    DEF Next, Step, Uses, Done, vars, Acquire, AttachOpen, SetFd, SetStatus, ToolClear, Umount,
        Release, DetachOpen, Detach, ClearPartitions, ScanPartitions, Mount, Partition,
        UdevOpen, UdevClose
<1>2. again' = again \/ \E p \in Tests : again' = [again EXCEPT ![p] = TRUE]
  BY ZenonT(60)
    DEF Next, Step, Uses, Done, vars, Acquire, AttachOpen, SetFd, SetStatus, ToolClear, Umount,
        Release, DetachOpen, Detach, ClearPartitions, ScanPartitions, Mount, Partition,
        UdevOpen, UdevClose
<1>3. QED
  BY Zenon, <1>1, <1>2 DEF Undisturbed

\* Every step, as long as no test clears partitions.
LEMMA Inductive ==
  ASSUME Undisturbed, Undisturbed', Good, [Next]_vars
  PROVE  Good'
<1>0. Types /\ \A p \in Tests : Mine(p)
  BY Zenon DEF Good
<1>1. ASSUME NEW p \in Tests, Acquire(p) PROVE Good'
  <2>1. Types'
    BY ZenonT(60), <1>0, <1>1 DEF Acquire, Types, Labels, Goto, Ends, kernel
  <2>2. Mine(p)'
    BY Zenon, <1>0, <1>1 DEF Acquire, Types, Mine, Attached, Goto, Ends, kernel
  <2>3. \A q \in Tests \ {p} : Keeps(q)
    BY Zenon, <1>1, Unchanged DEF Acquire, Ends, kernel
  <2>4. QED
    BY Zenon, <1>0, <1>1, <2>1, <2>2, <2>3, OneMoves DEF Acquire, Ends, kernel
<1>2. ASSUME NEW p \in Tests, AttachOpen(p) PROVE Good'
  <2>0. dev[p] \in Devs /\ ~again[p]
    BY Zenon, <1>0, <1>2 DEF AttachOpen, Types
  <2>1. CASE Open(dev[p], Fd(p)) /\ Goto(p, "set_fd")
    <3>1. Types'
      BY Zenon, <1>0, <1>2, <2>0, <2>1, Opening, Handled DEF AttachOpen, Types, Labels, Goto
    <3>2. Mine(p)'
      BY <1>0, <1>2, <2>0, <2>1, Opening, Handled
        DEF AttachOpen, Types, Mine, Held, Bound, Attached, Goto
    <3>3. \A q \in Tests \ {p} : Keeps(q)
      BY Zenon, <1>0, <1>2, <2>0, <2>1, Opening, Handled DEF AttachOpen
    <3>4. QED
      BY Zenon, <1>0, <1>2, <2>1, <3>1, <3>2, <3>3, OneMoves DEF AttachOpen
  <2>2. CASE Unattached(p) /\ UNCHANGED openers
    <3>1. Types'
      BY Zenon, <1>0, <1>2, <2>0, <2>2, Unchanged, Handled
        DEF AttachOpen, Types, Labels, Goto, Unattached, Ends
    <3>2. Mine(p)'
      BY ZenonT(60), <1>0, <1>2, <2>0, <2>2, Unchanged, Handled
        DEF AttachOpen, Types, Mine, Held, Bound, Attached, Goto, Unattached, Ends
    <3>3. \A q \in Tests \ {p} : Keeps(q)
      BY Zenon, <1>0, <1>2, <2>0, <2>2, Unchanged, Handled DEF AttachOpen, Unattached, Ends
    <3>4. QED
      BY Zenon, <1>0, <1>2, <2>2, <3>1, <3>2, <3>3, OneMoves DEF AttachOpen, Unattached, Ends
  <2>3. QED
    BY Zenon, <1>2, <2>1, <2>2 DEF AttachOpen
<1>3. ASSUME NEW p \in Tests, SetFd(p) PROVE Good'
  <2>0. dev[p] \in Devs /\ ~again[p]
    BY Zenon, <1>0, <1>3 DEF SetFd, Types
  <2>1. CASE /\ lo[dev[p]].state = "unbound" /\ lo' = [lo EXCEPT ![dev[p]] = Bound(p)]
             /\ Goto(p, "set_status") /\ UNCHANGED openers
    <3>1. /\ lo' = [lo EXCEPT ![dev[p]] = Bound(p)] /\ Goto(p, "set_status")
          /\ UNCHANGED <<openers, dev, again>>
      BY Zenon, <1>3, <2>1 DEF SetFd, Bound
    <3>2. Types'
      BY Zenon, <1>0, <2>0, <3>1 DEF Types, Bound, Los, Labels, Goto
    <3>3. Mine(p)'
      BY Zenon, <1>0, <2>0, <3>1 DEF Types, Mine, Attached, Goto
    <3>4. \A q \in Tests \ {p} : Keeps(q)
      <4>1. /\ \A q : lo[dev[p]] # Bound(q) /\ ~Held(q, dev[p])
            /\ \A e \in Devs \ {dev[p]} : lo'[e] = lo[e]
        BY <1>0, <2>0, <2>1, <3>1 DEF Types, Held, Bound
      <4>2. QED
        BY Zenon, <3>1, <4>1 DEF Keeps, Held
    <3>5. QED
      BY Zenon, <1>0, <3>1, <3>2, <3>3, <3>4, OneMoves
  <2>2. CASE CloseFd(p) /\ Unattached(p)
    <3>1. Types'
      BY Zenon, <1>0, <1>3, <2>0, <2>2, Closing, Handled
        DEF SetFd, Types, Labels, Goto, Unattached, Ends, CloseFd
    <3>2. Mine(p)'
      BY ZenonT(60), <1>0, <1>3, <2>0, <2>2, Closing, Handled
        DEF SetFd, Types, Mine, Held, Bound, Attached, Goto, Unattached, Ends, CloseFd
    <3>3. \A q \in Tests \ {p} : Keeps(q)
      BY Zenon, <1>0, <1>3, <2>0, <2>2, Closing, Handled DEF SetFd, Unattached, Ends, CloseFd
    <3>4. QED
      BY Zenon, <1>0, <1>3, <2>2, <3>1, <3>2, <3>3, OneMoves
        DEF SetFd, Unattached, Ends, CloseFd
  <2>3. QED
    BY Zenon, <1>3, <2>1, <2>2 DEF SetFd, Bound
<1>4. ASSUME NEW p \in Tests, SetStatus(p) PROVE Good'
  <2>0. dev[p] \in Devs /\ ~again[p] /\ lo[dev[p]] = Bound(p) /\ pc[p] = "set_status"
    BY Zenon, <1>0, <1>4 DEF SetStatus, Types, Mine, Attached
  <2>1. CASE CloseFd(p) /\ Unattached(p)
    <3>1. Types'
      BY Zenon, <1>0, <1>4, <2>0, <2>1, Closing, Handled
        DEF SetStatus, Types, Labels, Goto, Unattached, Ends, CloseFd
    <3>2. Mine(p)'
      BY ZenonT(60), <1>0, <1>4, <2>0, <2>1, Closing, Handled
        DEF SetStatus, Types, Mine, Held, Bound, Attached, Goto, Unattached, Ends, CloseFd
    <3>3. \A q \in Tests \ {p} : Keeps(q)
      BY Zenon, <1>0, <1>4, <2>0, <2>1, Closing, Handled
        DEF SetStatus, Unattached, Ends, CloseFd
    <3>4. QED
      BY Zenon, <1>0, <1>4, <2>1, <3>1, <3>2, <3>3, OneMoves
        DEF SetStatus, Unattached, Ends, CloseFd
  <2>2. CASE /\ lo' = [lo EXCEPT ![dev[p]].auto = FALSE]
             /\ openers' = [openers EXCEPT ![dev[p]] = @ \ {Fd(p)}]
             /\ Goto(p, IF again[p] THEN "p_open"
                        ELSE IF scene.kind[p] = "lib" THEN "use" ELSE "clear")
    <3>1. lo' = lo
      BY <1>0, <2>0, <2>2 DEF Types, Bound
    <3>2. Types'
      <4>1. PICK l \in {"use", "clear"} : pc' = [pc EXCEPT ![p] = l]
        BY Zenon, <2>0, <2>2 DEF Goto
      <4>2. openers' \in [Devs -> SUBSET Handles] /\ pc' \in [Tests -> Labels]
        BY Zenon, <1>0, <2>2, <4>1 DEF Types, Labels
      <4>3. QED
        BY Zenon, <1>0, <1>4, <2>0, <3>1, <4>1, <4>2 DEF SetStatus, Types
    <3>3. Mine(p)'
      BY Zenon, <1>0, <1>4, <2>0, <2>2, <3>1 DEF SetStatus, Types, Mine, Attached, Goto
    <3>4. \A q \in Tests \ {p} : Keeps(q)
      BY Zenon, <1>0, <2>0, <2>2, <3>1, Handled DEF Types, Keeps, Held
    <3>5. QED
      BY Zenon, <1>0, <1>4, <2>2, <3>2, <3>3, <3>4, OneMoves DEF SetStatus
  <2>3. QED
    BY Zenon, <1>4, <2>1, <2>2 DEF SetStatus
<1>5. ASSUME NEW p \in Tests, ToolClear(p) PROVE Good'
  <2>1. Types'
    BY Zenon, <1>0, <1>5 DEF ToolClear, Types, Labels, Goto, kernel
  <2>2. Mine(p)'
    BY Zenon, <1>0, <1>5 DEF ToolClear, Types, Mine, Attached, Goto, kernel
  <2>3. \A q \in Tests \ {p} : Keeps(q)
    BY Zenon, <1>5, Unchanged DEF ToolClear, kernel
  <2>4. QED
    BY Zenon, <1>0, <1>5, <2>1, <2>2, <2>3, OneMoves DEF ToolClear, kernel
<1>6. ASSUME NEW p \in Tests, Umount(p) PROVE Good'
  <2>0. dev[p] \in Devs /\ lo[dev[p]] = Bound(p)
    BY Zenon, <1>0, <1>6 DEF Umount, Types, Mine, Attached
  <2>1. Types'
    BY Zenon, <1>0, <1>6, <2>0, Closing, Handled DEF Umount, Types, Labels, Goto, ReleaseAt
  <2>2. Mine(p)'
    BY ZenonT(60), <1>0, <1>6, <2>0, Closing, Handled
      DEF Umount, Types, Mine, Held, Bound, Attached, Goto, ReleaseAt
  <2>3. \A q \in Tests \ {p} : Keeps(q)
    BY Zenon, <1>0, <1>6, <2>0, Closing, Handled DEF Umount, ReleaseAt
  <2>4. QED
    BY Zenon, <1>0, <1>6, <2>1, <2>2, <2>3, OneMoves DEF Umount, ReleaseAt
<1>7. ASSUME NEW p \in Tests, Release(p) PROVE Good'
  <2>1. Types'
    BY Zenon, <1>0, <1>7 DEF Release, Types, Labels, Goto, kernel, ReleaseAt
  <2>2. Mine(p)'
    BY Zenon, <1>0, <1>7 DEF Release, Types, Mine, Attached, Goto, kernel, ReleaseAt
  <2>3. \A q \in Tests \ {p} : Keeps(q)
    BY Zenon, <1>7, Unchanged DEF Release, kernel, ReleaseAt
  <2>4. QED
    BY Zenon, <1>0, <1>7, <2>1, <2>2, <2>3, OneMoves DEF Release, kernel, ReleaseAt
<1>8. ASSUME NEW p \in Tests, DetachOpen(p) PROVE Good'
  <2>0. dev[p] \in Devs /\ lo[dev[p]] = Bound(p)
    BY Zenon, <1>0, <1>8 DEF DetachOpen, Types, Mine, Attached
  <2>1. CASE Open(dev[p], Fd(p)) /\ Goto(p, "clr")
    <3>1. Types'
      BY Zenon, <1>0, <1>8, <2>0, <2>1, Opening, Handled DEF DetachOpen, Types, Labels, Goto
    <3>2. Mine(p)'
      <4>1. pc'[p] = "clr" /\ dev' = dev /\ lo' = lo /\ <<p, "fd">> \in openers'[dev[p]]
        BY Zenon, <1>0, <1>8, <2>0, <2>1 DEF DetachOpen, Types, Goto, Open, Fd
      <4>2. QED
        BY <2>0, <4>1 DEF Mine, Held, Bound, Attached
    <3>3. \A q \in Tests \ {p} : Keeps(q)
      BY Zenon, <1>0, <1>8, <2>0, <2>1, Opening, Handled DEF DetachOpen
    <3>4. QED
      BY Zenon, <1>0, <1>8, <2>1, <3>1, <3>2, <3>3, OneMoves DEF DetachOpen
  <2>2. CASE Warns(p) /\ UNCHANGED openers
    <3>1. Types'
      BY Zenon, <1>0, <1>8, <2>0, <2>2, Unchanged, Handled
        DEF DetachOpen, Types, Labels, Goto, Warns, Ends
    <3>2. Mine(p)'
      BY Zenon, <1>0, <1>8, <2>0, <2>2, Unchanged, Handled
        DEF DetachOpen, Types, Mine, Held, Bound, Attached, Goto, Warns, Ends
    <3>3. \A q \in Tests \ {p} : Keeps(q)
      BY Zenon, <1>0, <1>8, <2>0, <2>2, Unchanged, Handled DEF DetachOpen, Warns, Ends
    <3>4. QED
      BY Zenon, <1>0, <1>8, <2>2, <3>1, <3>2, <3>3, OneMoves DEF DetachOpen, Warns, Ends
  <2>3. QED
    BY Zenon, <1>8, <2>1, <2>2 DEF DetachOpen
<1>9. ASSUME NEW p \in Tests, Detach(p) PROVE Good'
  <2>0. dev[p] \in Devs /\ ~again[p] /\ pc[p] = "clr" /\ Held(p, dev[p])
    BY Zenon, <1>0, <1>9 DEF Detach, Types, Mine
  <2>1. CASE ClrFd(dev[p]) /\ UNCHANGED <<openers, pc>>
    <3>1. /\ lo' \in [Devs -> Los]
          /\ \A e \in Devs \ {dev[p]} : lo'[e] = lo[e]
          /\ lo'[dev[p]].file = p /\ lo'[dev[p]].state # "unbound"
      <4>1. PICK st \in {"bound", "rundown"} :
              lo' = [lo EXCEPT
                       ![dev[p]] = [state |-> st, file |-> lo[dev[p]].file, auto |-> TRUE]]
        BY Zenon, <2>1 DEF ClrFd, Undisturbed
      <4>2. lo[dev[p]].file = p
        BY Zenon, <2>0 DEF Held
      <4>3. lo' = [lo EXCEPT ![dev[p]] = [state |-> st, file |-> p, auto |-> TRUE]]
        BY Zenon, <4>1, <4>2
      <4>4. QED
        BY Zenon, <1>0, <2>0, <4>2, <4>3 DEF Types, Los
    <3>2. Types'
      BY Zenon, <1>0, <1>9, <2>1, <3>1 DEF Detach, Types
    <3>3. Mine(p)'
      BY Zenon, <1>0, <1>9, <2>0, <2>1, <3>1 DEF Detach, Types, Mine, Held, Attached
    <3>4. ASSUME NEW q \in Tests \ {p} PROVE Still(q)
      BY <1>0, <1>9, <2>0, <2>1, <3>1 DEF Detach, Types, Still, Keeps, Held, Bound
    <3>5. QED
      BY Zenon, <1>0, <3>2, <3>3, <3>4, Framed DEF Good
  <2>2. CASE CloseFd(p) /\ Goto(p, "done")
    <3>1. Types'
      BY Zenon, <1>0, <1>9, <2>0, <2>2, Closing, Handled
        DEF Detach, Types, Labels, Goto, CloseFd
    <3>2. Mine(p)'
      BY Zenon, <1>0, <1>9, <2>0, <2>2, Closing, Handled
        DEF Detach, Types, Mine, Held, Bound, Attached, Goto, CloseFd
    <3>3. \A q \in Tests \ {p} : Keeps(q)
      BY Zenon, <1>0, <1>9, <2>0, <2>2, Closing, Handled DEF Detach, CloseFd
    <3>4. QED
      BY Zenon, <1>0, <1>9, <2>2, <3>1, <3>2, <3>3, OneMoves DEF Detach, CloseFd
  <2>3. CASE CloseFd(p) /\ Goto(p, "part")
    <3>1. Types'
      BY Zenon, <1>0, <1>9, <2>0, <2>3, Closing, Handled
        DEF Detach, Types, Labels, Goto, CloseFd
    <3>2. Mine(p)'
      BY Zenon, <1>0, <1>9, <2>0, <2>3, Closing, Handled
        DEF Detach, Types, Mine, Held, Bound, Attached, Goto, CloseFd
    <3>3. \A q \in Tests \ {p} : Keeps(q)
      BY Zenon, <1>0, <1>9, <2>0, <2>3, Closing, Handled DEF Detach, CloseFd
    <3>4. QED
      BY Zenon, <1>0, <1>9, <2>3, <3>1, <3>2, <3>3, OneMoves DEF Detach, CloseFd
  <2>4. QED
    BY Zenon, <1>9, <2>1, <2>2, <2>3 DEF Detach, Warns, Ends
<1>10. ASSUME NEW p \in Tests, ClearPartitions(p) PROVE Good'
  <2>0. dev[p] \notin part
    BY Zenon, <1>0, <1>10 DEF ClearPartitions, Types, Undisturbed
  <2>1. Types'
    BY Zenon, <1>0, <1>10, <2>0 DEF ClearPartitions, Types, Labels, Goto, Ends, kernel
  <2>2. Mine(p)'
    BY Zenon, <1>0, <1>10, <2>0 DEF ClearPartitions, Types, Mine, Attached, Goto, Ends, kernel
  <2>3. \A q \in Tests \ {p} : Keeps(q)
    BY Zenon, <1>10, Unchanged DEF ClearPartitions, Ends, kernel
  <2>4. QED
    BY Zenon, <1>0, <1>10, <2>0, <2>1, <2>2, <2>3, OneMoves DEF ClearPartitions, Ends, kernel
<1>11. ASSUME NEW p \in Tests, ScanPartitions(p) PROVE Good'
  BY Zenon, <1>0, <1>11 DEF ScanPartitions, Types, Labels
<1>12. ASSUME NEW p \in Tests, Mount(p) PROVE Good'
  <2>0. dev[p] \in Devs /\ lo[dev[p]] = Bound(p)
    BY Zenon, <1>0, <1>12 DEF Mount, Types, Mine, Attached
  <2>1. Types'
    BY Zenon, <1>0, <1>12, <2>0, Opening, Handled DEF Mount, Types, Labels, Goto
  <2>2. Mine(p)'
    BY Zenon, <1>0, <1>12, <2>0 DEF Mount, Types, Mine, Attached, Goto
  <2>3. \A q \in Tests \ {p} : Keeps(q)
    BY Zenon, <1>0, <1>12, <2>0, Opening, Handled DEF Mount
  <2>4. QED
    BY Zenon, <1>0, <1>12, <2>1, <2>2, <2>3, OneMoves DEF Mount
<1>13. ASSUME NEW d \in Devs, UdevOpen(d) PROVE Good'
  <2>1. <<"udev", "fd">> \in Handles
    BY Zenon DEF Handles
  <2>2. Types'
    BY Zenon, <1>0, <1>13, <2>1, Opening DEF UdevOpen, Types
  <2>3. \A q \in Tests : Still(q)
    BY Zenon, <1>0, <1>13, <2>1, Opening DEF UdevOpen, Still
  <2>4. QED
    BY Zenon, <1>0, <2>2, <2>3, Framed DEF Good
<1>14. ASSUME NEW d \in Devs, UdevClose(d) PROVE Good'
  <2>1. <<"udev", "fd">> \in Handles
    BY Zenon DEF Handles
  <2>2. Types'
    BY Zenon, <1>0, <1>14, <2>1, Closing DEF UdevClose, Types
  <2>3. \A q \in Tests : Still(q)
    BY Zenon, <1>0, <1>14, <2>1, Closing, Handled DEF UdevClose, Still
  <2>4. QED
    BY Zenon, <1>0, <2>2, <2>3, Framed DEF Good
<1>15. ASSUME NEW p \in Tests, Partition(p) PROVE Good'
  BY Zenon, <1>0, <1>15 DEF Partition, Types, Mine, Held, Good
<1>16. CASE UNCHANGED vars
  BY Zenon, <1>0, <1>16 DEF vars, Types, Mine, Held, Good
<1>17. QED
  BY Zenon, <1>1, <1>2, <1>3, <1>4, <1>5, <1>6, <1>7, <1>8, <1>9, <1>10, <1>11, <1>12, <1>13,
     <1>14, <1>15, <1>16
    DEF Next, Step, Uses, Done

\* The device a test was given stays its own while the test uses it, for every number
\* of tests, devices and failures (tst_attach_device() against detach_loop_fd() of the
\* other tests), on a kernel that detaches at the last close, as long as
\* clear_loop_device_partitions() finds nothing to clear.
THEOREM UsedIsOwnHolds == Spec => []UsedIsOwn
<1>1. Inv => UsedIsOwn
  BY Zenon DEF Inv, Good, Mine, UsedIsOwn, Own, Attached, Bound
<1>2. Inv /\ [Next]_vars => Inv'
  BY Zenon, Disturbance, Inductive DEF Inv
<1>3. QED
  BY <1>1, <1>2, Begin, PTL DEF Spec
-----------------------------------------------------------------------------
(* A clean result, on every kernel and with partitions.                        *)

AllLabels == Labels \cup {"p_open"}
HasFd == {"set_fd", "set_status", "clr"}

\* What TypeOK says of the variables one by one.
Typed ==
  /\ scene \in Scenes
  /\ lo \in [Devs -> Los] /\ openers \in [Devs -> SUBSET Handles] /\ part \subseteq Devs
  /\ pc \in [Tests -> AllLabels] /\ dev \in [Tests -> Devs \cup {NoDev}]
  /\ acquired \in [Tests -> BOOLEAN] /\ again \in [Tests -> BOOLEAN]
  /\ tries \in [Tests -> 0 .. MaxTries]
  /\ result \in [Tests -> {"none", "TBROK", "TWARN"}]
  /\ udev \in 0 .. scene.udev /\ faults \in 0 .. scene.faults
  /\ \A d \in Devs : lo[d].state = "unbound" => lo[d].file = NoTest

\* The descriptor of a test is open while the test is between its open() and its close().
FdOpen(p) == \A d \in Devs : <<p, "fd">> \in openers[d] <=> dev[p] = d /\ pc[p] \in HasFd

\* An image is attached nowhere but to the device its test was given.  The library
\* remembers that it has acquired a device (the tool's clear is not its).  Once the
\* detachment is confirmed the image is on no device that is bound: only LOOP_SET_FD of
\* the test itself would bind it.
Settled(p) ==
  /\ pc[p] \notin {"acquire", "done"} => dev[p] \in Devs
  /\ \A d \in Devs : lo[d].file = p => dev[p] = d /\ pc[p] # "acquire"
  /\ scene.kind[p] = "lib" => pc[p] # "clear" /\ (pc[p] \in {"use", "mounted"} => acquired[p])
  /\ pc[p] \in {"part", "done"} /\ result[p] = "none" =>
       \A d \in Devs : lo[d].file = p => lo[d].state = "rundown"
CleanInv == Typed /\ \A p \in Tests : FdOpen(p) /\ Settled(p)

\* A step may take the image of a test off a device, never put it on one nor bind one
\* that is being taken down.
Loses(q) == \A d \in Devs : lo'[d].file = q =>
              lo[d].file = q /\ (lo[d].state = "rundown" => lo'[d].state = "rundown")
KernelOK == /\ lo' \in [Devs -> Los] /\ openers' \in [Devs -> SUBSET Handles]
            /\ part' \subseteq Devs
            /\ \A d \in Devs : lo'[d].state = "unbound" => lo'[d].file = NoTest

\* A device that is freed belongs to no test.
LEMMA Freeing ==
  ASSUME Typed, NEW d \in Devs, lo' = [lo EXCEPT ![d] = Free]
  PROVE  /\ lo' \in [Devs -> Los] /\ \A q \in Tests : Loses(q)
         /\ \A e \in Devs : lo'[e].state = "unbound" => lo'[e].file = NoTest
<1>1. Free \in Los /\ Free.file = NoTest /\ NoTest \notin Tests
  BY Zenon, DeviceAssumption DEF Free, Los, NoTest
<1>2. QED
  BY Zenon, <1>1 DEF Typed, Loses

\* LO_FLAGS_AUTOCLEAR, and the state of a bound device, change alone.
LEMMA Marking ==
  ASSUME Typed, NEW d \in Devs, lo' \in [Devs -> Los], \A e \in Devs \ {d} : lo'[e] = lo[e],
         lo'[d].file = lo[d].file,
         \/ lo'[d].state = lo[d].state
         \/ lo[d].state = "bound" /\ lo'[d].state = "rundown"
  PROVE  /\ \A q \in Tests : Loses(q)
         /\ \A e \in Devs : lo'[e].state = "unbound" => lo'[e].file = NoTest
<1>1. lo'[d].state = "unbound" => lo[d].state = "unbound"
  OBVIOUS
<1>2. lo[d].state = "rundown" => lo'[d].state = "rundown"
  OBVIOUS
<1>3. QED
  BY Zenon, <1>1, <1>2 DEF Typed, Loses
\* LO_FLAGS_AUTOCLEAR changes.
LEMMA Autoclear ==
  ASSUME Typed, NEW d \in Devs, NEW b \in BOOLEAN, lo' = [lo EXCEPT ![d].auto = b]
  PROVE  /\ lo' \in [Devs -> Los] /\ \A q \in Tests : Loses(q)
         /\ \A e \in Devs : lo'[e].state = "unbound" => lo'[e].file = NoTest
<1>1. /\ lo' \in [Devs -> Los] /\ \A e \in Devs \ {d} : lo'[e] = lo[e]
      /\ lo'[d].file = lo[d].file /\ lo'[d].state = lo[d].state
  BY ZenonT(60) DEF Typed, Los
<1>2. QED
  BY Zenon, <1>1, Marking

\* The kernel's part of a step that leaves the devices alone.
LEMMA Idle ==
  ASSUME Typed, UNCHANGED lo
  PROVE  /\ lo' \in [Devs -> Los] /\ \A q \in Tests : Loses(q)
         /\ \A e \in Devs : lo'[e].state = "unbound" => lo'[e].file = NoTest
BY Zenon DEF Typed, Loses

\* Close(), whoever calls it.
LEMMA Closes ==
  ASSUME Typed, NEW d \in Devs, NEW h \in Handles, Close(d, h)
  PROVE  /\ KernelOK /\ \A q \in Tests : Loses(q)
         /\ openers' = [openers EXCEPT ![d] = @ \ {h}]
<1>1. openers' = [openers EXCEPT ![d] = @ \ {h}] /\ openers' \in [Devs -> SUBSET Handles]
  BY Zenon DEF Close, Typed
<1>2. part' \subseteq Devs
  BY Zenon DEF Close, Lose, Typed
<1>3. lo' = [lo EXCEPT ![d] = Free] \/ UNCHANGED lo
  BY Zenon DEF Close
<1>4. QED
  BY Zenon, <1>1, <1>2, <1>3, Freeing, Idle DEF KernelOK
\* Open(), whoever calls it.
LEMMA Opens ==
  ASSUME Typed, NEW d \in Devs, NEW h \in Handles, Open(d, h), UNCHANGED <<lo, part>>
  PROVE  /\ KernelOK /\ \A q \in Tests : Loses(q)
         /\ openers' = [openers EXCEPT ![d] = @ \cup {h}]
<1>1. openers' = [openers EXCEPT ![d] = @ \cup {h}] /\ openers' \in [Devs -> SUBSET Handles]
  BY Zenon DEF Open, Typed
<1>2. QED
  BY Zenon, <1>1, Idle DEF KernelOK, Typed
\* A step that leaves the kernel alone.
LEMMA Rests ==
  ASSUME Typed, UNCHANGED kernel
  PROVE  KernelOK /\ \A q \in Tests : Loses(q)
BY Zenon, Idle DEF KernelOK, Typed, kernel

\* LOOP_CLR_FD of a bound device, on either kernel.
LEMMA Clears ==
  ASSUME Typed, NEW d \in Devs, lo[d].state = "bound", ClrFd(d), UNCHANGED openers
  PROVE  KernelOK /\ \A q \in Tests : Loses(q)
<1>1. part' \subseteq Devs
  BY Zenon DEF ClrFd, Lose, Typed
<1>2. CASE lo' = [lo EXCEPT ![d] = Free]
  BY Zenon, <1>1, <1>2, Freeing DEF KernelOK, Typed
<1>3. CASE lo' = [lo EXCEPT ![d].auto = TRUE]
  BY Zenon, <1>1, <1>3, Autoclear DEF KernelOK, Typed
<1>4. ASSUME NEW st \in {"bound", "rundown"},
             lo' = [lo EXCEPT ![d] = [state |-> st, file |-> lo[d].file, auto |-> TRUE]]
      PROVE  KernelOK /\ \A q \in Tests : Loses(q)
  <2>1. lo[d].file \in Tests \cup {NoTest}
    BY Zenon DEF Typed, Los
  <2>2. [state |-> st, file |-> lo[d].file, auto |-> TRUE] \in Los
    BY Zenon, <2>1 DEF Los
  <2>3. /\ lo' \in [Devs -> Los] /\ \A e \in Devs \ {d} : lo'[e] = lo[e]
        /\ lo'[d].file = lo[d].file /\ lo'[d].state = st
    BY Zenon, <1>4, <2>2 DEF Typed
  <2>4. QED
    BY Zenon, <1>1, <2>3, Marking DEF KernelOK, Typed
<1>5. QED
  BY Zenon, <1>2, <1>3, <1>4 DEF ClrFd

\* A step leaves a test alone: its place, its device, its result and its descriptor.
Aside(p) ==
  /\ scene' = scene
  /\ \A q \in Tests \ {p} :
       /\ pc'[q] = pc[q] /\ dev'[q] = dev[q]
       /\ result'[q] = result[q] /\ acquired'[q] = acquired[q]
       /\ Loses(q)
       /\ \A d \in Devs : <<q, "fd">> \in openers'[d] <=> <<q, "fd">> \in openers[d]

\* The others are where they were; the one that moves is looked at.
LEMMA Together ==
  ASSUME CleanInv, NEW p, Aside(p), Typed', p \in Tests => FdOpen(p)' /\ Settled(p)'
  PROVE  CleanInv'
<1>1. ASSUME NEW q \in Tests \ {p} PROVE FdOpen(q)' /\ Settled(q)'
  <2>1. FdOpen(q) /\ Settled(q)
    BY Zenon DEF CleanInv
  <2>2. /\ pc'[q] = pc[q] /\ dev'[q] = dev[q] /\ result'[q] = result[q]
        /\ acquired'[q] = acquired[q] /\ scene' = scene
    BY Zenon DEF Aside
  <2>3. Loses(q)
    BY Zenon DEF Aside
  <2>4. \A d \in Devs : <<q, "fd">> \in openers'[d] <=> <<q, "fd">> \in openers[d]
    BY Zenon DEF Aside
  <2>5. FdOpen(q)'
    BY Zenon, <2>1, <2>2, <2>4 DEF FdOpen
  <2>6. Settled(q)'
    BY Zenon, <2>1, <2>2, <2>3 DEF Settled, Loses
  <2>7. QED
    BY Zenon, <2>5, <2>6
<1>3. QED
  BY Zenon, <1>1 DEF CleanInv

\* The budget of failures.
LEMMA Faults ==
  ASSUME Typed, Fault \/ UNCHANGED faults, UNCHANGED scene
  PROVE  faults' \in 0 .. scene'.faults
BY DeviceAssumption DEF Typed, Fault

\* Init has every device free and every test at the start.
LEMMA CleanBegin == Init => CleanInv
<1> SUFFICES ASSUME Init PROVE CleanInv
  OBVIOUS
<1>1. Free \in Los /\ Free.file = NoTest /\ NoTest \notin Tests /\ NoDev \notin Devs
  BY DeviceAssumption DEF Free, Los, NoTest, NoDev
<1>2. udev \in 0 .. scene.udev /\ faults \in 0 .. scene.faults /\ 0 \in 0 .. MaxTries
  BY DeviceAssumption DEF Init
<1>3. Typed
  BY Zenon, <1>1, <1>2 DEF Init, Typed, AllLabels, Labels
<1>4. ASSUME NEW p \in Tests PROVE FdOpen(p) /\ Settled(p)
  BY Zenon, <1>1 DEF Init, FdOpen, Settled, HasFd
<1>5. QED
  BY Zenon, <1>3, <1>4 DEF CleanInv

\* A step leaves the descriptors of the other tests alone.
Untouched(p) ==
  \A q \in Tests \ {p}, d \in Devs : <<q, "fd">> \in openers'[d] <=> <<q, "fd">> \in openers[d]
\* It is opened.
LEMMA Opened ==
  ASSUME CleanInv, NEW p \in Tests, dev[p] \in Devs, dev' = dev,
         openers' = [openers EXCEPT ![dev[p]] = @ \cup {Fd(p)}],
         pc[p] \notin HasFd, pc'[p] \in HasFd
  PROVE  FdOpen(p)' /\ Untouched(p)
<1>1. /\ openers'[dev[p]] = openers[dev[p]] \cup {<<p, "fd">>}
      /\ \A e \in Devs \ {dev[p]} : openers'[e] = openers[e]
  BY Zenon DEF CleanInv, Typed, Fd
<1>2. \A d \in Devs : <<p, "fd">> \notin openers[d]
  BY Zenon DEF CleanInv, FdOpen
<1>3. FdOpen(p)'
  BY Zenon, <1>1, <1>2 DEF FdOpen
<1>4. QED
  BY Zenon, <1>1, <1>3, Handled DEF Untouched
\* It is closed.
LEMMA Closed ==
  ASSUME CleanInv, NEW p \in Tests, dev[p] \in Devs, dev' = dev,
         openers' = [openers EXCEPT ![dev[p]] = @ \ {Fd(p)}], pc[p] \in HasFd, pc'[p] \notin HasFd
  PROVE  FdOpen(p)' /\ Untouched(p)
<1>1. /\ openers'[dev[p]] = openers[dev[p]] \ {<<p, "fd">>}
      /\ \A e \in Devs \ {dev[p]} : openers'[e] = openers[e]
  BY Zenon DEF CleanInv, Typed, Fd
<1>2. \A d \in Devs : <<p, "fd">> \in openers[d] => d = dev[p]
  BY Zenon DEF CleanInv, FdOpen
<1>3. FdOpen(p)'
  BY Zenon, <1>1, <1>2 DEF FdOpen
<1>4. QED
  BY Zenon, <1>1, <1>3, Handled DEF Untouched
\* It is left alone.
LEMMA Left ==
  ASSUME CleanInv, NEW p \in Tests, dev'[p] = dev[p] \/ pc'[p] \notin HasFd,
         \A q \in Tests, d \in Devs : <<q, "fd">> \in openers'[d] <=> <<q, "fd">> \in openers[d],
         pc[p] \in HasFd <=> pc'[p] \in HasFd
  PROVE  FdOpen(p)' /\ Untouched(p)
BY Zenon DEF CleanInv, FdOpen, Untouched

\* A step of one test: what the proof of each action has to show.
LEMMA Moves ==
  ASSUME CleanInv, NEW p \in Tests, UNCHANGED scene, \A q \in Tests \ {p} : Loses(q),
         Typed', FdOpen(p)' /\ Untouched(p), Settled(p)',
         NEW l, pc' = [pc EXCEPT ![p] = l],
         UNCHANGED dev \/ \E d : dev' = [dev EXCEPT ![p] = d],
         UNCHANGED result \/ \E r : result' = [result EXCEPT ![p] = r],
         UNCHANGED acquired \/ \E b : acquired' = [acquired EXCEPT ![p] = b]
  PROVE  CleanInv'
<1>1. \A q \in Tests \ {p} : /\ pc'[q] = pc[q] /\ dev'[q] = dev[q] /\ result'[q] = result[q]
                             /\ acquired'[q] = acquired[q]
  BY ZenonT(60) DEF CleanInv, Typed
<1>2. Aside(p)
  BY Zenon, <1>1 DEF Aside, Untouched
<1>3. QED
  BY Zenon, <1>2, Together

\* tst_acquire_loop_device(): the test has no image on any device yet.
LEMMA CleanAcquire ==
  ASSUME CleanInv, NEW p \in Tests, Acquire(p)
  PROVE  CleanInv'
<1>0. Typed /\ FdOpen(p) /\ Settled(p) /\ pc[p] = "acquire"
  BY Zenon DEF CleanInv, Acquire
<1>1. KernelOK /\ \A q \in Tests : Loses(q)
  BY Zenon, <1>0, Rests DEF Acquire
<1>2. faults' \in 0 .. scene'.faults
  BY Zenon, <1>0, Faults DEF Acquire
<1>3. Typed'
  <2>0. PICK l \in {"open", "done"} : pc' = [pc EXCEPT ![p] = l]
    BY Zenon DEF Acquire, Goto, Ends
  <2>1. pc' \in [Tests -> AllLabels]
    BY Zenon, <1>0, <2>0 DEF Typed, AllLabels, Labels
  <2>4. dev' \in [Tests -> Devs \cup {NoDev}]
    BY Zenon, <1>0 DEF Acquire, Typed
  <2>2. result' \in [Tests -> {"none", "TBROK", "TWARN"}]
    BY Zenon, <1>0 DEF Acquire, Typed, Ends
  <2>3. QED
    BY Zenon, <1>0, <1>1, <1>2, <2>1, <2>2, <2>4 DEF Acquire, Typed, KernelOK
<1>4. FdOpen(p)' /\ Untouched(p)
  BY Zenon, <1>0, Left DEF Acquire, Typed, Goto, Ends, HasFd, kernel
<1>5. Settled(p)'
  BY Zenon, <1>0 DEF Acquire, Settled, Typed, Goto, Ends, kernel
<1>6. QED
  BY Zenon, <1>1, <1>3, <1>4, <1>5, Moves DEF Acquire, Goto, Ends

\* tst_attach_device() opens the device, or fails and breaks the test.
LEMMA CleanAttachOpen ==
  ASSUME CleanInv, NEW p \in Tests, AttachOpen(p)
  PROVE  CleanInv'
<1>0. Typed /\ FdOpen(p) /\ Settled(p) /\ pc[p] = "open" /\ dev[p] \in Devs
  BY Zenon DEF CleanInv, AttachOpen, Settled
<1>1. CASE Open(dev[p], Fd(p)) /\ Goto(p, "set_fd") /\ UNCHANGED <<result, faults>>
  <2>1. /\ KernelOK /\ \A q \in Tests : Loses(q)
        /\ openers' = [openers EXCEPT ![dev[p]] = @ \cup {Fd(p)}]
    BY Zenon, <1>0, <1>1, Opens, Handled DEF AttachOpen
  <2>2. Typed'
    BY Zenon, <1>0, <1>1, <2>1 DEF AttachOpen, Typed, KernelOK, Goto, AllLabels, Labels
  <2>3. FdOpen(p)' /\ Untouched(p)
    BY Zenon, <1>0, <1>1, <2>1, Opened DEF AttachOpen, Typed, Goto, HasFd
  <2>4. Settled(p)'
    BY Zenon, <1>0, <1>1 DEF AttachOpen, Settled, Typed, Goto
  <2>5. QED
    BY Zenon, <1>1, <2>1, <2>2, <2>3, <2>4, Moves DEF AttachOpen, Goto
<1>2. CASE Fault /\ Unattached(p) /\ UNCHANGED openers
  <2>1. KernelOK /\ \A q \in Tests : Loses(q)
    BY Zenon, <1>0, <1>2, Rests DEF AttachOpen, kernel
  <2>2. faults' \in 0 .. scene'.faults
    BY Zenon, <1>0, <1>2, Faults DEF AttachOpen
  <2>3. Typed'
    <3>1. PICK l \in {"p_open", "done"} : pc' = [pc EXCEPT ![p] = l]
      BY Zenon, <1>2 DEF Unattached, Goto, Ends
    <3>2. pc' \in [Tests -> AllLabels]
      BY Zenon, <1>0, <3>1 DEF Typed, AllLabels, Labels
    <3>3. result' \in [Tests -> {"none", "TBROK", "TWARN"}]
      BY Zenon, <1>0, <1>2 DEF Typed, Unattached, Ends
    <3>4. QED
      BY Zenon, <1>0, <2>1, <2>2, <3>2, <3>3 DEF AttachOpen, Typed, KernelOK
  <2>4. FdOpen(p)' /\ Untouched(p)
    BY Zenon, <1>0, <1>2, Left DEF AttachOpen, Typed, Unattached, Goto, Ends, HasFd
  <2>5. Settled(p)'
    BY ZenonT(60), <1>0, <1>2 DEF AttachOpen, Settled, Typed, Unattached, Goto, Ends
  <2>6. QED
    BY Zenon, <1>2, <2>1, <2>3, <2>4, <2>5, Moves DEF AttachOpen, Unattached, Goto, Ends
<1>3. QED
  BY Zenon, <1>1, <1>2 DEF AttachOpen

\* LOOP_SET_FD binds the device to the image of the caller, and to no other.
LEMMA CleanSetFd ==
  ASSUME CleanInv, NEW p \in Tests, SetFd(p)
  PROVE  CleanInv'
<1>0. Typed /\ FdOpen(p) /\ Settled(p) /\ pc[p] = "set_fd" /\ dev[p] \in Devs
  BY Zenon DEF CleanInv, SetFd, Settled
<1>a. faults' \in 0 .. scene'.faults
  BY Zenon, <1>0, Faults DEF SetFd
<1>1. CASE /\ lo' = [lo EXCEPT ![dev[p]] = Bound(p)] /\ Goto(p, "set_status")
           /\ lo[dev[p]].state = "unbound" /\ UNCHANGED <<openers, part, result>>
  <2>1. /\ lo' = [lo EXCEPT ![dev[p]] = Bound(p)] /\ Goto(p, "set_status")
        /\ UNCHANGED <<openers, part, result>>
    BY Zenon, <1>1
  <2>2. Bound(p) \in Los /\ Bound(p).state # "unbound" /\ Bound(p).file = p
    BY Zenon DEF Bound, Los
  <2>3. Typed'
    BY Zenon, <1>0, <1>a, <2>1, <2>2 DEF SetFd, Typed, Goto, AllLabels, Labels
  <2>4. \A q \in Tests \ {p} : Loses(q)
    BY Zenon, <1>0, <1>1, <2>1, <2>2 DEF Typed, Loses
  <2>5. FdOpen(p)' /\ Untouched(p)
    BY Zenon, <1>0, <2>1, Left DEF SetFd, Typed, Goto, HasFd
  <2>6. Settled(p)'
    BY Zenon, <1>0, <1>1, <2>1, <2>2 DEF SetFd, Settled, Typed, Goto
  <2>7. QED
    BY Zenon, <2>1, <2>3, <2>4, <2>5, <2>6, Moves DEF SetFd, Goto
<1>2. CASE CloseFd(p) /\ Unattached(p)
  <2>0. CloseFd(p) /\ Unattached(p)
    BY Zenon, <1>2
  <2>1. /\ KernelOK /\ \A q \in Tests : Loses(q)
        /\ openers' = [openers EXCEPT ![dev[p]] = @ \ {Fd(p)}]
    BY Zenon, <1>0, <2>0, Closes, Handled DEF CloseFd
  <2>2. Typed'
    BY ZenonT(60), <1>0, <1>a, <2>0, <2>1
      DEF SetFd, Typed, KernelOK, Unattached, Goto, Ends, AllLabels, Labels
  <2>3. FdOpen(p)' /\ Untouched(p)
    BY Zenon, <1>0, <2>0, <2>1, Closed DEF SetFd, Typed, Unattached, Goto, Ends, HasFd
  <2>4. Settled(p)'
    BY <1>0, <2>0, <2>1 DEF SetFd, Settled, Loses, Typed, Unattached, Goto, Ends
  <2>5. QED
    BY Zenon, <2>0, <2>1, <2>2, <2>3, <2>4, Moves DEF SetFd, Unattached, Goto, Ends
<1>3. QED
  BY Zenon, <1>1, <1>2 DEF SetFd, Bound

\* LOOP_SET_STATUS, and the note that there is a device to release.
LEMMA CleanSetStatus ==
  ASSUME CleanInv, NEW p \in Tests, SetStatus(p)
  PROVE  CleanInv'
<1>0. Typed /\ FdOpen(p) /\ Settled(p) /\ pc[p] = "set_status" /\ dev[p] \in Devs
  BY Zenon DEF CleanInv, SetStatus, Settled
<1>1. CASE Fault /\ CloseFd(p) /\ Unattached(p) /\ UNCHANGED acquired
  <2>1. /\ KernelOK /\ \A q \in Tests : Loses(q)
        /\ openers' = [openers EXCEPT ![dev[p]] = @ \ {Fd(p)}]
    BY Zenon, <1>0, <1>1, Closes, Handled DEF CloseFd
  <2>2. faults' \in 0 .. scene'.faults
    BY Zenon, <1>0, <1>1, Faults DEF SetStatus
  <2>3. Typed'
    BY ZenonT(60), <1>0, <1>1, <2>1, <2>2
      DEF SetStatus, Typed, KernelOK, Unattached, Goto, Ends, AllLabels, Labels
  <2>4. FdOpen(p)' /\ Untouched(p)
    BY Zenon, <1>0, <1>1, <2>1, Closed DEF SetStatus, Typed, Unattached, Goto, Ends, HasFd
  <2>5. Settled(p)'
    BY <1>0, <1>1, <2>1 DEF SetStatus, Settled, Loses, Typed, Unattached, Goto, Ends
  <2>6. QED
    BY Zenon, <1>1, <2>1, <2>3, <2>4, <2>5, Moves DEF SetStatus, Unattached, Goto, Ends
<1>2. CASE /\ lo' = [lo EXCEPT ![dev[p]].auto = FALSE]
           /\ openers' = [openers EXCEPT ![dev[p]] = @ \ {Fd(p)}]
           /\ Goto(p, IF again[p] THEN "p_open"
                      ELSE IF scene.kind[p] = "lib" THEN "use" ELSE "clear")
           /\ Notes(p) /\ UNCHANGED <<part, result, faults>>
  <2>1. /\ lo' \in [Devs -> Los] /\ \A q \in Tests : Loses(q)
        /\ \A e \in Devs : lo'[e].state = "unbound" => lo'[e].file = NoTest
    BY Zenon, <1>0, <1>2, Autoclear
  <2>2. Typed'
    BY Zenon, <1>0, <1>2, <2>1 DEF SetStatus, Typed, Notes, Goto, AllLabels, Labels
  <2>3. FdOpen(p)' /\ Untouched(p)
    BY Zenon, <1>0, <1>2, Closed DEF SetStatus, Typed, Goto, HasFd
  <2>4. Settled(p)'
    <3>1. scene.kind[p] = "lib" /\ ~again[p] => acquired'[p]
      BY Zenon, <1>0, <1>2 DEF Notes, Typed
    <3>2. QED
      BY <1>0, <1>2, <2>1, <3>1 DEF SetStatus, Settled, Loses, Typed, Goto
  <2>5. QED
    BY Zenon, <1>2, <2>1, <2>2, <2>3, <2>4, Moves DEF SetStatus, Notes, Goto
<1>3. QED
  BY Zenon, <1>1, <1>2 DEF SetStatus

\* The tool ends with the device in use, or not at all.
LEMMA CleanToolClear ==
  ASSUME CleanInv, NEW p \in Tests, ToolClear(p)
  PROVE  CleanInv'
<1>0. Typed /\ FdOpen(p) /\ Settled(p) /\ pc[p] = "clear" /\ dev[p] \in Devs
  BY Zenon DEF CleanInv, ToolClear, Settled
<1>1. KernelOK /\ \A q \in Tests : Loses(q)
  BY Zenon, <1>0, Rests DEF ToolClear
<1>2. faults' \in 0 .. scene'.faults
  BY Zenon, <1>0, Faults DEF ToolClear
<1>3. Typed'
  <2>1. pc' \in [Tests -> AllLabels] /\ acquired' \in [Tests -> BOOLEAN]
    BY Zenon, <1>0 DEF ToolClear, Typed, Goto, AllLabels, Labels
  <2>2. result' \in [Tests -> {"none", "TBROK", "TWARN"}]
    BY Zenon, <1>0 DEF ToolClear, Typed
  <2>3. QED
    BY Zenon, <1>0, <1>1, <1>2, <2>1, <2>2 DEF ToolClear, Typed, KernelOK
<1>4. FdOpen(p)' /\ Untouched(p)
  BY Zenon, <1>0, Left DEF ToolClear, Typed, Goto, HasFd, kernel
<1>5. Settled(p)'
  BY <1>0 DEF ToolClear, Settled, Typed, Goto, kernel
<1>6. QED
  BY Zenon, <1>1, <1>3, <1>4, <1>5, Moves DEF ToolClear, Goto

\* The end of the use: the library has acquired its device and so does not skip the
\* release.
LEMMA Releasing ==
  ASSUME CleanInv, NEW p \in Tests, pc[p] \in {"use", "mounted"}
  PROVE  ReleaseAt(p) = "r_open"
BY Zenon DEF CleanInv, Settled, ReleaseAt
\* The test unmounts, and goes on to the release.
LEMMA CleanRelease ==
  ASSUME CleanInv, NEW p \in Tests, Release(p) \/ Umount(p)
  PROVE  CleanInv'
<1>0. Typed /\ FdOpen(p) /\ Settled(p) /\ pc[p] \in {"use", "mounted"} /\ dev[p] \in Devs
  BY Zenon DEF CleanInv, Release, Umount, Settled
<1>1. /\ pc' = [pc EXCEPT ![p] = "r_open"]
      /\ UNCHANGED <<scene, dev, acquired, again, tries, result, udev, faults>>
  BY Zenon, <1>0, Releasing DEF Release, Umount, Goto
<1>2. KernelOK /\ \A q \in Tests : Loses(q)
  BY Zenon, <1>0, Rests, Closes, Handled DEF Release, Umount
<1>3. \A q \in Tests, d \in Devs : <<q, "fd">> \in openers'[d] <=> <<q, "fd">> \in openers[d]
  <2>1. openers' = openers \/ openers' = [openers EXCEPT ![dev[p]] = @ \ {<<p, "mnt">>}]
    BY Zenon DEF Release, Umount, Close, kernel
  <2>2. CASE openers' = [openers EXCEPT ![dev[p]] = @ \ {<<p, "mnt">>}]
    BY Zenon, <1>0, <2>2, Handled DEF Typed
  <2>3. QED
    BY Zenon, <2>1, <2>2
<1>4. Typed'
  BY Zenon, <1>0, <1>1, <1>2 DEF Typed, KernelOK, AllLabels, Labels
<1>5. FdOpen(p)' /\ Untouched(p)
  BY Zenon, <1>0, <1>1, <1>3, Left DEF Typed, HasFd
<1>6. Settled(p)'
  BY Zenon, <1>0, <1>1, <1>2 DEF Settled, Loses, Typed
<1>7. QED
  BY Zenon, <1>1, <1>2, <1>4, <1>5, <1>6, Moves

\* A mount keeps the device open, and changes nothing else.
LEMMA CleanMount ==
  ASSUME CleanInv, NEW p \in Tests, Mount(p)
  PROVE  CleanInv'
<1>0. Typed /\ FdOpen(p) /\ Settled(p) /\ pc[p] = "use" /\ dev[p] \in Devs
  BY Zenon DEF CleanInv, Mount, Settled
<1>1. /\ pc' = [pc EXCEPT ![p] = "mounted"]
      /\ UNCHANGED <<scene, dev, acquired, again, tries, result, udev, faults>>
  BY Zenon DEF Mount, Goto
<1>2. /\ KernelOK /\ \A q \in Tests : Loses(q)
      /\ openers' = [openers EXCEPT ![dev[p]] = @ \cup {<<p, "mnt">>}]
  BY Zenon, <1>0, Opens, Handled DEF Mount
<1>3. \A q \in Tests, d \in Devs : <<q, "fd">> \in openers'[d] <=> <<q, "fd">> \in openers[d]
  BY Zenon, <1>0, <1>2, Handled DEF Typed
<1>4. Typed'
  BY Zenon, <1>0, <1>1, <1>2 DEF Typed, KernelOK, AllLabels, Labels
<1>5. FdOpen(p)' /\ Untouched(p)
  BY Zenon, <1>0, <1>1, <1>3, Left DEF Typed, HasFd
<1>6. Settled(p)'
  BY ZenonT(60), <1>0, <1>1, <1>2 DEF Settled, Loses, Typed
<1>7. QED
  BY Zenon, <1>1, <1>2, <1>4, <1>5, <1>6, Moves

\* tst_detach_device() that cannot open the device warns.
LEMMA CleanDetachOpen ==
  ASSUME CleanInv, NEW p \in Tests, DetachOpen(p)
  PROVE  CleanInv'
<1>0. Typed /\ FdOpen(p) /\ Settled(p) /\ pc[p] = "r_open" /\ dev[p] \in Devs
  BY Zenon DEF CleanInv, DetachOpen, Settled
<1>a. tries' \in [Tests -> 0 .. MaxTries]
  <2>1. 0 \in 0 .. MaxTries
    BY DeviceAssumption
  <2>2. QED
    BY Zenon, <1>0, <2>1 DEF DetachOpen, Typed
<1>1. CASE Open(dev[p], Fd(p)) /\ Goto(p, "clr") /\ UNCHANGED <<acquired, result, faults>>
  <2>1. /\ KernelOK /\ \A q \in Tests : Loses(q)
        /\ openers' = [openers EXCEPT ![dev[p]] = @ \cup {Fd(p)}]
    BY Zenon, <1>0, <1>1, Opens, Handled DEF DetachOpen
  <2>2. Typed'
    BY Zenon, <1>0, <1>a, <1>1, <2>1 DEF DetachOpen, Typed, KernelOK, Goto, AllLabels, Labels
  <2>3. FdOpen(p)' /\ Untouched(p)
    BY Zenon, <1>0, <1>1, <2>1, Opened DEF DetachOpen, Typed, Goto, HasFd
  <2>4. Settled(p)'
    BY Zenon, <1>0, <1>1 DEF DetachOpen, Settled, Typed, Goto
  <2>5. QED
    BY Zenon, <1>1, <2>1, <2>2, <2>3, <2>4, Moves DEF DetachOpen, Goto
<1>2. CASE Fault /\ Warns(p) /\ UNCHANGED openers
  <2>1. KernelOK /\ \A q \in Tests : Loses(q)
    BY Zenon, <1>0, <1>2, Rests DEF DetachOpen, kernel
  <2>2. faults' \in 0 .. scene'.faults
    BY Zenon, <1>0, <1>2, Faults DEF DetachOpen
  <2>3. Typed'
    BY Zenon, <1>0, <1>a, <1>2, <2>1, <2>2
      DEF DetachOpen, Typed, KernelOK, Warns, Warned, Goto, Ends, AllLabels, Labels
  <2>4. FdOpen(p)' /\ Untouched(p)
    BY Zenon, <1>0, <1>2, Left DEF DetachOpen, Typed, Warns, Goto, Ends, HasFd
  <2>5. Settled(p)'
    BY Zenon, <1>0, <1>2 DEF DetachOpen, Settled, Typed, Warns, Warned, Goto, Ends
  <2>6. QED
    BY Zenon, <1>2, <2>1, <2>3, <2>4, <2>5, Moves DEF DetachOpen, Warns, Goto, Ends
<1>3. QED
  BY Zenon, <1>1, <1>2 DEF DetachOpen

\* detach_loop_fd() ends with nothing bound or with a warning.
LEMMA CleanDetach ==
  ASSUME CleanInv, NEW p \in Tests, Detach(p)
  PROVE  CleanInv'
<1>0. Typed /\ FdOpen(p) /\ Settled(p) /\ pc[p] = "clr" /\ dev[p] \in Devs
  BY Zenon DEF CleanInv, Detach, Settled
<1>a. faults' \in 0 .. scene'.faults
  BY Zenon, <1>0, Faults DEF Detach
<1>1. CASE /\ tries[p] < MaxTries /\ lo[dev[p]].state = "bound" /\ ClrFd(dev[p])
           /\ tries' = [tries EXCEPT ![p] = @ + 1] /\ UNCHANGED <<openers, pc, acquired, result>>
  <2>1. KernelOK /\ \A q \in Tests : Loses(q)
    BY Zenon, <1>0, <1>1, Clears
  <2>2. tries' \in [Tests -> 0 .. MaxTries]
    <3>1. tries[p] \in 0 .. MaxTries
      BY Zenon, <1>0 DEF Typed
    <3>2. tries[p] + 1 \in 0 .. MaxTries
      BY <1>1, <3>1, DeviceAssumption
    <3>3. QED
      BY Zenon, <1>0, <1>1, <3>2 DEF Typed
  <2>3. Typed'
    BY Zenon, <1>0, <1>a, <1>1, <2>1, <2>2 DEF Detach, Typed, KernelOK
  <2>4. FdOpen(p)' /\ Untouched(p)
    BY Zenon, <1>0, <1>1, Left DEF Detach
  <2>5. Settled(p)'
    BY Zenon, <1>0, <1>1, <2>1 DEF Detach, Settled, Loses
  <2>6. Aside(p)
    BY Zenon, <1>1, <2>1 DEF Detach, Aside
  <2>7. QED
    BY Zenon, <2>3, <2>4, <2>5, <2>6, Together
<1>2. CASE CloseFd(p) /\ UNCHANGED tries /\ ~(lo[dev[p]].state = "bound") /\
           \/ /\ Ends(p, IF dev[p] \in part THEN Warned(p) ELSE result[p])
              /\ acquired' = [acquired EXCEPT ![p] = FALSE]
           \/ Goto(p, "part") /\ UNCHANGED <<acquired, result>>
  <2>1. /\ KernelOK /\ \A q \in Tests : Loses(q)
        /\ openers' = [openers EXCEPT ![dev[p]] = @ \ {Fd(p)}]
    BY Zenon, <1>0, <1>2, Closes, Handled DEF CloseFd
  <2>2. PICK l \in {"part", "done"} : pc' = [pc EXCEPT ![p] = l]
    BY Zenon, <1>2 DEF Ends, Goto
  <2>3. /\ acquired' \in [Tests -> BOOLEAN] /\ result' \in [Tests -> {"none", "TBROK", "TWARN"}]
        /\ result'[p] = "none" => result[p] = "none"
    BY Zenon, <1>0, <1>2 DEF Ends, Typed, Warned
  <2>4. Typed'
    BY Zenon, <1>0, <1>a, <1>2, <2>1, <2>2, <2>3 DEF Detach, Typed, KernelOK, AllLabels, Labels
  <2>5. FdOpen(p)' /\ Untouched(p)
    BY Zenon, <1>0, <2>1, <2>2, Closed DEF Detach, Typed, HasFd
  <2>6. Settled(p)'
    <3>1. ASSUME NEW d \in Devs, lo'[d].file = p PROVE dev[p] = d /\ lo'[d].state = "rundown"
      <4>1. lo[d].file = p /\ dev[p] = d /\ (lo[d].state = "rundown" => lo'[d].state = "rundown")
        BY Zenon, <1>0, <2>1, <3>1 DEF Settled, Loses
      <4>2. lo[d].state \in {"unbound", "bound", "rundown"} /\ NoTest \notin Tests
        BY Zenon, <1>0, DeviceAssumption DEF Typed, Los, NoTest
      <4>3. QED
        BY Zenon, <1>0, <1>2, <4>1, <4>2 DEF Typed
    <3>2. pc'[p] = l
      BY Zenon, <1>0, <2>2 DEF Typed
    <3>3. QED
      BY Zenon, <1>0, <2>2, <3>1, <3>2 DEF Settled, Detach
  <2>7. QED
    BY Zenon, <1>2, <2>1, <2>2, <2>4, <2>5, <2>6, Moves DEF Detach, Ends
<1>3. CASE CloseFd(p) /\ Warns(p) /\ UNCHANGED tries
  <2>1. /\ KernelOK /\ \A q \in Tests : Loses(q)
        /\ openers' = [openers EXCEPT ![dev[p]] = @ \ {Fd(p)}]
    BY Zenon, <1>0, <1>3, Closes, Handled DEF CloseFd
  <2>2. Typed'
    BY Zenon, <1>0, <1>a, <1>3, <2>1
      DEF Detach, Typed, KernelOK, Warns, Warned, Ends, Goto, AllLabels, Labels
  <2>3. FdOpen(p)' /\ Untouched(p)
    BY Zenon, <1>0, <1>3, <2>1, Closed DEF Detach, Typed, Warns, Ends, Goto, HasFd
  <2>4. Settled(p)'
    BY <1>0, <1>3, <2>1 DEF Detach, Settled, Loses, Typed, Warns, Warned, Ends, Goto
  <2>5. QED
    BY Zenon, <1>3, <2>1, <2>2, <2>3, <2>4, Moves DEF Detach, Warns, Ends, Goto
<1>4. QED
  BY Zenon, <1>1, <1>2, <1>3 DEF Detach

\* clear_loop_device_partitions() ends the release, or attaches the image again.
LEMMA CleanClearPartitions ==
  ASSUME CleanInv, NEW p \in Tests, ClearPartitions(p)
  PROVE  CleanInv'
<1>0. Typed /\ FdOpen(p) /\ Settled(p) /\ pc[p] = "part" /\ dev[p] \in Devs
  BY Zenon DEF CleanInv, ClearPartitions, Settled
<1>1. KernelOK /\ (\A q \in Tests : Loses(q)) /\ UNCHANGED <<lo, openers>>
  BY Zenon, <1>0, Rests DEF ClearPartitions, kernel
<1>2. PICK l \in {"open", "done"} : pc' = [pc EXCEPT ![p] = l]
  BY Zenon DEF ClearPartitions, Goto, Ends
<1>3. /\ acquired' \in [Tests -> BOOLEAN] /\ result' \in [Tests -> {"none", "TBROK", "TWARN"}]
      /\ again' \in [Tests -> BOOLEAN] /\ (result'[p] = "none" => result[p] = "none")
  BY Zenon, <1>0 DEF ClearPartitions, Typed, Ends, Warned
<1>4. Typed'
  BY Zenon, <1>0, <1>1, <1>2, <1>3 DEF ClearPartitions, Typed, KernelOK, AllLabels, Labels
<1>5. FdOpen(p)' /\ Untouched(p)
  BY Zenon, <1>0, <1>1, <1>2, Left DEF ClearPartitions, Typed, HasFd
<1>6. Settled(p)'
  BY Zenon, <1>0, <1>1, <1>2, <1>3 DEF ClearPartitions, Settled, Typed
<1>7. QED
  BY Zenon, <1>1, <1>2, <1>4, <1>5, <1>6, Moves DEF ClearPartitions, Ends

\* The scan of the partitions leaves the image where it is, or the release warns.
LEMMA CleanScan ==
  ASSUME CleanInv, NEW p \in Tests, ScanPartitions(p)
  PROVE  CleanInv'
<1>0. Typed /\ FdOpen(p) /\ Settled(p) /\ pc[p] = "p_open" /\ dev[p] \in Devs
  BY Zenon DEF CleanInv, ScanPartitions, Settled
<1>a. tries' \in [Tests -> 0 .. MaxTries]
  <2>1. 0 \in 0 .. MaxTries
    BY DeviceAssumption
  <2>2. QED
    BY Zenon, <1>0, <2>1 DEF ScanPartitions, Typed
<1>1. CASE /\ Open(dev[p], Fd(p))
           /\ lo' = [lo EXCEPT ![dev[p]].auto = @ /\ lo[dev[p]].state # "bound"]
           /\ part' = IF lo[dev[p]].file = p THEN part \ {dev[p]} ELSE part
           /\ Goto(p, "clr") /\ UNCHANGED <<acquired, result, faults>>
  <2>1. openers' = [openers EXCEPT ![dev[p]] = @ \cup {Fd(p)}]
    BY Zenon, <1>1 DEF Open
  <2>9. openers' \in [Devs -> SUBSET Handles]
    <3>1. Fd(p) \in Handles
      BY Zenon, Handled
    <3>2. QED
      BY Zenon, <1>0, <2>1, <3>1 DEF Typed
  <2>2. part' \subseteq Devs
    BY Zenon, <1>0, <1>1 DEF Typed
  <2>3. PICK b \in BOOLEAN : lo' = [lo EXCEPT ![dev[p]].auto = b]
    BY Zenon, <1>0, <1>1
  <2>4. /\ lo' \in [Devs -> Los] /\ \A q \in Tests : Loses(q)
        /\ \A e \in Devs : lo'[e].state = "unbound" => lo'[e].file = NoTest
    BY Zenon, <1>0, <2>3, Autoclear
  <2>5. Typed'
    BY Zenon, <1>0, <1>a, <1>1, <2>2, <2>4, <2>9
      DEF ScanPartitions, Typed, Goto, AllLabels, Labels
  <2>6. FdOpen(p)' /\ Untouched(p)
    BY Zenon, <1>0, <1>1, <2>1, Opened DEF ScanPartitions, Typed, Goto, HasFd
  <2>7. Settled(p)'
    <3>1. pc'[p] = "clr" /\ dev' = dev /\ scene' = scene
      BY Zenon, <1>0, <1>1 DEF ScanPartitions, Typed, Goto
    <3>2. QED
      BY Zenon, <1>0, <2>4, <3>1 DEF Settled, Loses
  <2>8. QED
    BY Zenon, <1>1, <2>4, <2>5, <2>6, <2>7, Moves DEF ScanPartitions, Goto
<1>2. CASE Fault /\ Warns(p) /\ UNCHANGED kernel
  <2>1. KernelOK /\ \A q \in Tests : Loses(q)
    BY Zenon, <1>0, <1>2, Rests
  <2>2. faults' \in 0 .. scene'.faults
    BY Zenon, <1>0, <1>2, Faults DEF ScanPartitions
  <2>3. Typed'
    BY Zenon, <1>0, <1>a, <1>2, <2>1, <2>2
      DEF ScanPartitions, Typed, KernelOK, Warns, Warned, Goto, Ends, AllLabels, Labels
  <2>4. FdOpen(p)' /\ Untouched(p)
    BY Zenon, <1>0, <1>2, Left DEF ScanPartitions, Typed, Warns, Goto, Ends, HasFd, kernel
  <2>5. Settled(p)'
    BY Zenon, <1>0, <1>2 DEF ScanPartitions, Settled, Typed, Warns, Warned, Goto, Ends, kernel
  <2>6. QED
    BY Zenon, <1>2, <2>1, <2>3, <2>4, <2>5, Moves DEF ScanPartitions, Warns, Goto, Ends
<1>3. QED
  BY Zenon, <1>1, <1>2 DEF ScanPartitions

\* udev's steps, and a partition made, move no test.
LEMMA CleanOthers ==
  ASSUME CleanInv,
         \/ \E d \in Devs : UdevOpen(d) \/ UdevClose(d)
         \/ \E p \in Tests : Partition(p)
         \/ UNCHANGED vars
  PROVE  CleanInv'
<1>0. Typed /\ "udev" \notin Tests /\ <<"udev", "fd">> \in Handles
  BY Zenon, DeviceAssumption DEF CleanInv, Handles
<1>1. UNCHANGED <<scene, pc, dev, acquired, again, tries, result, faults>>
  BY Zenon DEF UdevOpen, UdevClose, Partition, vars
<1>2. udev' \in 0 .. scene'.udev
  <2>1. udev' = udev \/ (udev > 0 /\ udev' = udev - 1)
    BY Zenon DEF UdevOpen, UdevClose, Partition, vars
  <2>2. QED
    BY <1>0, <1>1, <2>1, DeviceAssumption DEF Typed
<1>3. KernelOK /\ \A q \in Tests : Loses(q)
  <2>1. CASE \E d \in Devs : UdevOpen(d)
    BY Zenon, <1>0, <2>1, Opens DEF UdevOpen
  <2>2. CASE \E d \in Devs : UdevClose(d)
    BY Zenon, <1>0, <2>2, Closes DEF UdevClose
  <2>3. CASE \E p \in Tests : Partition(p)
    <3>1. PICK p \in Tests : Partition(p)
      BY Zenon, <2>3
    <3>2. dev[p] \in Devs
      BY Zenon, <3>1 DEF CleanInv, Settled, Partition
    <3>3. QED
      BY Zenon, <1>0, <3>1, <3>2, Idle DEF Partition, KernelOK, Typed
  <2>4. CASE UNCHANGED vars
    BY Zenon, <1>0, <2>4, Rests DEF vars, kernel
  <2>5. QED
    BY Zenon, <2>1, <2>2, <2>3, <2>4
<1>4. \A q \in Tests, d \in Devs : <<q, "fd">> \in openers'[d] <=> <<q, "fd">> \in openers[d]
  <2>1. \/ openers' = openers
        \/ \E e \in Devs : \/ openers' = [openers EXCEPT ![e] = @ \cup {<<"udev", "fd">>}]
                           \/ openers' = [openers EXCEPT ![e] = @ \ {<<"udev", "fd">>}]
    BY Zenon DEF UdevOpen, UdevClose, Partition, Open, Close, vars
  <2>2. ASSUME NEW e \in Devs, openers' = [openers EXCEPT ![e] = @ \cup {<<"udev", "fd">>}]
        PROVE  \A q \in Tests, d \in Devs :
                 <<q, "fd">> \in openers'[d] <=> <<q, "fd">> \in openers[d]
    BY Zenon, <1>0, <2>2, Handled DEF Typed
  <2>3. ASSUME NEW e \in Devs, openers' = [openers EXCEPT ![e] = @ \ {<<"udev", "fd">>}]
        PROVE  \A q \in Tests, d \in Devs :
                 <<q, "fd">> \in openers'[d] <=> <<q, "fd">> \in openers[d]
    BY Zenon, <1>0, <2>3, Handled DEF Typed
  <2>4. QED
    BY Zenon, <2>1, <2>2, <2>3
<1>5. Typed'
  BY Zenon, <1>0, <1>1, <1>2, <1>3 DEF Typed, KernelOK
<1>6. Aside("udev")
  BY Zenon, <1>1, <1>3, <1>4 DEF Aside
<1>7. QED
  BY Zenon, <1>0, <1>5, <1>6, Together

\* A test ends with a clean result only after the kernel said that nothing is attached
\* to its device (ENXIO, in detach_loop_fd()), whatever the others and udev did to the
\* device meanwhile, on either kernel and with any number of failures; and the variables
\* have their types, a test's descriptor being open exactly between open() and close().
THEOREM CleanIsDetachedHolds == Spec => []CleanIsDetached
<1>1. CleanInv => CleanIsDetached
  <2>1. CleanInv => TypeOK
    BY Zenon DEF CleanInv, Typed, FdOpen, TypeOK, Los, Handles, HasFd
  <2>2. QED
    BY Zenon, <2>1 DEF CleanInv, Settled, CleanIsDetached
<1>2. CleanInv /\ [Next]_vars => CleanInv'
  BY Zenon, CleanAcquire, CleanAttachOpen, CleanSetFd, CleanSetStatus, CleanToolClear,
     CleanRelease, CleanMount, CleanDetachOpen, CleanDetach, CleanClearPartitions, CleanScan,
     CleanOthers
    DEF Next, Step, Uses, Done
<1>3. QED
  BY <1>1, <1>2, CleanBegin, PTL DEF Spec
=============================================================================
