# TLA+ specifications of the LTP test library

This directory specifies the parts of the Linux Test Project (the `ltp-ddt`
tree) that every test relies on and that tests cannot easily test: the
processes, signals, shared memory, locks and resources of the test library, of
the shell library and of the driver `ltp-pan`.  The thousands of test cases are
*users* of these parts and are modelled as what they are to the library: code
that calls it in any order, reports, breaks, forks, crashes or never comes back.

`PROJECT.json` is the index: components, runs, theorems, the map from every
definition to the source lines it stands for, findings and hazards.

## 1. The system and its parts

| part | source | what makes it hard | modules | status |
|---|---|---|---|---|
| test harness | `lib/tst_test.c` | library, main and child processes report and break at once, any may crash or hang, SIGKILL does not always kill, the library may die | `TstTest` | partly: option parsing and the arithmetic of timeouts are left out |
| set-up and clean-up of the library process | `lib/tst_test.c`, `lib/tst_tmpdir.c`, `lib/tst_wallclock.c`, `lib/tst_hugepage.c`, `lib/tst_sys_conf.c` | any call may fail, clean-up may break and be entered again | `LibSetup` | modelled |
| fuzzy sync | `include/tst_fuzzy_sync.h` | lock-free spin barrier whose counters fold back at `INT_MAX` | `FuzzySync`, `Rendezvous` | modelled |
| checkpoints | `lib/tst_checkpoint.c` | a wake is not remembered; timeouts, signals, deaths, rivals | `Checkpoint` | modelled |
| loop devices | `lib/tst_device.c`, `testcases/lib/tst_device.c` | other tests and udev take or open the device; detaching is retried | `Device` | partly: mkfs, sizes, statistics left out |
| cgroups | `lib/tst_cgroup.c`, `testcases/lib/tst_cgctl.c` | tests in parallel share `ltp` and `drain` | `CGroup` | partly: scanning and mounting of hierarchies, subgroups and file aliases left out |
| zoo file | `pan/zoolib.c`, `pan/ltp-bump.c` | several drivers, a record lock kept on error paths, crashes | `Zoo`, `ZooSpec` | modelled |
| pan | `pan/ltp-pan.c` | signals at any point, orphaned process groups, escalation | `Pan` | modelled |
| shell library | `testcases/lib/tst_test.sh`, `testcases/lib/tst_timeout_kill.c` | traps in the middle of clean-up, a timer process that races with the end | `ShellTest` | partly: `test.sh`, retries, arithmetic of timeouts left out |
| old API | `lib/tst_res.c` | break inside clean-up, recursive lock | - | not modelled |
| kconfig expressions | `lib/tst_bool_expr.c`, `lib/tst_kconfig.c` | precedence, malformed input | - | not modelled |
| safe macros, queries, netlink, timers, buffers, I/O patterns | rest of `lib/`, `libs/` | - | - | not modelled: stateless wrappers, pure I/O or floating point |
| test cases, suites, ddt drivers | `testcases/` | - | - | environment of the models |
| metadata, tools, runltp, runtest | `metadata/`, `tools/`, `utils/`, `runltp`, `runtest/` | - | - | not modelled: text, data, sequential scripts |

How they interact: `runltp` starts `ltp-pan`, which starts test programs in
process groups of their own and enters them in the zoo file.  A test program in
C is the library process of `tst_test.c`: it takes resources (`do_setup()`:
temporary directory, sysctls, a loop device, mounts, cgroups), forks a main
test process per variant and filesystem, watches it, judges its end, and gives
the resources back (`do_exit()`).  Main and children report into the shared
region, meet at checkpoints (futexes in that same region) and race each other
with fuzzy sync.  A test in shell is one process with traps and a timer process
beside it; it gets at devices, cgroups and checkpoints through small programs.

## 2. Modules

| module | models |
|---|---|
| `Rendezvous` | the abstract two-party barrier the fuzzy-sync header promises |
| `FuzzySync` | the pair of `tst_fuzzy_sync.h`; instantiates `Rendezvous` |
| `TstTest` | the harness of `tst_test.c` |
| `LibSetup` | `do_setup()`, `do_cleanup()` and what they call |
| `Checkpoint` | `tst_checkpoint.c` |
| `Device` | loop devices, the kernel's table of them, the `tst_device` tool |
| `CGroup` | `tst_cgroup.c` and `tst_cgctl`, the kernel's tree of groups |
| `ZooSpec` | the abstract zoo: a bag of entries |
| `Zoo` | `zoolib.c` and `ltp-bump`; instantiates `ZooSpec` |
| `Pan` | the scheduler of `ltp-pan.c`; a zoo is the number of entries per process |
| `ShellTest` | `tst_test.sh` and `tst_timeout_kill` |
| `...Proofs` | theorems about the module they are named after |
| `MC...` | instances for TLC |

Definitions headed "Mutant" are variants of the definition that follows, with
a plausible bug; no specification uses them.  Each checked property is known to
fail when a definition is replaced by one of them (`PROJECT.json`, `mutants`).

Several modules have a variable (`scene`, `opt`, `test`, `script`) that `Init`
chooses from a constant set and that never changes: what the test asks for and
what happens around it.  One run so covers several kinds of test, and a
condition on that variable in a property says for which of them it holds.

### TstTest

The library process is a program counter `lpc` (`loop`, `arm`, `fork`,
`wait`, `reaped`, `judge`, `next`, `exit`, `done`, `dead`) with the locals of
`fork_testrun()` and `do_exit()`.  A test process is a record in the table
`proc`: where it is, where it goes after the library call it is in, its
parent, its process group, and whether a SIGKILL is pending.  `context` and
`results` are the shared region.  A filesystem that is skipped is reported as TCONF.

* Library: `RunTcaseOnFs`, `Arm`, `ForkTestrun`, `WaitTest`, `CheckTaint`,
  `Judge`, `NextRun`, `DoExit`; its signal handlers `AlarmHandler`,
  `SigintHandler`, and the heartbeat handler inside `Beat`.
* Test processes: `SetPgid`, `DoTestSetup`, `Heartbeat`, `Beat`,
  `TestrunLoop`, `RunTest`, `ReapChildren`, `DoTestCleanup`, and tst_brk() in
  its steps `Brk`, `BrkCleanup`, `BrkAbort`, `BrkKill`.
* The test's own code: `Report`, `TestBrk`, `SafeFork`, `SafeWait`,
  `SetTimeout`, `BodyReturns`, and the faults `Crash`, `Stick`, `Taint`.
* The system: `SigkillDelivered`, `LibKilled`, adoption by init.

Abstractions: the counters of `results` only grow and the code asks only which
are positive and which moved since they were saved, so they are a set and a
flag.  Time is abstracted to "the alarm is armed and may expire".  The
resources of `do_setup()` are in `LibSetup`.  History variables (`mains`,
`cleaned`, `badend`, `orphaned`) record what the properties ask.

### LibSetup

One process, whose `pc` is the step of `do_setup()`, of the loop over
filesystems or of `do_cleanup()` it is about to take.  `held` is what the system
holds for the test, `owned` what the process knows it has to give back (the
flags `mntpoint_mounted` and `ovl_mounted`, the device in `tdev`, the names of
directory and results file): the hazards are where the two differ.  Every call
that can fail has a disjunct that uses up one of `faults` and does what the code
does then, mostly `Break`, which is tst_brk(): without results it exits at once,
with results it enters do_exit() and so do_cleanup(), also from the middle of
do_cleanup().  A call of do_cleanup() that has failed once may fail again each time
it is repeated, at no further cost (`FailsAgain`), so that an endless recursion is a
behaviour of the model.  `TestBroken` is a fork_testrun() that does not return: the
test's file system is then still mounted when do_cleanup() begins.  `sysctl` and `saved`
are the files and the list of `tst_sys_conf.c`, `ret` the exit status.

### FuzzySync

Two threads, each at a control point inside one of the pair's functions; every
atomic load, store and increment of the counters is a step of its own, and the
two loads of a loop condition are two steps.  The statistics and the delay are
left out; the reads and writes of their plain fields are kept as control points
(`upd`, `race`).  `Rendezvous` is instantiated with `inside` = "is between the
increment and the return of `tst_fzsync_pair_wait()`" and `open` = `exit`.

### Checkpoint

Each process works off a script of calls (`wait`, `wake`, `exec`, `reinit`).
The futex words are never written, so a checkpoint is the set of processes
asleep on it.  A wait is `Begin`, `FutexWait`, then `WaitReturns`, `TimedOut`
or `Interrupted` (and `FutexWait` again); a wake is `Begin`, then `FutexWake`
and `Nap` in turn.  Processes have separate clocks: a waker can use up its
naps before a waiter has started, so every outcome of a race with a timeout is
a behaviour.  Signals may come for ever, and each starts the timeout over.  `released`
records which wake call ended which wait call.

### Device

The kernel's side is `lo` (state, whose image, LO_FLAGS_AUTOCLEAR), `openers`
and `part` (devices with partition nodes), with `Open`, `Close`, `ClrFd` after
the loop driver: on a kernel with commit 18048c1af783 (which the code's comment
names) LOOP_CLR_FD on an open device marks it to be detached at the last close;
before it, the call refuses.  A test goes through `Acquire` (LOOP_CTL_GET_FREE),
`AttachOpen`, `SetFd`, `SetStatus`, its own use, `DetachOpen`, `Detach` (the
loop of LOOP_CLR_FD until ENXIO), and `ClearPartitions`/`ScanPartitions`.
`UdevOpen` and `UdevClose` may come between any two, and each ioctl() may fail with an
error the code does not expect.

### CGroup

`groups` are all groups ever made, `alive` those that are still there; a test
holds descriptors (`fd`) that may outlive their group.  `Require`, `MkDir`,
`OpenDir`, `Enable` are tst_cg_require(), one system call a step; `DrainRead`,
`DrainMove`, `Remove`, `Clear` are tst_cg_cleanup().  A script does the two in
different processes, with the configuration (`conf`) tst_cgctl prints and reads.
`Join` and `Exit` are the test's processes entering and leaving groups.

### Zoo and ZooSpec

A client (pan or ltp-bump) begins (`Start`) when its process number is free, which may
be that of a client that is gone and still in the file, and works off a list of calls.
A call is `Lock`, then `Scan` one line at a time, `Write`, `Unlock`; the scan stops at
the line the call is looking for (`Looks`) and writing recycles or appends a line.  A
client may be killed anywhere (`Crash`), and a call may fail (`Refused`, or in `Write`
and `Unlock`, with the lock kept).  The refinement maps the file to the bag of its
lines that are not free, as the number of lines there are with each entry.

### Pan

`running`, `num_active`, `exit_stat`, `rec` and `send` (rec_signal,
send_signal), `last` (lastsent) and `orphans` are the variables of main(),
`kid` is the process table: a leader that is on its way to exec(), runs, or is a
zombie, and whether others of its group are left.  The actions are the loop of
main() (`Wanted`, `Fork`, `Commands`, `NoMore`, `Tail`), run_child()
(`Started`, `NotStarted`, `Reap`; `StartedDies` when the zoo fails), propagate_signal(),
check_pids() (`Check`, `Wait`, `WaitDies`), check_orphans() and the last loop over
orphans. `Signal` runs wait_handler() between any two of them.

### ShellTest

`pc` is the command the shell is about to execute or executes.  A signal makes
a trap pending (`pend`) and may end the command under way (`hurt`); the trap is
executed before the next command (`Trap`), which is where tst_brk() decides by
`TST_DO_EXIT` and `TST_DO_CLEANUP` whether TBROK ends the test or is a mere
warning.  A `wait` is cut short by a trap.  The timers are processes of their
own (`TimerStarts`, `TimerExpires`, `TimerPolls`, `TimerKills`, `TimerDies`),
exchanged by `OldTimer`, `OldWait`, `NewTimer`, `Settle`.  `held` is what the
system holds, and a command hit by a signal may or may not have done its work.
A trap that comes in a trap is executed at once, as dash does it.

## 3. Runs

| run | configuration | shows |
|---|---|---|
| `fzsync` | `MCFuzzySync.cfg` | `TypeOK` (counters within `INT_MAX`), `PlainFieldsExclusive`, refinement of `Rendezvous` (`ImplementsBarrier`), and under fairness `ExitEnds` and `WaitReturns` |
| `harness` | `MCTstTest.cfg` | `ExitTruthful`, `TbrokKillsOwn`, `LeftoversKilled`, `OrphanStops`, `CleanupOnce`, with every fault allowed, and under fairness `Terminates`: a test with a timeout ends although processes hang or cannot be killed |
| `checkpoint` | `MCCheckpoint.cfg` | `Matched` (a wake that returns 0 ended exactly `nr_wake` waits, a wait that returns 0 was ended by one wake), `NoOvershoot`, and under fairness `EveryCallReturns` |
| `libsetup` | `MCLibSetup.cfg` | `NothingLeft`, `SysctlRestored`, `EarlyExit`, and under fairness `Terminates` (the process exits, unless tst_cg_cleanup() or the unmounting of the overlay breaks for ever) |
| `cgroup` | `MCCGroup.cfg` | `GroupsConsistent`, `GroupsRemoved`, `NoneBroken`, `RemovesBelowOwn`, and under fairness `CleanupEnds` |
| `device` | `MCDevice.cfg` | `UsedIsOwn`, `CleanIsDetached`, and under fairness `AllFreed` |
| `zoo` | `MCZoo.cfg` | `ZooConsistent`, refinement of `ZooSpec` (`Implements`), and under fairness `AllFinish` |
| `pan` | `MCPan.cfg` | `BooksAgree`, `AtExit`, and under fairness `Terminates` and `StopsOnSignal` |
| `shell` | `MCShellTest.cfg` | `CleanedUp`, `CleanupOnce`, `ExitTells`, `TimersConsistent`, `FullTime`, and under fairness `Terminates` |

Three runs state what a comment says and the code does not do; TLC finds each violated:

| run | property | the comment | the code |
|---|---|---|---|
| `libsetup_exit` | `DoExitExits` | `lib/tst_test.c:1015` on do_exit(): "Prints results, cleans up after the test library and exits the test library process." | do_cleanup() unmounts the overlay with SAFE_UMOUNT() and never resets `ovl_mounted`; when that fails, tst_brk() calls do_exit() and do_cleanup() again, without end |
| `cgroup_parallel` | `RemovesOwn` | `lib/tst_cgroup.c:998` on tst_cg_cleanup(): "This will never remove CGroups we did not create to allow tests to be run in parallel." | only `ltp` is asked who made it: a test that made `ltp` removes the `drain` another test made and still uses |
| `pan_lost` | `NoneLost` | `pan/ltp-pan.c:1067` in run_child(): "if the child couldn't go through with the exec, clean up the mess, note it, and move on" | a read() that a signal interrupts counts as such a child, and an interrupted waitpid() leaves it running in no slot |

The passing runs of the same modules say what holds all the same: `Terminates` of
`LibSetup` that the two steps named are the only endless ones, `RemovesBelowOwn` that a
test removes shared groups only below an `ltp` it made, and `BooksAgree` that slots and
children agree when run_child() is not interrupted.

### Bounds, and why they are enough

* `fzsync`: `INT_MAX = 4` makes the counters fold in each of the three barriers
  of a loop; `ExecLoops = 5` and `MaxUses = 2` let several folds and a reuse of
  the pair happen.  The proofs drop these bounds.
* `harness`: three process ids (a main process and two children, or the main
  processes of two runs and a child), two runs, so that leftovers of one can
  meet the next; two test functions; one SIGKILL retry instead of ten (the
  retries differ only in their count).  Three kinds of test: one that forks, under a
  timeout; one per filesystem with a taint check; one that calls tst_set_timeout().
  A process that forks takes any one free id (`Fresh`), which keeps the number of
  states down without symmetry, as a liveness property is checked.
* `checkpoint`: three processes, two futexes, timeouts of 0 to 2 milliseconds
  (none, one try, a retry), signals without bound and one death; four tests (a
  repeated handshake, one wake for two waiters one of which is another program, two
  wakes in competition, misuse), each with all four settings of
  `needs_checkpoints` and `child_needs_reinit`.
* `libsetup`: fourteen kinds of test found under `testcases/` (each mount kind,
  overlay, all filesystems, sysctls saved twice, with and without `/dev/shm`),
  three faults: one that breaks set-up or a run and two in clean-up, each of which may
  repeat itself for ever.  `libsetup_exit`: two tests with an overlay, one fault.
* `cgroup`: two C tests and a script below an `ltp` group that is there; a C test
  with two controllers and a lingering child beside a script, with a failing
  call, with and without that group; two C tests that compete to make it; a script
  alone that requires two controllers.  The proofs drop these bounds.
  `cgroup_parallel`: the two C tests that compete, and nothing fails.
* `device`: three tests (library, tool, tool with an image) on two devices with
  two openings by udev and a failing call; two tests that leave partitions; a test
  alone on an older kernel.  Three tries of LOOP_CLR_FD instead of 40: one, a
  retry, and giving up.
* `zoo`: two drivers with a slot, a third without that gets the number of the second
  when that one is gone (and perhaps still in the file), and ltp-bump, asked for the
  tag of the first; one of them is killed or one call fails, at any point.  More slots,
  tests and tags that are prefixes of others are left to the proofs, which drop these
  bounds.
* `pan`: two slots, three process ids (so they are used again), two or three
  commands, two signals; five ways to call pan (in order with `-S -e`; at random
  with `-A -y` and a zoo call that fails; for a time; signals while a child is on its
  way to exec(); a test that leaves processes behind, and SIGTERMs for ever).
  `pan_lost`: the fourth of these.
* `shell`: eight tests: plain; with tst_set_timeout(); without cleanup; without a
  timeout; not leading a process group; with a device, mounted, on one or two
  filesystems.  Up to two signals from outside besides the timer's, one failing
  command, two timers, one poll instead of ten before SIGKILL.

`CHECK_DEADLOCK FALSE` is used for the harness, fuzzy sync and the shell, where
the program ends or the test's own code may stop for good.  The other
specifications stutter explicitly at their end, so deadlock is checked there.

### Fairness, and why the code justifies it

* `TstTest`: the library's own steps (it blocks only in `waitpid()`), expiry of
  an armed alarm, delivery of a pending SIGKILL to a process that can die.  The
  test's code gets none: it may stop anywhere for good.
* `FuzzySync`: both threads are scheduled; with one CPU `sched_yield()` is
  called in the loops.
* `Checkpoint`: every process is scheduled and kernel timers expire; signals and
  deaths are not fair.  Deaths are bounded, signals are not.
* `LibSetup`, `CGroup`, `Zoo`: the processes that have begun are scheduled; a lock that
  is free is got in the end.  Faults and crashes are not fair and are bounded, but for a
  call of do_cleanup() that fails again and again.
* `Device`: the tests are scheduled, and udev closes what it opened.
* `Pan`: pan is scheduled, children get on with exec() and die when killed.  Nothing
  says that a test ends, by itself or when it is told to: `Terminates` and
  `StopsOnSignal` name the test that goes on for ever as the one excuse, besides
  SIGTERMs that come for ever (wait_handler() then never gets to SIGKILL).
* `ShellTest`: the library's commands end, and timers are scheduled and their
  sleep ends.  The test's functions get none.

## 4. Proofs

Checked by TLAPS, with SMT and Zenon for the steps and LS4 for the temporal
conclusion.  Assumptions are the named `ASSUME`s of the specifications, which
TLC evaluates for the instances.

### FuzzySyncProofs (for every `INT_MAX >= 2` and any number of loops and uses)

`PairIsBarrier` (the pair refines `Rendezvous`), `CountersInRange`,
`FieldsRaceFree`, `RacesMeet`, `ResetIsAlone`.

None of the properties is inductive.  The invariant `IInv` adds:

* `FoldInv`: a count is `INT_MAX` exactly while its thread is on the way to
  fold it, and 0 when the thread waits for the other's fold;
* `Balance` (unless `exit`): the threads are level with equal counts, or one is
  one barrier ahead, with a count higher by one, and waits - the "invariant"
  the comment in `tst_fzsync_pair_wait()` speaks of.  While they are level, one
  may have folded its count to 0 when the other's is still `INT_MAX`, and at
  most one of them takes itself for the first to arrive;
* `Aligned`: level threads are in the same call of run, start_race, end_race,
  the one ahead is in the next;
* `CallInv`: which control points go with which call, and when B exists.

A stale first load (`our`) is harmless because `Balance` says what it can be.
A thread leaves its barrier only level with the other or behind (`LeaveStep`),
which is `Leave` of `Rendezvous`.  Two parties in the same race (`RacesMeet`)
and the exclusive use of plain fields (`FieldsRaceFree`) follow from `Aligned`.

### TstTestProofs (for any number of processes, runs, test cases, retries, any faults)

* `TypeCorrect`: type correctness, from one lemma for the process table
  (`TableStep`: every record an action builds is one, and heartbeats return to
  where they were called) and one for the scalars (`ScalarStep`).
* `TbrokKillsOwnRun`: `TbrokKillsOwn`.  A child reads `context->main_pid` some steps
  after it began to break.  By `LeftInv` (below) it then has SIGKILL pending or is in the
  group the library waits for.  `GroupInv` says of a process in that group, other than
  the main process itself, that `main_pid` is already the group's: the main process
  enters itself there before it runs the test that forks (`MainInv`).
* `LeftoversAreKilled`: `LeftoversKilled`.  `LeftInv` says where a live process
  can be: doomed, or watched, that is in the group the library waits for, or the
  new main process before its `setpgid()`.  Every action but `ForkTestrun`,
  `SafeFork` and `SetPgid` is *tame* (makes nobody more alive, moves nobody to
  another group, revokes no SIGKILL), so only those three and the library's
  moves need an argument of their own.  It rests on the kernel refusing `fork()`
  to a process with a SIGKILL pending.
* `CleanupRunsOnce` (`CleanupOnce`) and `OrphanStopsHolds` (`OrphanStops`) rest on
  `MainInv`: the one process before `do_test_setup()`, in the loop of testrun(), or
  with its number in `context.main_pid` is the one the library waits for or, when the
  library was killed, has left to init.  For each action a lemma (`...Moves`) says
  what it does to the places of the processes, so that the invariants are argued on
  places and not on records.  `CleanInv` says that a process once in clean-up only
  goes on to its end; `OrphanInv` that a test function begun without the library is
  followed by no other, because the way back leads through heartbeat().
* `ExitStatusTruthful`: `ExitTruthful`.  `SaidInv` says at each place what has been
  reported by then: a process on its way to `abort_flag` has counted a TBROK, one that
  breaks has counted something, a filesystem that is skipped counts a TCONF, one that
  returns to the loop after a test function has had a result from it, and main exits
  with 0 only when something was reported (or there were no iterations, `-i 0`); the
  library that goes on to the next run, or to the exit, has seen that or has counted a
  failure itself.

### LibSetupProofs (for any tests, paths, values and number of faults)

`NothingLeftHolds`, `MountedLastHolds`, `EarlyExitHolds`, `ExitCoversHolds`.
The invariant says, per step of do_setup() and do_cleanup(), what can be held
and not owned (nothing but what a failed give-back or a half-done acquisition
explains), what is given back already, and that the exit status covers what was
reported.  do_cleanup() may begin with the file system of a run still mounted, when
tst_brk() left fork_testrun().

`SysctlRestoredHolds` rests on an invariant of its own, `ConfInv`.  A path may be
saved several times, at values the test has set meanwhile, and the list is written
back from its head.  `Origin(p, m)` says that the m-th entry is the path's original
value and that no later entry is of that path; an entry is put in front, so the last
of a path is its first saving.  While the list is written back, a path that has not
its value yet has its origin still to come.

### CheckpointProofs (for any processes, scripts, futexes, timeouts, signals, deaths)

`MatchedHolds` and `NoOvershootHolds`, from four invariants:

* `ControlInv`: a process is inside the call its script is at, and has one result
  for each call before it; one that broke has the TBROK of the call it broke in.
* `ReleaseInv`: a wake in its loop has ended exactly as many waits as its `waked`
  counts, all on its checkpoint; a wait that is asleep has been ended by nobody and
  one that is woken by one wake; calls to come have ended nothing.  FUTEX_WAKE adds
  one entry per sleeper, none of them old because a sleeper has none, so the sum and
  the number of entries grow alike.
* `WaiterInv`: what was ended is a wait of another process than the one that ended it.
  With `ReleaseInv` the entries of a wake inject into the waits the test makes on the
  checkpoint, so it counts no more than these.
* `LoneInv`: a wake that asks for one and meets one other process only has counted
  nobody as long as it goes on, for with one it would have returned.

The scripts are arbitrary: `MatchedHolds` uses no discipline of the test, and
`NoOvershootHolds` the one its statement has.  The library's facts about
cardinalities are taken in (`INSTANCE`) only below the steps that do without them.

### ZooProofs (for any drivers, calls, tags, crashes and failing calls)

`ZooImplements`: `Zoo` implements `ZooSpec`.  The invariant `LockInv` says that a
process that scans, writes or is about to unlock has the record lock, and that the
line a writer has found is still as it found it: past the end or free for a mark, an
entry of the process for a clear.  The lock is what keeps the second part true, for
a process killed or left with an error in between gives it up or keeps it for itself.
A write is then one line more, or less, with an entry (`PutEntry`, `PutFree`), which
is one more, or less, in the bag; every other step leaves the file alone.

`ZooConsistentHolds`: a running driver that has entered itself is in the file as itself,
and no driver fails to clear what it entered.  The refinement does not use what the
processes call; this theorem does, as `CallAssumption`: a driver clears only what it has
entered, each clear with a mark of its own before it.  Slots, placeholders (0, 1, 2 ... of
`-x n`), tests, tags and what ltp-bump is asked for are arbitrary, and a process number
may be used again by a later driver.  The code does not do more than this, so the
property has two conditions: `Safe` (ltp-bump does not clear the number from under a
running process: number 0, tags nobody asks for, or a driver's number that nothing else
is entered with) and `Private` (the number is not that of another driver's test or
placeholder).  The difficulty is that a clear takes the first line with the number, which
need not be the line the driver wrote.  `ZooInv` adds to `LockInv`:

* `Backed`: there is an injection of the marks that are owed (made by a running process
  and not yet cleared) into the lines, each to a line with its process number.  When a
  clear takes the line of another mark, that mark takes over the line of the one that
  was cleared (`ClearKeeps`); with it no clear reaches the end of the file.
* `Known`, `Learnt`: a line is of a mark of a process that has begun, and what
  zoo_getpid() returned was entered under a tag that is looked for.
* `Doing`: a process is in the call its program is at, or it is ltp-bump clearing a
  number, which if it is safe is of its only owner, who is done and owes nothing.
* `Passed`: the lines a clear has read are not of its process; `Live`: a driver from its
  first mark to its last call is named in the file; `OneAlive`: no two processes that
  exist have one number.

### CGroupProofs (for any tests, controllers, failing calls and lingering children)

`GroupsConsistentHolds`, `GroupsRemovedHolds`, `NoneBrokenHolds` and the action property
`RemovesBelowOwnHolds`, from one invariant `Inv` of three layers:

* What always holds (`Core`).  `Tree`: every group but `ltp` is below an `ltp`, no two
  live ones have the same name and parent, and a test's group is made by the test.
  `Membership`: a process is in a live group, and in that of a test only its own.
  `Descriptors`: a descriptor is of a directory with the name it goes by, though the
  directory may be gone.  `Control`: what is done in which phase, of a C test and of a
  script, whose clean-up is another process's.  `Owned`: from the end of
  tst_cg_require() to the start of the clean-up the test has its group, and none from
  the removal on.  `Maker`: a test that has made the `ltp` that is there knows it, in
  `we_created_it` or in the configuration tst_cgctl prints.
* `Premade`: with an `ltp` made in advance nobody takes itself for its maker, so no one
  gets to the shared groups in its clean-up.
* `Calmness`: if, besides, no call fails and no child lingers, the shared directories a
  test has open are alive and what it is about to open is there, so nothing breaks.

The tests interleave at every system call.  For each action a lemma says what it does to
its own test (`...Step`), and `Rel` what it does to the groups: it makes and removes none
but `drain`, `ltp` and its own, and it removes none with a process in it.  That a test's
group stays while it runs follows from the first; that `ltp` stays above it from the
kernel's refusal to remove a directory with others in it.

`RemovesBelowOwnHolds` also speaks of tests without an `ltp` made in advance, and needs
`Ownership` besides: a test that takes itself for the maker of `ltp` has it open, or has
its own group in it (a script, between two processes), or is about to open it, and it is
the one it made.  A step of another test keeps this, because `ltp` is removed only by its
maker, and is not removed while a group is in it.

### DeviceProofs (for any tests, devices, retries, failures, openings by udev)

`UsedIsOwnHolds`.  The invariant says that from LOOP_SET_FD on the device is the
test's, and not marked to be detached at the last close, until the test starts to
detach it; and that while it is detaching it the test has it open itself, so that
nobody else's close sets it free.

`CleanIsDetachedHolds`: an image is bound to no device but its test's (`Settled`), and
each step of the others takes images off devices and puts on none but their own
(`Loses`).  LOOP_CLR_FD that returns ENXIO has seen the test's own device unbound or
going down, and a test that ends well has seen that.

### ShellTestProofs (for any tests, signals, failing commands, timers and polls)

`CleanedUpHolds`, `CleanupOnceHolds`, `ExitTellsHolds`, `TimerStoppedHolds`,
`TimersConsistentHolds`, `FullTimeHolds`, from four invariants:

* `CleanInv`: `TST_DO_CLEANUP` is set only for a test that has begun and, but for
  a late signal, as long as cleanup is due; it is empty from the end of cleanup on.
  tst_brk() empties it only when it is of no use any more.
* `TimerInv`: at most the timer in `_tst_setup_timer_pid` sleeps, and none does
  when its SIGTERM is pending or another is about to be started.  It holds as long
  as the situation is `Calm`: no SIGTERM from outside and no trap in the middle of
  the exchange, or no signal from outside at all.  Timers start in their order.
* `TellInv`: what the exit status has to tell is `Marked` (a trap is pending or a
  warning is counted), or a later step of `_tst_do_exit()` will see to it: the
  device and the mount by their flags, the timer by its process number.
* `TypeInv`: the variables have their types; the counters of iterations and test cases
  stay in range because of the place at which each is counted (`CountInv`).

`SameRace` and `ResetAlone` of `FuzzySync`, `TypeOK` of `TstTest`, `MountedLast` and
`ExitCovers` of `LibSetup` are proved only: no run repeats them.

### Only model-checked

Liveness (`Terminates`, `ExitEnds`, `WaitReturns`, `EveryCallReturns`,
`CleanupEnds`, `AllFreed`, `AllFinish`, `StopsOnSignal`), which is beyond the
prover; and `BooksAgree` and `AtExit` of `Pan`.  `BooksAgree` equates counters with
the number of slots filled and of groups orphaned, which needs the cardinalities of
`running` carried through the whole loop of main().  `AtExit` holds for fewer than 256
failures only (`exit()` keeps eight bits of their number), and `Pan` has no bound on the
failures of a run from which that would follow for every value of the constants.

## 5. What the properties leave out, and why

Some properties carry a condition because the code does not do more.  They are
remarks from reading and modelling the code, not checked by a run of their own:

* `include/tst_test.h:112` says that after TBROK "the whole process group is killed so
  that there are no processes left after the library process exits": the taint check of
  fork_testrun() (`lib/tst_test.c:1932`) returns before that kill, so a test with
  `taint_check` and `forks_child` on a tainted kernel leaves its children running
  (`LeftoversKilled`, `TbrokKillsOwn` exempt it).
* `doc/old/C-Test-API.asciidoc:778` says TST_CHECKPOINT_WAKE2() "can be used to wake
  precisely 'nr_wake' processes": FUTEX_WAKE is called with INT_MAX, so with more
  sleepers than `nr_wake` all are let go, and the wake fails (`Disciplined`).
* `include/tst_checkpoint_fn.h` says "0 == no timeout": a wait with 0 does not sleep, and
  a wake with 0 gives up after one nap.  `include/tst_checkpoint.h` says a wait "gives up
  after 10 seconds": every signal starts them over, so that with signals for ever it does
  not (`EveryCallReturns` names them as the excuse).
* Threads of a main process that break together are not modelled (`CleanupOnce`).
* `doc/old/C-Test-API.asciidoc` says a taint "will abort testing early": the next
  filesystem is tested.  `include/tst_test.h` says cleanup is called "in a case
  that tst_brk() was called": TBROK in a child kills main before it cleans up.
* `LibSetup`: `-h`, `-V` and a break in setup_ipc() exit past do_cleanup()
  (`EarlyExit` says what stays).  do_setup()'s TCONF for a device it could not acquire
  is not in the model: tst_acquire_device_() breaks the test itself then.
  prepare_device() ignores the result of prepare_and_mount_ro_fs(): a
  `needs_rofs` test may run with nothing mounted.
* `Device`: the second ioctl() of an attachment may fail with the first not
  undone (hence "if no system call failed" in `AllFreed`; such a test ends with TBROK, of
  which `CleanIsDetached` does not speak); when partitions are
  cleared the device is detached and attached again and may be another test's in
  between; an older kernel refuses LOOP_CLR_FD while udev has the device open
  (`Undisturbed`).
* `CGroup`: of the shared groups only `ltp` is asked who made it (`cgroup_parallel`),
  so that tests break each other without an `ltp` made in advance (`Calm`); a break in
  tst_cg_cleanup() enters it again.  A script that requires a second controller gets a
  second configuration, which says that `ltp` was there, and leaves `ltp` and `drain`
  behind (`KeepsConf`; found when `GroupsRemoved` could not be proved without it).
* `Pan`: a signal that comes while a child is between fork() and exec() loses the
  child from the slots (`pan_lost`; the other properties exempt `opt.slow`); a signal
  handled between the test of rec_signal and wait() is passed on only when a test ends,
  and one that comes while another is passed on is erased, though it has moved the
  ratchet (`StopsOnSignal` speaks of signals main() begins to pass on); SIGTERMs for ever
  keep pan at SIGTERM (`Pestered`); pan exits at once when the zoo fails; a test that
  cannot be executed is not counted as a failure (`opt.missing`) and, without `-S`, is
  tried again for ever; with `-y` pan goes on after a signal by design. The exit status
  is the number of failures and `exit()` keeps eight bits of it: after 256 failures it
  is 0.
* `Zoo`: ltp-bump compares as much of a tag as the tag asked for is long, so it may
  find another driver.  Asked for the tag of a test, it may clear the entry of a test that
  has just ended before the driver does, and the driver then takes its own clear for a
  failure and exits (`Safe`).  The placeholders of `-x n` have the numbers 0 to n - 1,
  which from 1 on are those of processes that may exist; a driver whose own number is
  that of another's placeholder or test may lose its line to it (`Private`).
* `ShellTest`: TBROK before the first test and between two filesystems is only a
  warning when `TST_CLEANUP` is set, and the test goes on; a signal that comes when
  `_tst_do_exit()` has begun empties `TST_DO_CLEANUP`, so cleanup may be skipped
  (`late`); a TERM from somebody else makes the trap forget a timer that has not
  fired (`termed`), which then may interrupt the next run; a timer that fires between two
  runs, where TBROK is only a warning, goes on to SIGKILL the next (`FullTime` speaks of
  the SIGTERM); a trap while the timer is exchanged leaves what follows without
  one (`lost`); `mktemp` and `rm` are not looked at.

## 6. Not modelled

Formatting and printing of results, failure hints and tags, option parsing, the
arithmetic of timeouts and runtimes (the models say "armed" and "expires"),
kernel and configuration requirements (one step before anything else, ending in
TCONF), and the parts the table of section 1 marks so.  In `ShellTest` besides:
`LTP_NO_CLEANUP`, a `TST_CLEANUP` that is no function, temporary directories on a
remote host.  `PROJECT.json` lists every part with its reason.

By lines most of the tree is test cases: close to six hundred thousand lines, of
which the library, pan and the shell library are a few per cent.  Each test case
exercises the kernel and has no state that other parts rely on; their calls to
the library are the environment of the models here.  So the share of the tree
that the map covers is small and will stay so; of `tst_test.c`, `tst_device.c`,
`tst_cgroup.c`, `zoolib.c`, `ltp-pan.c`, `tst_checkpoint.c`, `tst_fuzzy_sync.h`
and `tst_test.sh` it covers the parts that change state.

What remains worth specifying: the old API (`lib/tst_res.c`: the exit status
against the set of reported results), the evaluator of `lib/tst_bool_expr.c`
against a recursive reference, and proofs of `Pan`.
