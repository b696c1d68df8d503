----------------------------- MODULE ShellTest ------------------------------
(* A test written in shell: the functions of testcases/lib/tst_test.sh that *)
(* set up, run and end it, the traps for INT and TERM, and the helper       *)
(* tst_timeout_kill that runs beside it and signals its process group.      *)
EXTENDS Integers, FiniteSets

CONSTANTS
  Scenes,    \* the tests, and what may go wrong in them
  Timers,    \* the tst_timeout_kill processes, 1..n in the order of their start
  MaxPolls   \* how often tst_timeout_kill looks whether the group has gone (10)

ASSUME ShellAssumption ==
  /\ Timers \subseteq Nat \ {0} /\ MaxPolls \in Nat
  /\ Scenes \subseteq
       [cleanup : BOOLEAN, setup : BOOLEAN,  \* TST_CLEANUP, TST_SETUP are set
        device : BOOLEAN, mount : BOOLEAN,   \* TST_NEEDS_DEVICE, TST_MOUNT_DEVICE
        checkpoints : BOOLEAN,               \* TST_NEEDS_CHECKPOINTS
        runs : Nat,            \* filesystems of TST_ALL_FILESYSTEMS, or 1
        iterations : Nat, tcnt : Nat,
        timed : BOOLEAN,       \* TST_TIMEOUT is not -1
        leader : BOOLEAN,      \* the shell leads a process group
        reports : SUBSET {"TPASS", "TFAIL", "TWARN", "TCONF"},  \* by the test
        resets : BOOLEAN,      \* the test calls tst_set_timeout
        deaf : BOOLEAN,        \* a command of the test may ignore SIGTERM
        signals : SUBSET {"INT", "TERM"},    \* what others send to the group
        sent : Nat, faults : Nat]  \* how many of them, how many failing commands

VARIABLES
  scene,
  pc,          \* the command the shell is about to execute or executes
  runs, i, j,  \* filesystems, iterations and test functions to go
  do_cleanup, do_exit,      \* TST_DO_CLEANUP, TST_DO_EXIT
  mount_flag, device_flag,  \* TST_MOUNT_FLAG, TST_DEVICE_FLAG
  timer,       \* _tst_setup_timer_pid, or 0
  back,        \* the caller of _tst_setup_timer
  held,        \* what the system holds for the test
  owned,       \* what the shell has the name of: TST_TMPDIR, TST_DEVICE
  res, moved,  \* the counters that are not 0; a result since _tst_resstr
  code,        \* the exit status
  pend,        \* signals whose trap is still to be run
  hurt,        \* the command under way was hit by such a signal
  deaf,        \* the command under way ignores signals and does not end
  timers,      \* the tst_timeout_kill processes
  sent, faults,
  dirty,       \* (history) setup or a test function began, cleanup did not
  timedout,    \* (history) a timer sent SIGTERM
  termed,      \* (history) somebody else sent SIGTERM
  late,        \* (history) a trap was run when _tst_do_exit had begun
  lost         \* (history) a trap was run while the timer was exchanged

count == <<runs, i, j, back>>
flags == <<do_cleanup, do_exit>>
rsc == <<mount_flag, device_flag, held, owned>>
result == <<res, moved, code>>
async == <<pend, hurt, deaf, sent>>
hist == <<dirty, timedout, termed, late, lost>>
vars == <<scene, pc, count, flags, rsc, timer, result, async, timers, faults, hist>>

User == {"setup", "test", "cleanup"}
Acquires == {"mktemp", "acquire", "checkpoints", "mkfs", "mount"}
Releases == {"umount", "x_umount", "x_release", "x_rmdir", "x_ipc"}
Waits == {"oldwait", "x_wait"}
End == {"done", "killed"}
Types == {"TPASS", "TFAIL", "TBROK", "TWARN", "TCONF"}
Resources == {"tmpdir", "dev", "mount", "ipc"}

TypeOK ==
  /\ scene \in Scenes
  /\ pc \in User \cup Acquires \cup Releases \cup Waits \cup End \cup
       {"start", "runs", "oldtimer", "newtimer", "settle", "begin", "iterations",
        "tests", "do_cleanup", "exit", "x_timer", "x_code", "summary"}
  /\ runs \in 0..scene.runs /\ i \in 0..scene.iterations /\ j \in 0..scene.tcnt
  /\ back \in {"begin", "setup", "test"}
  /\ {do_cleanup, do_exit, mount_flag, device_flag, moved, hurt, deaf, dirty,
      timedout, termed, late, lost} \subseteq BOOLEAN
  /\ timer \in Timers \cup {0}
  /\ held \subseteq Resources /\ owned \subseteq {"tmpdir", "dev"}
  /\ res \subseteq Types /\ code \subseteq Types
  /\ pend \subseteq {"INT", "TERM"}
  /\ timers \in [Timers -> [at : {"none", "forked", "sleep", "poll", "gone"},
                            left : 0..MaxPolls, dying : BOOLEAN]]
  /\ sent \in 0..scene.sent /\ faults \in 0..scene.faults

Init ==
  /\ scene \in Scenes
  /\ pc = "start"
  /\ runs = scene.runs /\ i = 0 /\ j = 0 /\ back = "begin"
  /\ do_cleanup = FALSE /\ do_exit = FALSE
  /\ mount_flag = FALSE /\ device_flag = FALSE
  /\ timer = 0
  /\ held = {} /\ owned = {}
  /\ res = {} /\ moved = FALSE /\ code = {}
  /\ pend = {} /\ hurt = FALSE /\ deaf = FALSE
  /\ timers = [t \in Timers |-> [at |-> "none", left |-> MaxPolls, dying |-> FALSE]]
  /\ sent = 0 /\ faults = 0
  /\ dirty = FALSE /\ timedout = FALSE /\ termed = FALSE /\ late = FALSE /\ lost = FALSE

-----------------------------------------------------------------------------
(* tst_brk(), traps and failing commands.                                   *)

\* TBROK is no more than a warning on exit and in cleanup, which the code
\* tells by TST_DO_CLEANUP: so it is also before setup and between two runs.
Warns == do_exit \/ (~do_cleanup /\ scene.cleanup)

\* tst_brk(t), whose caller goes on at next if it returns.
Brk(t, next) ==
  IF t = "TBROK" /\ Warns
  THEN /\ res' = res \cup {"TWARN"}
       /\ do_cleanup' = FALSE
       /\ pc' = next
       /\ UNCHANGED do_exit
  ELSE /\ res' = res \cup {t}
       /\ pc' = "exit"
       /\ UNCHANGED flags

\* The shell runs pending traps before its next command, and after the one
\* that is under way.
At(step) == pc = step /\ pend = {} /\ ~deaf

\* A command succeeds, or it fails of itself or because a signal ended it.
Succeeds == ~hurt /\ UNCHANGED <<hurt, faults>>
Faulty == ~hurt /\ faults < scene.faults /\ faults' = faults + 1 /\ UNCHANGED hurt
Fails == Faulty \/ (hurt /\ hurt' = FALSE /\ UNCHANGED faults)

\* Mutant of TrapTimer: the INT trap forgets the timer, too.
TrapTimerAlways(s) == 0

\* The TERM trap leaves the timer alone, to kill a test that does not end.
TrapTimer(s) == IF s = "TERM" THEN 0 ELSE timer

\* What follows the command a trap has interrupted: wait returns.
Resumed == CASE pc = "oldwait" -> "newtimer" [] pc = "x_wait" -> "x_code" [] OTHER -> pc

Trap(s) ==
  /\ s \in pend /\ ~deaf /\ pc \notin End
  /\ pend' = pend \ {s}
  /\ timer' = TrapTimer(s)
  /\ Brk("TBROK", Resumed)
  /\ hurt' = (hurt /\ Warns)
  /\ late' = (late \/ do_exit)
  /\ lost' = (lost \/ pc \in {"oldwait", "newtimer", "settle"})
  /\ UNCHANGED <<scene, count, rsc, moved, code, deaf, sent, timers, faults, dirty, timedout,
                 termed>>

\* Whether the step has a command to execute.
Needed ==
  CASE pc \in {"mktemp", "acquire"} -> scene.device
    [] pc = "checkpoints" -> scene.checkpoints
    [] pc \in {"mkfs", "mount"} -> scene.mount
    [] pc \in {"umount", "x_umount"} -> mount_flag
    [] pc = "x_release" -> device_flag
    [] pc = "x_rmdir" -> "tmpdir" \in owned
    [] pc = "x_ipc" -> "ipc" \in held
    [] OTHER -> FALSE

\* A signal reaches the group: the shell has a trap to run, and the command it
\* executes may end.  One that acquires something may have just done so.
Hit(s) ==
  /\ pend' = pend \cup {s}
  /\ \/ hurt' = hurt /\ UNCHANGED held
     \/ /\ Needed /\ hurt' = TRUE
        /\ \/ UNCHANGED held
           \/ pc = "mktemp" /\ held' = held \cup {"tmpdir"}
           \/ pc = "acquire" /\ held' = held \cup {"dev"}
           \/ pc = "mount" /\ held' = held \cup {"mount"}

\* Somebody else signals the group; a timer that has not left it is in it, but
\* a background process of the shell ignores SIGINT.
Signal(s) ==
  /\ s \in scene.signals /\ sent < scene.sent /\ pc \notin End
  /\ sent' = sent + 1
  /\ termed' = (termed \/ s = "TERM")
  /\ Hit(s)
  /\ timers' = [t \in Timers |->
       IF s = "TERM" /\ timers[t].at = "forked" THEN [timers[t] EXCEPT !.dying = TRUE]
       ELSE timers[t]]
  /\ UNCHANGED <<scene, pc, count, flags, mount_flag, device_flag, owned, timer, result,
                 deaf, faults, dirty, timedout, late, lost>>

-----------------------------------------------------------------------------
(* tst_run() up to the test.                                                *)

Goto(step) == pc' = step /\ UNCHANGED <<res, flags>>

\* A step whose command is not needed.
Skip(step, next) ==
  /\ At(step) /\ ~Needed
  /\ pc' = next
  /\ UNCHANGED <<scene, count, flags, rsc, timer, result, async, timers, faults, hist>>

\* The options and requirements: all met, TCONF, or TBROK.
Checks ==
  /\ At("start")
  /\ \/ Succeeds /\ Goto("mktemp")
     \/ Faulty /\ \E t \in {"TBROK", "TCONF"} : Brk(t, "mktemp")
  /\ UNCHANGED <<scene, count, rsc, timer, moved, code, pend, deaf, sent, timers, hist>>

\* The result of mktemp is not looked at.
Mktemp ==
  /\ At("mktemp") /\ Needed
  /\ \/ Succeeds /\ held' = held \cup {"tmpdir"} /\ owned' = owned \cup {"tmpdir"}
     \/ Fails /\ UNCHANGED <<held, owned>>
  /\ Goto("acquire")
  /\ UNCHANGED <<scene, count, mount_flag, device_flag, timer, moved, code, pend, deaf,
                 sent, timers, hist>>

Acquire ==
  /\ At("acquire") /\ Needed
  /\ \/ /\ Succeeds
        /\ held' = held \cup {"dev"} /\ owned' = owned \cup {"dev"}
        /\ Goto("checkpoints")
     \/ Fails /\ Brk("TBROK", "checkpoints") /\ UNCHANGED <<held, owned>>
  /\ device_flag' = (pc' # "exit")
  /\ UNCHANGED <<scene, count, mount_flag, timer, moved, code, pend, deaf, sent, timers, hist>>

\* The filesystem is not supported; with TST_ALL_FILESYSTEMS, none is.
Unsupported ==
  /\ pc \in {"checkpoints", "runs"} /\ At(pc) /\ runs = scene.runs /\ Faulty
  /\ Brk("TCONF", pc)
  /\ UNCHANGED <<scene, count, rsc, timer, moved, code, pend, deaf, sent, timers, hist>>

InitCheckpoints ==
  /\ At("checkpoints") /\ Needed
  /\ \/ Succeeds /\ held' = held \cup {"ipc"} /\ Goto("runs")
     \/ Fails /\ Brk("TBROK", "runs") /\ held' \in {held, held \cup {"ipc"}}
  /\ UNCHANGED <<scene, count, mount_flag, device_flag, owned, timer, moved, code, pend,
                 deaf, sent, timers, hist>>

\* The next filesystem, or the one run of a test without TST_ALL_FILESYSTEMS.
NextRun ==
  /\ At("runs")
  /\ IF runs > 0
     THEN pc' = "mkfs" /\ runs' = runs - 1 /\ i' = scene.iterations /\ back' = "begin"
     ELSE pc' = "exit" /\ UNCHANGED <<runs, i, back>>
  /\ UNCHANGED <<scene, j, flags, rsc, timer, result, async, timers, faults, hist>>

\* mkfs and mount need a device, which must not be mounted already.
Usable == "dev" \in owned /\ "mount" \notin held

Mkfs ==
  /\ At("mkfs") /\ Needed
  /\ \/ Succeeds /\ Usable /\ Goto("mount")
     \/ /\ Fails \/ (Succeeds /\ ~Usable)
        /\ \E t \in {"TBROK", "TCONF"} : Brk(t, "mount")
  /\ UNCHANGED <<scene, count, rsc, timer, moved, code, pend, deaf, sent, timers, hist>>

Mount ==
  /\ At("mount") /\ Needed
  /\ \/ Succeeds /\ Usable /\ held' = held \cup {"mount"} /\ Goto("oldtimer")
     \/ /\ Fails \/ (Succeeds /\ ~Usable)
        /\ \E t \in {"TBROK", "TCONF"} : Brk(t, "oldtimer")
        /\ UNCHANGED held
  /\ mount_flag' = (pc' # "exit")
  /\ UNCHANGED <<scene, count, device_flag, owned, timer, moved, code, pend, deaf,
                 sent, timers, hist>>

-----------------------------------------------------------------------------
(* The timer: _tst_setup_timer(), _tst_cleanup_timer(), tst_timeout_kill.    *)

Started == {t \in Timers : timers[t].at # "none"}

\* kill -TERM of the timer: it may take another step before it dies.
KillTimer ==
  timers' = IF timer # 0 /\ timers[timer].at # "gone"
            THEN [timers EXCEPT ![timer].dying = TRUE] ELSE timers

\* Mutant of OldTimer: the earlier timer is not ended.
OldTimerKept ==
  /\ At("oldtimer")
  /\ pc' = IF scene.timed THEN "newtimer" ELSE back
  /\ UNCHANGED <<scene, count, flags, rsc, timer, result, async, timers, faults, hist>>

\* _tst_cleanup_timer of _tst_setup_timer.
OldTimer ==
  /\ At("oldtimer")
  /\ IF ~scene.timed THEN pc' = back /\ UNCHANGED timers
     ELSE IF timer = 0 THEN pc' = "newtimer" /\ UNCHANGED timers
     ELSE pc' = "oldwait" /\ KillTimer
  /\ UNCHANGED <<scene, count, flags, rsc, timer, result, async, faults, hist>>

\* wait for a timer that was killed.
OldWait ==
  /\ At("oldwait") /\ timers[timer].at = "gone"
  /\ pc' = "newtimer"
  /\ UNCHANGED <<scene, count, flags, rsc, timer, result, async, timers, faults, hist>>

NewTimer ==
  /\ At("newtimer")
  /\ \E t \in Timers :
       /\ timers[t].at = "none" /\ \A u \in Timers : u < t => u \in Started
       /\ timers' = [timers EXCEPT ![t].at = "forked"]
       /\ timer' = t
  /\ pc' = "settle"
  /\ UNCHANGED <<scene, count, flags, rsc, result, async, faults, hist>>

\* Until /proc shows the timer asleep.
Settle ==
  /\ At("settle") /\ timer # 0 /\ timers[timer].at \in {"sleep", "poll"}
  /\ pc' = back
  /\ UNCHANGED <<scene, count, flags, rsc, timer, result, async, timers, faults, hist>>

Alive == scene.leader /\ pc \notin End

\* setpgid(0, 0)
TimerStarts(t) ==
  /\ timers[t].at = "forked"
  /\ timers' = [timers EXCEPT ![t].at = "sleep"]
  /\ UNCHANGED <<scene, pc, count, flags, rsc, timer, result, async, faults, hist>>

\* kill(-pid, SIGTERM)
TimerExpires(t) ==
  /\ timers[t].at = "sleep"
  /\ IF Alive
     THEN Hit("TERM") /\ timedout' = TRUE /\ timers' = [timers EXCEPT ![t].at = "poll"]
     ELSE timers' = [timers EXCEPT ![t].at = "gone"] /\ UNCHANGED <<pend, hurt, held, timedout>>
  /\ UNCHANGED <<scene, pc, count, flags, mount_flag, device_flag, owned, timer, result, deaf,
                 sent, faults, dirty, termed, late, lost>>

\* Mutant of TimerKills: the group is only watched.
TimerKillsNot(t) ==
  /\ timers[t].at = "poll" /\ timers[t].left = 0 /\ Alive
  /\ timers' = [timers EXCEPT ![t].at = "gone"]
  /\ UNCHANGED <<scene, pc, count, flags, rsc, timer, result, async, faults, hist>>

\* kill(-pid, SIGKILL)
TimerKills(t) ==
  /\ timers[t].at = "poll" /\ timers[t].left = 0 /\ Alive
  /\ timers' = [timers EXCEPT ![t].at = "gone"]
  /\ pc' = "killed" /\ pend' = {} /\ hurt' = FALSE /\ deaf' = FALSE
  /\ UNCHANGED <<scene, count, flags, rsc, timer, result, sent, faults, hist>>

\* kill(-pid, 0) once a second
TimerPolls(t) ==
  /\ timers[t].at = "poll"
  /\ \/ Alive /\ timers[t].left > 0 /\ timers' = [timers EXCEPT ![t].left = @ - 1]
     \/ ~Alive /\ timers' = [timers EXCEPT ![t].at = "gone"]
  /\ UNCHANGED <<scene, pc, count, flags, rsc, timer, result, async, faults, hist>>

TimerDies(t) ==
  /\ timers[t].dying /\ timers[t].at # "gone"
  /\ timers' = [timers EXCEPT ![t].at = "gone"]
  /\ UNCHANGED <<scene, pc, count, flags, rsc, timer, result, async, faults, hist>>

-----------------------------------------------------------------------------
(* The test, _tst_run_iterations() and _tst_run_tests().                    *)

\* Mutant of BeginSetup: cleanup is due only when setup is over.
BeginSetupLate ==
  /\ At("begin")
  /\ pc' = IF scene.setup THEN "setup" ELSE "iterations"
  /\ dirty' = (dirty \/ scene.setup)
  /\ UNCHANGED <<scene, count, flags, rsc, timer, result, async, timers, faults, timedout,
                 termed, late, lost>>

BeginSetup ==
  /\ At("begin")
  /\ IF scene.setup
     THEN pc' = "setup" /\ do_cleanup' = TRUE /\ dirty' = TRUE
     ELSE pc' = "iterations" /\ UNCHANGED <<do_cleanup, dirty>>
  /\ UNCHANGED <<scene, count, do_exit, rsc, timer, result, async, timers, faults, timedout,
                 termed, late, lost>>

Iterations ==
  /\ At("iterations")
  /\ IF i > 0 THEN pc' = "tests" /\ i' = i - 1 /\ j' = scene.tcnt
     ELSE pc' = "do_cleanup" /\ UNCHANGED <<i, j>>
  /\ UNCHANGED <<scene, runs, back, flags, rsc, timer, result, async, timers, faults, hist>>

\* _tst_run_tests, and _tst_run_test up to the call of the test function.
RunTest ==
  /\ At("tests")
  /\ IF j > 0
     THEN /\ pc' = "test" /\ j' = j - 1
          /\ do_cleanup' = TRUE /\ dirty' = TRUE /\ moved' = FALSE
     ELSE pc' = "iterations" /\ UNCHANGED <<j, do_cleanup, dirty, moved>>
  /\ UNCHANGED <<scene, runs, i, back, do_exit, rsc, timer, res, code, async, timers, faults,
                 timedout, termed, late, lost>>

Report(t) ==
  /\ pc \in User /\ At(pc)
  /\ res' = res \cup {t}
  /\ moved' = (moved \/ t \in {"TPASS", "TFAIL", "TCONF"})
  /\ UNCHANGED <<scene, pc, count, flags, rsc, timer, code, async, timers, faults, hist>>

TestBrk(t) ==
  /\ pc \in User /\ At(pc)
  /\ Brk(t, pc)
  /\ UNCHANGED <<scene, count, rsc, timer, moved, code, async, timers, faults, hist>>

SetTimeout ==
  /\ pc \in {"setup", "test"} /\ At(pc) /\ scene.timed /\ scene.resets
  /\ Cardinality(Timers \ Started) > runs  \* the later runs have theirs
  /\ pc' = "oldtimer" /\ back' = pc
  /\ UNCHANGED <<scene, runs, i, j, flags, rsc, timer, result, async, timers, faults, hist>>

\* The test executes a command that ignores signals and does not end.
Hang ==
  /\ pc \in User /\ At(pc) /\ scene.deaf
  /\ deaf' = TRUE
  /\ UNCHANGED <<scene, pc, count, flags, rsc, timer, result, pend, hurt, sent, timers, faults, hist>>

SetupReturns ==
  /\ At("setup") /\ pc' = "iterations"
  /\ UNCHANGED <<scene, count, flags, rsc, timer, result, async, timers, faults, hist>>

\* _tst_rescmp
TestReturns ==
  /\ At("test")
  /\ IF moved THEN Goto("tests") ELSE Brk("TBROK", "tests")
  /\ UNCHANGED <<scene, count, rsc, timer, moved, code, async, timers, faults, hist>>

-----------------------------------------------------------------------------
(* _tst_do_cleanup() and _tst_do_exit().                                    *)

AfterCleanup == IF do_exit THEN "x_umount" ELSE "umount"

\* Mutant of DoCleanup: TST_DO_CLEANUP is emptied only after the call.
DoCleanupLate ==
  /\ At("do_cleanup")
  /\ IF do_cleanup /\ scene.cleanup
     THEN pc' = "cleanup" /\ dirty' = FALSE /\ UNCHANGED do_cleanup
     ELSE pc' = AfterCleanup /\ do_cleanup' = FALSE /\ UNCHANGED dirty
  /\ UNCHANGED <<scene, count, do_exit, rsc, timer, result, async, timers, faults, timedout,
                 termed, late, lost>>

DoCleanup ==
  /\ At("do_cleanup")
  /\ IF do_cleanup /\ scene.cleanup
     THEN pc' = "cleanup" /\ dirty' = FALSE
     ELSE pc' = AfterCleanup /\ UNCHANGED dirty
  /\ do_cleanup' = FALSE
  /\ UNCHANGED <<scene, count, do_exit, rsc, timer, result, async, timers, faults, timedout,
                 termed, late, lost>>

CleanupReturns ==
  /\ At("cleanup")
  /\ pc' = AfterCleanup /\ do_cleanup' = FALSE
  /\ UNCHANGED <<scene, count, do_exit, rsc, timer, result, async, timers, faults, hist>>

\* tst_umount: a umount that a signal ended is tried again; 50 that fail are a
\* warning.  Only _tst_run_iterations forgets the mount then.
Umount(step, next) ==
  /\ At(step) /\ Needed
  /\ \/ hurt /\ hurt' = FALSE /\ UNCHANGED <<pc, held, mount_flag, res, faults>>
     \/ /\ Succeeds
        /\ held' = held \ {"mount"}
        /\ pc' = next /\ mount_flag' = (step = "x_umount") /\ UNCHANGED res
     \/ /\ Faulty /\ "mount" \in held
        /\ res' = res \cup {"TWARN"}
        /\ pc' = next /\ mount_flag' = (step = "x_umount") /\ UNCHANGED held
  /\ UNCHANGED <<scene, count, flags, device_flag, owned, timer, moved, code, pend, deaf,
                 sent, timers, hist>>

Exit ==
  /\ At("exit")
  /\ do_exit' = TRUE /\ pc' = "do_cleanup"
  /\ UNCHANGED <<scene, count, do_cleanup, rsc, timer, result, async, timers, faults, hist>>

Release ==
  /\ At("x_release") /\ Needed
  /\ \/ Succeeds /\ Usable /\ held' = held \ {"dev"} /\ UNCHANGED res
     \/ /\ Fails \/ (Succeeds /\ ~Usable)
        /\ res' = res \cup {"TWARN"} /\ UNCHANGED held
  /\ pc' = "x_rmdir"
  /\ UNCHANGED <<scene, count, flags, mount_flag, device_flag, owned, timer, moved, code, pend,
                 deaf, sent, timers, hist>>

\* rm -r does not remove a mount point; whether it succeeds is not looked at.
Rmdir ==
  /\ At("x_rmdir") /\ Needed
  /\ \/ Succeeds /\ held' = IF "mount" \in held THEN held ELSE held \ {"tmpdir"}
     \/ Fails /\ UNCHANGED held
  /\ pc' = "x_ipc"
  /\ UNCHANGED <<scene, count, flags, mount_flag, device_flag, owned, timer, result, pend, deaf,
                 sent, timers, hist>>

RmIpc ==
  /\ At("x_ipc") /\ Needed
  /\ \/ Succeeds /\ held' = held \ {"ipc"}
     \/ Fails /\ UNCHANGED held
  /\ pc' = "x_timer"
  /\ UNCHANGED <<scene, count, flags, mount_flag, device_flag, owned, timer, result, pend, deaf,
                 sent, timers, hist>>

\* _tst_cleanup_timer
CleanupTimer ==
  /\ At("x_timer")
  /\ IF timer = 0 THEN pc' = "x_code" /\ UNCHANGED timers ELSE pc' = "x_wait" /\ KillTimer
  /\ UNCHANGED <<scene, count, flags, rsc, timer, result, async, faults, hist>>

\* Mutant of Wait: the shell does not wait for the timer it has killed.
WaitNot ==
  /\ At("x_wait")
  /\ pc' = "x_code"
  /\ UNCHANGED <<scene, count, flags, rsc, timer, result, async, timers, faults, hist>>

Wait ==
  /\ At("x_wait") /\ timers[timer].at = "gone"
  /\ pc' = "x_code"
  /\ UNCHANGED <<scene, count, flags, rsc, timer, result, async, timers, faults, hist>>

ExitCode ==
  /\ At("x_code")
  /\ code' = (res \cap {"TFAIL", "TBROK", "TWARN"})
               \cup (IF "TPASS" \in res THEN {} ELSE res \cap {"TCONF"})
  /\ pc' = "summary"
  /\ UNCHANGED <<scene, count, flags, rsc, timer, res, moved, async, timers, faults, hist>>

Summary ==
  /\ At("summary")
  /\ pc' = "done"
  /\ UNCHANGED <<scene, count, flags, rsc, timer, result, async, timers, faults, hist>>

-----------------------------------------------------------------------------

Library ==
  \/ Checks \/ Mktemp \/ Acquire \/ Unsupported \/ InitCheckpoints \/ NextRun \/ Mkfs \/ Mount
  \/ Skip("mktemp", "acquire") \/ Skip("acquire", "checkpoints") \/ Skip("checkpoints", "runs")
  \/ Skip("mkfs", "mount") \/ Skip("mount", "oldtimer") \/ Skip("umount", "runs")
  \/ Skip("x_umount", "x_release") \/ Skip("x_release", "x_rmdir") \/ Skip("x_rmdir", "x_ipc")
  \/ Skip("x_ipc", "x_timer")
  \/ OldTimer \/ OldWait \/ NewTimer \/ Settle \/ BeginSetup \/ Iterations \/ RunTest
  \/ DoCleanup \/ Umount("umount", "runs") \/ Umount("x_umount", "x_release")
  \/ Exit \/ Release \/ Rmdir \/ RmIpc \/ CleanupTimer \/ Wait \/ ExitCode \/ Summary
  \/ \E s \in {"INT", "TERM"} : Trap(s)

Test ==
  \/ \E t \in scene.reports : Report(t)
  \/ \E t \in {"TBROK", "TCONF"} : TestBrk(t)
  \/ SetTimeout \/ Hang \/ SetupReturns \/ TestReturns \/ CleanupReturns

Timer(t) ==
  TimerStarts(t) \/ TimerExpires(t) \/ TimerPolls(t) \/ TimerKills(t) \/ TimerDies(t)

Next ==
  \/ Library \/ Test
  \/ \E t \in Timers : Timer(t)
  \/ \E s \in {"INT", "TERM"} : Signal(s)

\* The shell executes the library's commands, which end; a timer is scheduled
\* and its sleep ends.  The test's own code may stop anywhere.
Fairness == WF_vars(Library) /\ \A t \in Timers : WF_vars(Timer(t))

Spec == Init /\ [][Next]_vars /\ Fairness

-----------------------------------------------------------------------------
(* Properties *)

\* A test whose setup or test function began has had its cleanup when it exits,
\* however it was broken, interrupted or timed out, unless a signal came when
\* _tst_do_exit() had begun: that trap empties TST_DO_CLEANUP.
CleanedUp == pc = "done" /\ scene.cleanup /\ ~late => ~dirty

\* TST_CLEANUP is called once for a run that has begun, also if tst_brk() or a
\* trap is executed in the middle of it.
CleanupOnce == [][pc' = "cleanup" /\ pc # "cleanup" => dirty]_vars

\* A test that was sent SIGTERM by its timer does not exit with 0, though the
\* timer fired when the test was on its way out: _tst_do_exit() ends the timer
\* before it computes the status.  Nor does one that leaves a device or a mount
\* behind, also if a signal came while it was acquired or given back.  (A
\* directory or an IPC file may stay unnoticed: nobody looks whether rm succeeds.)
ExitTells ==
  pc = "done" /\ (timedout \/ held \cap {"dev", "mount"} # {}) => code # {}

\* No timer sleeps on when the test has exited, to signal a process group that
\* may be another's by then, unless SIGTERM came from somebody else, whose trap
\* forgets a timer that has not fired, or a signal while it was exchanged.
TimerStopped ==
  pc = "done" /\ ~termed /\ ~lost =>
    \A t \in Timers : timers[t].at \in {"forked", "sleep"} => timers[t].dying

\* The variables have their types, and no timer is left as above.
TimersConsistent == TypeOK /\ TimerStopped

\* Nobody else has sent SIGTERM, whose trap forgets the timer, and no trap was run
\* while the timer was exchanged; or no signal has come from outside at all.
Calm == (~termed /\ ~lost) \/ sent = 0

\* The timer of an earlier run, or of an earlier tst_set_timeout, never sends its
\* SIGTERM into a later one: only the timer that was started last does, and each
\* run gets its time.  So it is while nobody else sends SIGTERM (between two runs
\* that trap forgets the timer and lets the test go on, with the old timer still
\* asleep) and no signal comes during the exchange.  SIGKILL is another matter: a
\* timer that fires between two runs, where TBROK is no more than a warning, goes
\* on to kill the next.
FullTime ==
  [][\A t \in Timers :
       Calm /\ timers[t].at = "sleep" /\ timers'[t].at = "poll" =>
         \A u \in Started : u <= t]_vars

\* A test with a timeout, in a process group of its own, ends although its
\* commands hang or ignore SIGTERM; not if a signal reaches it while the timer
\* is exchanged: then its cleanup runs, or the shell looks for the new timer in
\* /proc, with none that would end it.
Terminates == scene.timed /\ scene.leader ~> pc \in End \/ lost
=============================================================================
