-------------------------- MODULE ShellTestProofs ---------------------------
(* What the shell library guarantees for every test, with any number of       *)
(* signals, failing commands, timers and polls of a timer.                    *)
EXTENDS ShellTest, TLAPS

\* From the end of cleanup on, in _tst_do_exit().
Leaving == {"x_umount", "x_release", "x_rmdir", "x_ipc", "x_timer", "x_wait", "x_code",
            "summary", "done"}
\* Where TST_DO_EXIT may be set.
Exiting == Leaving \cup {"exit", "do_cleanup", "cleanup", "killed"}

-----------------------------------------------------------------------------
(* cleanup is called once, and it is called.                                *)

\* TST_DO_CLEANUP is set only for a test that has begun, and (but for a late
\* signal) as long as it has to be cleaned up after.
CleanInv ==
  /\ do_cleanup => dirty
  /\ do_exit => pc \in Exiting
  /\ pc \in Leaving => ~do_cleanup
  /\ scene.cleanup /\ dirty /\ ~late => do_cleanup /\ pc # "cleanup"
  /\ do_cleanup \in BOOLEAN /\ do_exit \in BOOLEAN /\ dirty \in BOOLEAN /\ late \in BOOLEAN
  /\ back \in {"begin", "setup", "test"}

\* No function of the test has been called when tst_run() begins.
LEMMA CleanInit == Init => CleanInv
BY Zenon DEF Init, CleanInv

\* Every command of the library, the test and a trap keeps the flags so.
LEMMA CleanStep == CleanInv /\ [Next]_vars => CleanInv'
<1> SUFFICES ASSUME CleanInv, [Next]_vars PROVE CleanInv'
  OBVIOUS
<1> USE DEF At, Leaving, Exiting, flags, hist, count
<1>1. CASE Checks \/ Mktemp \/ Acquire \/ Unsupported \/ InitCheckpoints \/ Mkfs \/ Mount
  <2>1. CASE Checks
    BY Zenon, <2>1 DEF Checks, Brk, Warns, Goto, CleanInv
  <2>2. CASE Mktemp
    BY Zenon, <2>2 DEF Mktemp, Brk, Warns, Goto, CleanInv
  <2>3. CASE Acquire
    BY Zenon, <2>3 DEF Acquire, Brk, Warns, Goto, CleanInv
  <2>4. CASE Unsupported
    BY Zenon, <2>4 DEF Unsupported, Brk, Warns, Goto, CleanInv
  <2>5. CASE InitCheckpoints
    BY Zenon, <2>5 DEF InitCheckpoints, Brk, Warns, Goto, CleanInv
  <2>6. CASE Mkfs
    BY Zenon, <2>6 DEF Mkfs, Brk, Warns, Goto, CleanInv
  <2>7. CASE Mount
    BY Zenon, <2>7 DEF Mount, Brk, Warns, Goto, CleanInv
  <2>8. QED
    BY Zenon, <1>1, <2>1, <2>2, <2>3, <2>4, <2>5, <2>6, <2>7
<1>2. CASE NextRun \/ Iterations \/ RunTest \/ BeginSetup
  <2>1. CASE NextRun
    BY Zenon, <2>1 DEF NextRun, CleanInv
  <2>2. CASE Iterations
    BY Zenon, <2>2 DEF Iterations, CleanInv
  <2>3. CASE RunTest
    BY Zenon, <2>3 DEF RunTest, CleanInv
  <2>4. CASE BeginSetup
    BY Zenon, <2>4 DEF BeginSetup, CleanInv
  <2>5. QED
    BY Zenon, <1>2, <2>1, <2>2, <2>3, <2>4
<1>3. ASSUME NEW s, NEW n, Skip(s, n), n # "cleanup",
             n \in Leaving => s \in Leaving, s \in Exiting => n \in Exiting
      PROVE CleanInv'
  BY Zenon, <1>3 DEF Skip, CleanInv
<1>4. CASE OldTimer \/ OldWait \/ NewTimer \/ Settle
  BY <1>4 DEF OldTimer, OldWait, NewTimer, Settle, CleanInv
<1>5. CASE DoCleanup \/ CleanupReturns \/ Exit
  <2>1. CASE DoCleanup
    BY Zenon, <2>1 DEF DoCleanup, AfterCleanup, CleanInv
  <2>2. CASE CleanupReturns
    BY Zenon, <2>2 DEF CleanupReturns, AfterCleanup, CleanInv
  <2>3. CASE Exit
    BY Zenon, <2>3 DEF Exit, CleanInv
  <2>4. QED
    BY Zenon, <1>5, <2>1, <2>2, <2>3
<1>6. CASE Umount("umount", "runs") \/ Umount("x_umount", "x_release")
  BY <1>6 DEF Umount, CleanInv
<1>7. CASE Release \/ Rmdir \/ RmIpc \/ CleanupTimer \/ Wait \/ ExitCode \/ Summary
  BY <1>7 DEF Release, Rmdir, RmIpc, CleanupTimer, Wait, ExitCode, Summary, CleanInv
<1>8. ASSUME NEW s \in {"INT", "TERM"}, Trap(s) PROVE CleanInv'
  BY Zenon, <1>8 DEF Trap, Resumed, End, Brk, Warns, CleanInv
<1>9. ASSUME NEW t, Report(t) \/ TestBrk(t) PROVE CleanInv'
  <2>1. CASE Report(t)
    BY Zenon, <2>1 DEF Report, CleanInv
  <2>2. CASE TestBrk(t)
    BY Zenon, <2>2 DEF TestBrk, User, Brk, Warns, CleanInv
  <2>3. QED
    BY Zenon, <1>9, <2>1, <2>2
<1>10. CASE SetTimeout \/ Hang \/ SetupReturns
  BY <1>10 DEF SetTimeout, Hang, SetupReturns, CleanInv
<1>11. CASE TestReturns
  BY Zenon, <1>11 DEF TestReturns, Goto, Brk, Warns, CleanInv
<1>12. ASSUME NEW t \in Timers, Timer(t) PROVE CleanInv'
  BY <1>12 DEF Timer, TimerStarts, TimerExpires, TimerPolls, TimerKills, TimerDies, CleanInv
<1>13. ASSUME NEW s, Signal(s) PROVE CleanInv'
  BY Zenon, <1>13 DEF Signal, CleanInv
<1>14. CASE UNCHANGED vars
  BY Zenon, <1>14 DEF vars, CleanInv
<1>15. QED
  BY Zenon, <1>1, <1>2, <1>3, <1>4, <1>5, <1>6, <1>7, <1>8, <1>9, <1>10, <1>11, <1>12, <1>13,
     <1>14
    DEF Next, Library, Test

-----------------------------------------------------------------------------
(* The timers.                                                              *)

States == [at : {"none", "forked", "sleep", "poll", "gone"}, left : 0..MaxPolls, dying : BOOLEAN]

Asleep(t) == timers[t].at \in {"forked", "sleep"}

\* Where the steps of the timer's exchange and of its end can be seen.
Marks == {"oldwait", "newtimer", "x_wait", "x_code", "summary", "done"}

\* At most the current timer sleeps.  None does when its SIGTERM is to be
\* handled or another is about to be started, and after the test's end only one
\* that is dying.
TimerInv ==
  /\ timers \in [Timers -> States] /\ timer \in Timers \cup {0} /\ sent \in Nat
  /\ termed \in BOOLEAN /\ lost \in BOOLEAN
  /\ termed \/ "INT" \in pend => sent # 0
  /\ pc \in Waits => timer # 0
  /\ pc = "x_wait" => timers[timer].dying \/ timers[timer].at = "gone"
  /\ Calm => \A t \in Timers : Asleep(t) => t = timer /\ "TERM" \notin pend /\ pc # "newtimer"
  /\ Calm /\ pc \in {"x_code", "summary", "done"} =>
       \A t \in Timers : Asleep(t) => timers[t].dying
  /\ timer # 0 => timer \in Started /\ \A t \in Started : t <= timer
  /\ \A t \in Timers : timers[t].dying => t \in Started
  /\ \A t \in Started : \A u \in Timers : u < t => u \in Started

\* There is no timer when tst_run() begins.
LEMMA TimerInit == Init => TimerInv
<1> SUFFICES ASSUME Init PROVE TimerInv
  OBVIOUS
<1>1. timers \in [Timers -> States]
  BY ShellAssumption DEF Init, States
<1>2. \A t \in Timers : ~Asleep(t) /\ t \notin Started /\ ~timers[t].dying
  BY Zenon DEF Init, Asleep, Started
<1>3. QED
  BY Zenon, <1>1, <1>2 DEF Init, TimerInv, Started, Waits

\* A step that leaves the timers and the signals alone.
LEMMA TimerFrame ==
  ASSUME TimerInv, UNCHANGED <<timer, timers, pend, sent, termed, lost>>,
         \/ pc' \notin Marks \/ pc' = pc
         \/ pc \in {"x_code", "summary"} /\ pc' \in {"summary", "done"}
  PROVE  TimerInv'
BY Zenon DEF TimerInv, Marks, Calm, Asleep, Started, Waits

\* kill -TERM of the timer only makes it die.
LEMMA KillTimerFacts ==
  ASSUME TimerInv, KillTimer
  PROVE  /\ timers' \in [Timers -> States]
         /\ \A t \in Timers : timers'[t].at = timers[t].at
         /\ \A t \in Timers : timers[t].dying => timers'[t].dying
         /\ \A t \in Timers : timers'[t].dying => t = timer \/ timers[t].dying
         /\ timer # 0 => timers'[timer].dying \/ timers'[timer].at = "gone"
BY ZenonT(60) DEF TimerInv, KillTimer, States

\* The exchange of a timer, its end, the traps and the timers themselves keep it.
LEMMA TimerStep == CleanInv /\ TimerInv /\ [Next]_vars => TimerInv'
<1> SUFFICES ASSUME CleanInv, TimerInv, [Next]_vars PROVE TimerInv'
  OBVIOUS
<1> USE DEF At, async, hist, Marks
<1>1. CASE Checks \/ Mktemp \/ Acquire \/ Unsupported \/ InitCheckpoints \/ Mkfs \/ Mount
  <2>1. UNCHANGED <<timer, timers, pend, sent, termed, lost>> /\ pc' \notin Marks
    BY Zenon, <1>1
      DEF Checks, Mktemp, Acquire, Unsupported, InitCheckpoints, Mkfs, Mount, Brk, Goto
  <2>2. QED
    BY Zenon, <2>1, TimerFrame
<1>2. CASE NextRun \/ Iterations \/ RunTest \/ BeginSetup \/ DoCleanup \/ CleanupReturns \/ Exit
  <2>1. UNCHANGED <<timer, timers, pend, sent, termed, lost>> /\ pc' \notin Marks
    BY Zenon, <1>2
      DEF NextRun, Iterations, RunTest, BeginSetup, DoCleanup, CleanupReturns, Exit,
          AfterCleanup
  <2>2. QED
    BY Zenon, <2>1, TimerFrame
<1>3. ASSUME NEW s, NEW n, Skip(s, n), n \notin Marks PROVE TimerInv'
  BY Zenon, <1>3, TimerFrame DEF Skip
<1>4. CASE Umount("umount", "runs") \/ Umount("x_umount", "x_release")
  <2>1. UNCHANGED <<timer, timers, pend, sent, termed, lost>> /\ pc' \notin Marks
    BY Zenon, <1>4 DEF Umount
  <2>2. QED
    BY Zenon, <2>1, TimerFrame
<1>5. CASE Release \/ Rmdir \/ RmIpc
  <2>1. UNCHANGED <<timer, timers, pend, sent, termed, lost>> /\ pc' \notin Marks
    BY Zenon, <1>5 DEF Release, Rmdir, RmIpc
  <2>2. QED
    BY Zenon, <2>1, TimerFrame
<1>6. CASE ExitCode \/ Summary
  BY Zenon, <1>6, TimerFrame DEF ExitCode, Summary
<1>7. CASE SetTimeout \/ Hang \/ SetupReturns \/ TestReturns
  <2>1. UNCHANGED <<timer, timers, pend, sent, termed, lost>> /\ pc' \notin Marks
    BY Zenon, <1>7 DEF SetTimeout, Hang, SetupReturns, TestReturns, Goto, Brk, User
  <2>2. QED
    BY Zenon, <2>1, TimerFrame
<1>8. ASSUME NEW t, Report(t) \/ TestBrk(t) PROVE TimerInv'
  <2>1. UNCHANGED <<timer, timers, pend, sent, termed, lost>> /\ pc' \notin Marks
    BY Zenon, <1>8 DEF Report, TestBrk, Brk, User
  <2>2. QED
    BY Zenon, <2>1, TimerFrame
<1>9. CASE UNCHANGED vars
  BY Zenon, <1>9, TimerFrame DEF vars
<1> USE ShellAssumption DEF TimerInv, States, Asleep, Calm, Started, Waits
<1>10. CASE OldTimer
  <2>1. CASE UNCHANGED timers
    BY ZenonT(60), <1>10, <2>1, KillTimerFacts DEF OldTimer, CleanInv
  <2>2. CASE KillTimer /\ pc' = "oldwait"
    <3>1. UNCHANGED <<timer, pend, sent, termed, lost>> /\ timer # 0
      BY Zenon, <1>10, <2>2 DEF OldTimer, CleanInv
    <3>2. QED
      BY Zenon, <2>2, <3>1, KillTimerFacts
  <2>3. QED
    BY Zenon, <1>10, <2>1, <2>2 DEF OldTimer
<1>11. CASE OldWait \/ Wait
  BY <1>11 DEF OldWait, Wait
<1>12. CASE NewTimer
  BY <1>12 DEF NewTimer
<1>13. CASE Settle
  BY Zenon, <1>13 DEF Settle, CleanInv
<1>14. CASE CleanupTimer
  <2>1. CASE timer = 0
    BY Zenon, <1>14, <2>1 DEF CleanupTimer
  <2>2. CASE timer # 0
    BY ZenonT(60), <1>14, <2>2, KillTimerFacts DEF CleanupTimer
  <2>3. QED
    BY Zenon, <2>1, <2>2
<1>15. ASSUME NEW s \in {"INT", "TERM"}, Trap(s) PROVE TimerInv'
  BY Zenon, <1>15 DEF Trap, TrapTimer, Resumed, Brk, End
<1>16. ASSUME NEW s \in {"INT", "TERM"}, Signal(s) PROVE TimerInv'
  <2>1. timers' \in [Timers -> States]
    <3>1. \A r \in States : [r EXCEPT !.dying = TRUE] \in States
      BY Zenon
    <3>2. QED
      BY Zenon, <1>16, <3>1 DEF Signal
  <2>2. \A t \in Timers : /\ timers'[t].at = timers[t].at
                          /\ timers[t].dying => timers'[t].dying
                          /\ timers'[t].dying => timers[t].dying \/ timers[t].at = "forked"
    BY Zenon, <1>16 DEF Signal
  <2>3. /\ UNCHANGED <<pc, timer, lost>> /\ sent' = sent + 1 /\ pend' = pend \cup {s}
        /\ termed' = (termed \/ s = "TERM")
    BY Zenon, <1>16 DEF Signal, Hit
  <2>4. Started' = Started /\ \A t \in Timers : Asleep(t)' = Asleep(t)
    BY ZenonT(60), <2>2
  <2>5. sent' \in Nat /\ sent' # 0
    BY <2>3
  <2>6. termed' \in BOOLEAN /\ (Calm' => Calm /\ s = "INT")
    BY Zenon, <2>3, <2>5
  <2>7. QED
    BY Zenon, <2>1, <2>2, <2>3, <2>4, <2>5, <2>6
<1>17. ASSUME NEW t \in Timers, Timer(t) PROVE TimerInv'
  <2>1. CASE TimerStarts(t)
    BY <2>1 DEF TimerStarts
  <2>2. CASE TimerExpires(t)
    BY <2>2 DEF TimerExpires, Hit
  <2>3. CASE TimerPolls(t)
    BY <2>3 DEF TimerPolls
  <2>4. CASE TimerKills(t)
    BY <2>4 DEF TimerKills
  <2>5. CASE TimerDies(t)
    BY <2>5 DEF TimerDies
  <2>6. QED
    BY Zenon, <1>17, <2>1, <2>2, <2>3, <2>4, <2>5 DEF Timer
<1>18. QED
  BY ZenonT(60), <1>1, <1>2, <1>3, <1>4, <1>5, <1>6, <1>7, <1>8, <1>9, <1>10, <1>11, <1>12,
     <1>13, <1>14, <1>15, <1>16, <1>17
    DEF Next, Library, Test
-----------------------------------------------------------------------------
(* The exit status.                                                         *)

\* The exit status will not be 0, once the pending traps have been run.
Marked == pend # {} \/ res \cap {"TBROK", "TWARN"} # {}

\* Before the filesystem is mounted, and after it and the device are given back.
Unmounted == {"start", "mktemp", "acquire", "checkpoints", "runs", "mkfs", "mount"}
Released == {"x_rmdir", "x_ipc", "x_timer", "x_wait", "x_code"}

\* Whatever the status has to tell is marked, or a later step of _tst_do_exit()
\* deals with it.
TellInv ==
  /\ mount_flag \in BOOLEAN /\ device_flag \in BOOLEAN
  /\ pc \in Unmounted => ~mount_flag
  /\ pc # "killed" =>
       /\ timedout \/ termed \/ lost => Marked
       /\ "dev" \in held => Marked \/ (device_flag /\ pc \notin Released)
       /\ "mount" \in held => Marked \/ (mount_flag /\ pc \notin Released \cup {"x_release"})
       /\ pc = "x_code" => Marked \/ \A t \in Timers : ~Asleep(t)
       /\ pc \in {"summary", "done"} =>
            code # {} \/ (/\ ~timedout /\ held \cap {"dev", "mount"} = {}
                          /\ \A t \in Timers : ~Asleep(t))

\* Nothing is held when tst_run() begins.
LEMMA TellInit == Init => TellInv
<1> SUFFICES ASSUME Init PROVE TellInv
  OBVIOUS
<1>1. /\ pc = "start" /\ held = {} /\ ~mount_flag /\ ~timedout /\ ~termed /\ ~lost
      /\ mount_flag \in BOOLEAN /\ device_flag \in BOOLEAN
  BY Zenon DEF Init
<1>2. QED
  BY Zenon, <1>1 DEF TellInv

\* A command that fails, a trap and a timer that fires leave a mark.
LEMMA TellStep == CleanInv /\ TimerInv /\ TellInv /\ [Next]_vars => TellInv'
<1> SUFFICES ASSUME CleanInv, TimerInv, TellInv, [Next]_vars PROVE TellInv'
  OBVIOUS
<1> USE DEF At, async, hist, rsc, result, Unmounted, Released, Marked, TellInv
<1>1. CASE Checks
  BY Zenon, <1>1 DEF Checks, Brk, Goto
<1>2. CASE Mktemp
  BY Zenon, <1>2 DEF Mktemp, Brk, Goto
<1>3. CASE Acquire
  BY Zenon, <1>3 DEF Acquire, Brk, Goto
<1>4. CASE Unsupported
  BY Zenon, <1>4 DEF Unsupported, Brk, Goto
<1>5. CASE InitCheckpoints
  BY Zenon, <1>5 DEF InitCheckpoints, Brk, Goto
<1>6. CASE NextRun
  BY Zenon, <1>6 DEF NextRun
<1>7. CASE Mkfs
  BY Zenon, <1>7 DEF Mkfs, Brk, Goto
<1>8. CASE Mount
  BY Zenon, <1>8 DEF Mount, Brk, Goto, Usable
<1>9. CASE OldTimer
  BY Zenon, <1>9 DEF OldTimer, CleanInv
<1>10. CASE OldWait
  BY Zenon, <1>10 DEF OldWait
<1>11. CASE NewTimer
  BY Zenon, <1>11 DEF NewTimer
<1>12. CASE Settle
  BY Zenon, <1>12 DEF Settle, CleanInv
<1>13. CASE BeginSetup
  BY Zenon, <1>13 DEF BeginSetup
<1>14. CASE Iterations
  BY Zenon, <1>14 DEF Iterations
<1>15. CASE RunTest
  BY Zenon, <1>15 DEF RunTest
<1>16. CASE DoCleanup
  BY Zenon, <1>16 DEF DoCleanup, AfterCleanup
<1>17. CASE CleanupReturns
  BY Zenon, <1>17 DEF CleanupReturns, AfterCleanup
<1>18. CASE Exit
  BY Zenon, <1>18 DEF Exit
<1>19. CASE Release
  BY Zenon, <1>19 DEF Release, Needed
<1>20. CASE Rmdir
  BY Zenon, <1>20 DEF Rmdir
<1>21. CASE RmIpc
  BY Zenon, <1>21 DEF RmIpc
<1>22. CASE CleanupTimer
  <2>1. CASE timer = 0
    <3>1. Calm => \A t \in Timers : ~Asleep(t)
      BY Zenon, <2>1, ShellAssumption DEF TimerInv
    <3>2. \A t \in Timers : Asleep(t)' = Asleep(t)
      BY Zenon, <1>22, <2>1 DEF CleanupTimer, Asleep
    <3>3. QED
      BY Zenon, <1>22, <2>1, <3>1, <3>2 DEF CleanupTimer, Calm, TimerInv
  <2>2. CASE timer # 0
    BY Zenon, <1>22, <2>2 DEF CleanupTimer
  <2>3. QED
    BY Zenon, <2>1, <2>2
<1>23. CASE Wait
  BY Zenon, <1>23 DEF Wait, TimerInv, Calm, Asleep, Waits
<1>24. CASE ExitCode
  <2>1. Marked => code' # {}
    BY Zenon, <1>24 DEF ExitCode
  <2>2. UNCHANGED <<timers, res, pend, held, timedout, termed, lost, mount_flag, device_flag>>
        /\ pc = "x_code" /\ pc' = "summary"
    BY Zenon, <1>24 DEF ExitCode
  <2>3. QED
    BY Zenon, <2>1, <2>2 DEF Asleep
<1>25. CASE Summary
  BY Zenon, <1>25 DEF Summary, Asleep
<1>26. CASE SetTimeout
  BY Zenon, <1>26 DEF SetTimeout
<1>27. CASE Hang
  BY Zenon, <1>27 DEF Hang, Asleep, User
<1>28. CASE SetupReturns
  BY Zenon, <1>28 DEF SetupReturns
<1>29. CASE TestReturns
  BY ZenonT(60), <1>29 DEF TestReturns, Goto, Brk
<1>30. CASE \/ Skip("mktemp", "acquire") \/ Skip("acquire", "checkpoints")
            \/ Skip("checkpoints", "runs") \/ Skip("mkfs", "mount") \/ Skip("mount", "oldtimer")
            \/ Skip("umount", "runs")
  BY <1>30 DEF Skip, Needed
<1>31. CASE \/ Skip("x_umount", "x_release") \/ Skip("x_release", "x_rmdir")
            \/ Skip("x_rmdir", "x_ipc") \/ Skip("x_ipc", "x_timer")
  BY <1>31 DEF Skip, Needed
<1>32. CASE Umount("umount", "runs")
  <2>1. /\ pc = "umount" /\ pend' = pend
        /\ UNCHANGED <<device_flag, timers, timedout, termed, lost>>
    BY Zenon, <1>32 DEF Umount
  <2>2. \/ UNCHANGED <<pc, held, mount_flag, res>>
        \/ /\ pc' = "runs" /\ mount_flag' = FALSE
           /\ \/ held' = held \ {"mount"} /\ res' = res
              \/ held' = held /\ res' = res \cup {"TWARN"}
    BY Zenon, <1>32 DEF Umount
  <2>3. QED
    BY Zenon, <2>1, <2>2
<1>33. CASE Umount("x_umount", "x_release")
  <2>1. /\ pc = "x_umount" /\ pend' = pend
        /\ UNCHANGED <<device_flag, timers, timedout, termed, lost>>
    BY Zenon, <1>33 DEF Umount
  <2>2. \/ UNCHANGED <<pc, held, mount_flag, res>>
        \/ /\ pc' = "x_release" /\ mount_flag' = TRUE
           /\ \/ held' = held \ {"mount"} /\ res' = res
              \/ held' = held /\ res' = res \cup {"TWARN"}
    BY Zenon, <1>33 DEF Umount
  <2>3. QED
    BY Zenon, <2>1, <2>2
<1>34. ASSUME NEW s \in {"INT", "TERM"}, Trap(s) PROVE TellInv'
  BY Zenon, <1>34 DEF Trap, Resumed, Brk, Asleep, End
<1>35. ASSUME NEW t, Report(t) PROVE TellInv'
  BY Zenon, <1>35 DEF Report, Asleep, User
<1>36. ASSUME NEW t \in {"TBROK", "TCONF"}, TestBrk(t) PROVE TellInv'
  BY Zenon, <1>36 DEF TestBrk, Brk, User
<1>37. ASSUME NEW s \in {"INT", "TERM"}, Signal(s) PROVE TellInv'
  BY Zenon, <1>37 DEF Signal, Hit, Asleep, TimerInv, States
<1>38. ASSUME NEW t \in Timers, Timer(t) PROVE TellInv'
  <2> USE DEF Asleep, TimerInv, States
  <2>1. CASE TimerStarts(t)
    BY Zenon, <2>1 DEF TimerStarts
  <2>2. CASE TimerExpires(t)
    BY Zenon, <2>2 DEF TimerExpires, Hit
  <2>3. CASE TimerPolls(t)
    BY <2>3 DEF TimerPolls
  <2>4. CASE TimerKills(t)
    BY Zenon, <2>4 DEF TimerKills
  <2>5. CASE TimerDies(t)
    BY Zenon, <2>5 DEF TimerDies
  <2>6. QED
    BY Zenon, <1>38, <2>1, <2>2, <2>3, <2>4, <2>5 DEF Timer
<1>39. CASE UNCHANGED vars
  BY Zenon, <1>39 DEF vars, Asleep
<1>40. QED
  BY ZenonT(60), <1>1, <1>2, <1>3, <1>4, <1>5, <1>6, <1>7, <1>8, <1>9, <1>10, <1>11, <1>12,
     <1>13, <1>14, <1>15, <1>16, <1>17, <1>18, <1>19, <1>20, <1>21, <1>22, <1>23, <1>24, <1>25,
     <1>26, <1>27, <1>28, <1>29, <1>30, <1>31, <1>32, <1>33, <1>34, <1>35, <1>36, <1>37, <1>38,
     <1>39
    DEF Next, Library, Test
-----------------------------------------------------------------------------
(* The types.                                                               *)

Places == User \cup Acquires \cup Releases \cup Waits \cup End \cup
            {"start", "runs", "oldtimer", "newtimer", "settle", "begin", "iterations",
             "tests", "do_cleanup", "exit", "x_timer", "x_code", "summary"}

CountInv ==
  /\ scene \in Scenes
  /\ runs \in 0..scene.runs /\ i \in 0..scene.iterations /\ j \in 0..scene.tcnt
  /\ sent \in 0..scene.sent /\ faults \in 0..scene.faults

ValueInv ==
  /\ pc \in Places
  /\ mount_flag \in BOOLEAN /\ device_flag \in BOOLEAN /\ moved \in BOOLEAN /\ hurt \in BOOLEAN
  /\ deaf \in BOOLEAN /\ timedout \in BOOLEAN
  /\ held \subseteq Resources /\ owned \subseteq {"tmpdir", "dev"}
  /\ res \subseteq Types /\ code \subseteq Types /\ pend \subseteq {"INT", "TERM"}

TypeInv == CountInv /\ ValueInv

\* What a step does to the counters: nothing, a new start, one less, one more.
Counts ==
  /\ scene' = scene
  /\ runs' = runs \/ (runs > 0 /\ runs' = runs - 1)
  /\ i' = i \/ i' = scene.iterations \/ (i > 0 /\ i' = i - 1)
  /\ j' = j \/ j' = scene.tcnt \/ (j > 0 /\ j' = j - 1)
  /\ sent' = sent \/ (sent < scene.sent /\ sent' = sent + 1)
  /\ faults' = faults \/ (faults < scene.faults /\ faults' = faults + 1)

\* The counters stay within what the test asks for.
LEMMA CountStep == CountInv /\ Counts => CountInv'
<1> SUFFICES ASSUME CountInv, Counts PROVE CountInv'
  OBVIOUS
<1>1. /\ scene.runs \in Nat /\ scene.iterations \in Nat /\ scene.tcnt \in Nat
      /\ scene.sent \in Nat /\ scene.faults \in Nat
  BY Zenon, ShellAssumption DEF CountInv
<1>2. QED
  BY <1>1 DEF CountInv, Counts

\* The variables have their types when tst_run() begins.
LEMMA TypeInit == Init => TypeInv
<1> SUFFICES ASSUME Init PROVE TypeInv
  OBVIOUS
<1>1. /\ scene \in Scenes /\ scene.runs \in Nat /\ scene.iterations \in Nat
      /\ scene.tcnt \in Nat /\ scene.sent \in Nat /\ scene.faults \in Nat
  BY Zenon, ShellAssumption DEF Init
<1>2. CountInv
  BY <1>1 DEF Init, CountInv
<1>3. ValueInv
  BY Zenon DEF Init, ValueInv, Places
<1>4. QED
  BY Zenon, <1>2, <1>3 DEF TypeInv

\* Every step keeps the types.
LEMMA TypeStep == CleanInv /\ TypeInv /\ [Next]_vars => TypeInv'
<1> SUFFICES ASSUME CleanInv, TypeInv, [Next]_vars PROVE Counts /\ ValueInv'
  BY Zenon, CountStep DEF TypeInv
<1>0. ValueInv /\ back \in {"begin", "setup", "test"} /\ scene \in Scenes
  BY Zenon DEF TypeInv, CleanInv, CountInv
<1>a. ASSUME NEW t \in {"TBROK", "TCONF"}, NEW n \in Places, Brk(t, n)
      PROVE  pc' \in Places /\ res' \subseteq Types
  BY Zenon, <1>0, <1>a DEF ValueInv, Brk, Places, Types
<1>b. ASSUME NEW s \in {"INT", "TERM"}, Hit(s)
      PROVE  pend' \subseteq {"INT", "TERM"} /\ hurt' \in BOOLEAN /\ held' \subseteq Resources
  BY Zenon, <1>0, <1>b DEF ValueInv, Hit, Resources
<1> USE DEF At, count, flags, rsc, result, async, hist, Counts, Places, User, Acquires, Releases,
            Waits, End, Types, Resources
<1>1. CASE Checks
  <2>1. pc' \in Places /\ res' \subseteq Types
    BY Zenon, <1>0, <1>1, <1>a DEF ValueInv, Checks, Goto
  <2>2. hurt' = hurt
    BY Zenon, <1>1 DEF Checks, Succeeds, Faulty
  <2>3. Counts
    BY Zenon, <1>1 DEF Checks, Succeeds, Faulty
  <2>4. QED
    BY Zenon, <1>0, <1>1, <2>1, <2>2, <2>3 DEF ValueInv, Checks
<1>2. CASE Mktemp
  BY Zenon, <1>0, <1>2 DEF ValueInv, Mktemp, Goto, Succeeds, Fails, Faulty
<1>3. CASE Acquire
  BY Zenon, <1>0, <1>3 DEF ValueInv, Acquire, Goto, Brk, Succeeds, Fails, Faulty
<1>4. CASE Unsupported
  BY Zenon, <1>0, <1>4 DEF ValueInv, Unsupported, Brk, Faulty
<1>5. CASE InitCheckpoints
  BY Zenon, <1>0, <1>5 DEF ValueInv, InitCheckpoints, Goto, Brk, Succeeds, Fails, Faulty
<1>6. CASE NextRun
  BY Zenon, <1>0, <1>6 DEF ValueInv, NextRun
<1>7. CASE Mkfs
  <2>1. pc' \in Places /\ res' \subseteq Types
    BY Zenon, <1>0, <1>7, <1>a DEF ValueInv, Mkfs, Goto
  <2>2. hurt' \in BOOLEAN
    BY Zenon, <1>0, <1>7 DEF ValueInv, Mkfs, Succeeds, Fails, Faulty
  <2>3. Counts
    BY Zenon, <1>7 DEF Mkfs, Succeeds, Fails, Faulty
  <2>4. QED
    BY Zenon, <1>0, <1>7, <2>1, <2>2, <2>3 DEF ValueInv, Mkfs
<1>8. CASE Mount
  <2>1. pc' \in Places /\ res' \subseteq Types
    BY Zenon, <1>0, <1>8, <1>a DEF ValueInv, Mount, Goto
  <2>2. hurt' \in BOOLEAN
    BY Zenon, <1>0, <1>8 DEF ValueInv, Mount, Succeeds, Fails, Faulty
  <2>3. Counts
    BY Zenon, <1>8 DEF Mount, Succeeds, Fails, Faulty
  <2>4. held' \subseteq Resources /\ mount_flag' \in BOOLEAN
    BY Zenon, <1>0, <1>8 DEF ValueInv, Mount
  <2>5. QED
    BY Zenon, <1>0, <1>8, <2>1, <2>2, <2>3, <2>4 DEF ValueInv, Mount
<1>9. CASE OldTimer
  BY Zenon, <1>0, <1>9 DEF ValueInv, OldTimer
<1>10. CASE OldWait
  BY Zenon, <1>0, <1>10 DEF ValueInv, OldWait
<1>11. CASE NewTimer
  BY Zenon, <1>0, <1>11 DEF ValueInv, NewTimer
<1>12. CASE Settle
  BY Zenon, <1>0, <1>12 DEF ValueInv, Settle
<1>13. CASE BeginSetup
  BY Zenon, <1>0, <1>13 DEF ValueInv, BeginSetup
<1>14. CASE Iterations
  BY Zenon, <1>0, <1>14 DEF ValueInv, Iterations
<1>15. CASE RunTest
  BY Zenon, <1>0, <1>15 DEF ValueInv, RunTest
<1>16. CASE DoCleanup
  BY Zenon, <1>0, <1>16 DEF ValueInv, DoCleanup, AfterCleanup
<1>17. CASE CleanupReturns
  BY Zenon, <1>0, <1>17 DEF ValueInv, CleanupReturns, AfterCleanup
<1>18. CASE Exit
  BY Zenon, <1>0, <1>18 DEF ValueInv, Exit
<1>19. CASE Release
  BY Zenon, <1>0, <1>19 DEF ValueInv, Release, Succeeds, Fails, Faulty
<1>20. CASE Rmdir
  BY Zenon, <1>0, <1>20 DEF ValueInv, Rmdir, Succeeds, Fails, Faulty
<1>21. CASE RmIpc
  BY Zenon, <1>0, <1>21 DEF ValueInv, RmIpc, Succeeds, Fails, Faulty
<1>22. CASE CleanupTimer
  BY Zenon, <1>0, <1>22 DEF ValueInv, CleanupTimer
<1>23. CASE Wait
  BY Zenon, <1>0, <1>23 DEF ValueInv, Wait
<1>24. CASE ExitCode
  BY Zenon, <1>0, <1>24 DEF ValueInv, ExitCode
<1>25. CASE Summary
  BY Zenon, <1>0, <1>25 DEF ValueInv, Summary
<1>26. CASE SetTimeout
  BY Zenon, <1>0, <1>26 DEF ValueInv, SetTimeout
<1>27. CASE Hang
  BY Zenon, <1>0, <1>27 DEF ValueInv, Hang
<1>28. CASE SetupReturns
  BY Zenon, <1>0, <1>28 DEF ValueInv, SetupReturns
<1>29. CASE TestReturns
  BY Zenon, <1>0, <1>29 DEF ValueInv, TestReturns, Goto, Brk
<1>30. ASSUME NEW s, NEW n \in Places, Skip(s, n) PROVE Counts /\ ValueInv'
  BY ZenonT(60), <1>0, <1>30 DEF ValueInv, Skip
<1>31. CASE Umount("umount", "runs")
  BY Zenon, <1>0, <1>31 DEF ValueInv, Umount, Succeeds, Faulty
<1>32. CASE Umount("x_umount", "x_release")
  BY Zenon, <1>0, <1>32 DEF ValueInv, Umount, Succeeds, Faulty
<1>33. ASSUME NEW s \in {"INT", "TERM"}, Trap(s) PROVE Counts /\ ValueInv'
  BY ZenonT(60), <1>0, <1>33 DEF ValueInv, Trap, Resumed, Brk
<1>34. ASSUME NEW t \in scene.reports, Report(t) PROVE Counts /\ ValueInv'
  <2>1. t \in Types
    BY Zenon, <1>0, ShellAssumption
  <2>2. QED
    BY Zenon, <1>0, <1>34, <2>1 DEF ValueInv, Report
<1>35. ASSUME NEW t \in {"TBROK", "TCONF"}, TestBrk(t) PROVE Counts /\ ValueInv'
  BY Zenon, <1>0, <1>35 DEF ValueInv, TestBrk, Brk
<1>36. ASSUME NEW s \in {"INT", "TERM"}, Signal(s) PROVE Counts /\ ValueInv'
  <2>1. Counts
    BY Zenon, <1>36 DEF Signal
  <2>2. pend' \subseteq {"INT", "TERM"} /\ hurt' \in BOOLEAN /\ held' \subseteq Resources
    BY Zenon, <1>36, <1>b DEF Signal
  <2>3. QED
    BY ZenonT(60), <1>0, <1>36, <2>1, <2>2 DEF ValueInv, Signal
<1>37. ASSUME NEW t \in Timers, Timer(t) PROVE Counts /\ ValueInv'
  <2>1. CASE TimerStarts(t)
    BY ZenonT(60), <1>0, <2>1 DEF ValueInv, TimerStarts
  <2>2. CASE TimerPolls(t)
    BY ZenonT(60), <1>0, <2>2 DEF ValueInv, TimerPolls
  <2>3. CASE TimerDies(t)
    BY ZenonT(60), <1>0, <2>3 DEF ValueInv, TimerDies
  <2>4. CASE TimerKills(t)
    BY Zenon, <1>0, <2>4 DEF ValueInv, TimerKills
  <2>5. CASE TimerExpires(t)
    <3>1. Counts
      BY Zenon, <2>5 DEF TimerExpires
    <3>2. pend' \subseteq {"INT", "TERM"} /\ hurt' \in BOOLEAN /\ held' \subseteq Resources
      BY Zenon, <1>0, <1>b, <2>5 DEF ValueInv, TimerExpires
    <3>3. QED
      BY ZenonT(60), <1>0, <2>5, <3>1, <3>2 DEF ValueInv, TimerExpires
  <2>6. QED
    BY Zenon, <1>37, <2>1, <2>2, <2>3, <2>4, <2>5 DEF Timer
<1>38. CASE UNCHANGED vars
  BY ZenonT(60), <1>0, <1>38 DEF ValueInv, vars
<1>39. QED
  BY ZenonT(60), <1>1, <1>2, <1>3, <1>4, <1>5, <1>6, <1>7, <1>8, <1>9, <1>10, <1>11, <1>12,
     <1>13, <1>14, <1>15, <1>16, <1>17, <1>18, <1>19, <1>20, <1>21, <1>22, <1>23, <1>24, <1>25,
     <1>26, <1>27, <1>28, <1>29, <1>30, <1>31, <1>32, <1>33, <1>34, <1>35, <1>36, <1>37, <1>38
    DEF Next, Library, Test
-----------------------------------------------------------------------------
(* The theorems.                                                            *)

Inv == CleanInv /\ TimerInv /\ TellInv /\ TypeInv

\* The four invariants hold together in every reachable state.
THEOREM Invariant == Spec => []Inv
<1>1. Init => Inv
  BY Zenon, CleanInit, TimerInit, TellInit, TypeInit DEF Inv
<1>2. Inv /\ [Next]_vars => Inv'
  BY Zenon, CleanStep, TimerStep, TellStep, TypeStep DEF Inv
<1>3. QED
  BY <1>1, <1>2, PTL DEF Spec

\* _tst_do_exit() leaves no test without its cleanup that has begun, but for a
\* signal that comes when it has itself begun.
THEOREM CleanedUpHolds == Spec => []CleanedUp
<1>1. Inv => CleanedUp
  BY Zenon DEF Inv, CleanInv, CleanedUp, Leaving
<1>2. QED
  BY <1>1, Invariant, PTL

\* _tst_do_cleanup() calls TST_CLEANUP once for what has begun.
THEOREM CleanupOnceHolds == Spec => CleanupOnce
<1>1. Inv /\ [Next]_vars => [pc' = "cleanup" /\ pc # "cleanup" => dirty]_vars
  <2> SUFFICES ASSUME Inv, Next, pc' = "cleanup", pc # "cleanup" PROVE dirty
    OBVIOUS
  <2> USE DEF At
  <2>1. DoCleanup
    <3>1. ASSUME NEW s, NEW n, Skip(s, n) PROVE pc' = n
      BY Zenon, <3>1 DEF Skip
    <3>2. ~(\/ Checks \/ Mktemp \/ Acquire \/ Unsupported \/ InitCheckpoints
            \/ NextRun \/ Mkfs \/ Mount)
      BY Zenon
        DEF Checks, Mktemp, Acquire, Unsupported, InitCheckpoints, NextRun, Mkfs, Mount, Goto,
            Brk
    <3>3. ~(OldTimer \/ OldWait \/ NewTimer \/ Settle \/ BeginSetup \/ Iterations \/ RunTest)
      BY Zenon
        DEF OldTimer, OldWait, NewTimer, Settle, BeginSetup, Iterations, RunTest, Inv, CleanInv
    <3>4. ~(Exit \/ Release \/ Rmdir \/ RmIpc \/ CleanupTimer \/ Wait \/ ExitCode \/ Summary)
      BY Zenon DEF Exit, Release, Rmdir, RmIpc, CleanupTimer, Wait, ExitCode, Summary
    <3>5. ~(Umount("umount", "runs") \/ Umount("x_umount", "x_release"))
      BY Zenon DEF Umount
    <3>6. ASSUME NEW s \in {"INT", "TERM"} PROVE ~Trap(s) /\ ~Signal(s)
      BY Zenon DEF Trap, Signal, Resumed, Brk
    <3>7. ASSUME NEW t PROVE ~Report(t) /\ ~TestBrk(t)
      BY Zenon DEF Report, TestBrk, Brk
    <3>8. ~(SetTimeout \/ Hang \/ SetupReturns \/ TestReturns \/ CleanupReturns)
      BY Zenon
        DEF SetTimeout, Hang, SetupReturns, TestReturns, CleanupReturns, Goto, Brk, AfterCleanup
    <3>9. ASSUME NEW t \in Timers PROVE ~Timer(t)
      BY Zenon DEF Timer, TimerStarts, TimerExpires, TimerPolls, TimerKills, TimerDies
    <3>10. QED
      BY Zenon, <3>1, <3>2, <3>3, <3>4, <3>5, <3>6, <3>7, <3>8, <3>9 DEF Next, Library, Test
  <2>2. QED
    BY Zenon, <2>1 DEF DoCleanup, AfterCleanup, Inv, CleanInv
<1>2. QED
  BY <1>1, Invariant, PTL DEF Spec, CleanupOnce

\* The exit status of _tst_do_exit() is not 0 for a test that timed out or left
\* a device or a mount behind.
THEOREM ExitTellsHolds == Spec => []ExitTells
<1>1. Inv => ExitTells
  BY Zenon DEF Inv, TellInv, ExitTells
<1>2. QED
  BY <1>1, Invariant, PTL

\* _tst_cleanup_timer() and the TERM trap leave no timer to fire after the exit.
THEOREM TimerStoppedHolds == Spec => []TimerStopped
<1>1. Inv => TimerStopped
  BY Zenon DEF Inv, TimerInv, Calm, Asleep, TimerStopped
<1>2. QED
  BY <1>1, Invariant, PTL

\* So it is, and every variable has its type: the counters never run past what the test
\* asks for, and the shell is always at one of the commands of tst_test.sh.
THEOREM TimersConsistentHolds == Spec => []TimersConsistent
<1>1. Inv => TypeOK
  <2> SUFFICES ASSUME Inv PROVE TypeOK
    OBVIOUS
  <2>1. CountInv /\ ValueInv /\ CleanInv /\ TimerInv
    BY Zenon DEF Inv, TypeInv
  <2>2. {do_cleanup, do_exit, mount_flag, device_flag, moved, hurt, deaf, dirty,
         timedout, termed, late, lost} \subseteq BOOLEAN
    BY Zenon, <2>1 DEF ValueInv, CleanInv, TimerInv
  <2>3. QED
    BY Zenon, <2>1, <2>2 DEF TypeOK, CountInv, ValueInv, CleanInv, TimerInv, Places, States
<1>2. QED
  BY <1>1, TimerStoppedHolds, Invariant, PTL DEF TimersConsistent

\* Only the timer that was started last sends its SIGTERM, as long as nobody else
\* sends one and no trap is run while the timer is exchanged.
THEOREM FullTimeHolds == Spec => FullTime
<1> DEFINE A == \A t \in Timers :
       Calm /\ timers[t].at = "sleep" /\ timers'[t].at = "poll" =>
         \A u \in Started : u <= t
<1>1. Inv => A
  BY Zenon, ShellAssumption DEF Inv, TimerInv, Calm, Asleep
<1>2. QED
  BY <1>1, Invariant, PTL DEF FullTime
=============================================================================
