------------------------------ MODULE TstTest -------------------------------
(***************************************************************************)
(* The test harness of lib/tst_test.c.  The library process forks, once    *)
(* per variant and filesystem, a main test process into a process group of *)
(* its own and watches it: heartbeats (SIGUSR1) re-arm its alarm, an       *)
(* expired alarm or a user's SIGINT kills the group.  The test processes   *)
(* report into a shared memory region and may fork children; tst_brk(TBROK)*)
(* in any of them sets abort_flag and takes the whole test down.           *)
(*                                                                         *)
(* The test's own code (setup, test, cleanup) is arbitrary: between two    *)
(* library calls it may report, break, fork, wait, return, crash or never  *)
(* come back.  The result counters only grow and the code only asks which  *)
(* are positive (do_exit) and which moved since they were saved            *)
(* (results_equal), so they are a set and a flag.  SIGKILL is asynchronous:*)
(* a killed process may take further steps before it dies, but the kernel  *)
(* refuses it a fork.                                                      *)
(***************************************************************************)
EXTENDS Naturals, FiniteSets

CONSTANTS
  Pid,         \* the process ids fork() can return; no id is used twice
  LibPid,      \* the library process
  InitPid,     \* pid 1, which adopts orphans
  NoPid,       \* 0, a pid variable that is not set
  Tests,       \* the struct tst_test values considered
  Runs,        \* fork_testrun() calls: variants times filesystems
  Iterations,  \* -i
  MaxCalls,    \* calls of the test function -d leaves time for (model bound)
  MaxRetries,  \* SIGKILL attempts before the library gives up, 10 in the code
  Faults       \* what may go wrong outside the library

ASSUME PidAssumption ==
  /\ IsFiniteSet(Pid)
  /\ Pid \cap {LibPid, InitPid, NoPid} = {}
  /\ LibPid # InitPid /\ LibPid # NoPid /\ InitPid # NoPid
ASSUME RunsAssumption == Runs \in Nat \ {0}
ASSUME IterationsAssumption == Iterations \in Nat /\ MaxCalls \in Nat
ASSUME RetriesAssumption == MaxRetries \in Nat
ASSUME FaultsAssumption ==
  Faults \subseteq {"crash", "stuck", "taint", "interrupt", "libkill", "nofork"}

ASSUME TestsAssumption ==
  /\ Tests \subseteq [forks_child : BOOLEAN, taint_check : BOOLEAN,
                      all_filesystems : BOOLEAN, limited : BOOLEAN,
                      tcnt : Nat \ {0}, resets : Nat]
  /\ \A t \in Tests : Iterations * t.tcnt <= MaxCalls

Ttype == {"TPASS", "TFAIL", "TBROK", "TWARN", "TCONF"}

VARIABLES
  tst_test,   \* the test's description
  lpc,        \* control point of the library process
  run,        \* which fork_testrun() call the library is at
  test_pid,   \* the main test process the library last forked
  alarm,      \* whether the library's alarm is armed
  sigkill_retries,
  code,       \* do_exit()'s argument, then the exit status: a set of flags
  context,    \* main_pid, abort_flag, overall_time > 0, mntpoint_mounted
  results,    \* the result counters that are positive
  reported,   \* a counter results_equal() compares moved since it was saved
  proc,       \* the test processes
  calls,      \* test function calls the current main process has begun
  tainted,    \* the kernel is tainted
  resets,     \* tst_set_timeout() calls so far, of tst_test.resets
  mains,      \* history: main processes that entered do_test_setup()
  cleaned,    \* history: processes that entered do_test_cleanup()
  badend,     \* history: a main process was reaped with a failure status
  orphaned    \* history: test functions begun after the library's death

lib == <<lpc, run, test_pid, alarm, sigkill_retries, code>>
shared == <<context, results, reported>>
hist == <<mains, cleaned, badend, orphaned>>
env == <<tst_test, tainted, resets>>
vars == <<lib, shared, proc, calls, hist, env>>

NoProc == [pc |-> "none", cont |-> "none", parent |-> NoPid, grp |-> NoPid,
           killed |-> FALSE]
Gone == [NoProc EXCEPT !.pc = "gone"]

\* The test's own functions, the calls of the library it goes through, and
\* "stuck": an uninterruptible sleep it does not return from.
Body == {"setup", "test"}
Running == Body \cup {"start", "hb", "beat", "presetup", "loop", "reap",
                      "brk", "cleanup", "abort", "kill", "stuck"}
Status == {"ok", "fail", "kill", "signal"}

\* cont: where the process goes after the call it is in; a dead one's status.
ProcRecord ==
  [pc : Running \cup {"none", "zombie", "gone"},
   cont : Running \cup Status \cup {"call", "exit", "none"},
   parent : Pid \cup {NoPid, InitPid, LibPid},
   grp : Pid \cup {NoPid, LibPid},
   killed : BOOLEAN]

TypeOK ==
  /\ tst_test \in Tests
  /\ lpc \in {"loop", "arm", "fork", "wait", "reaped", "judge", "next",
              "exit", "done", "dead"}
  /\ run \in 1..Runs
  /\ test_pid \in Pid \cup {NoPid}
  /\ alarm \in BOOLEAN
  /\ sigkill_retries \in 0..(MaxRetries + 1)
  /\ code \subseteq Ttype
  /\ context \in [main_pid : Pid \cup {NoPid}, abort_flag : BOOLEAN,
                  timed : BOOLEAN, mounted : BOOLEAN]
  /\ results \subseteq Ttype
  /\ reported \in BOOLEAN
  /\ proc \in [Pid -> ProcRecord]
  /\ calls \in Nat
  /\ tainted \in BOOLEAN
  /\ resets \in Nat
  /\ mains \subseteq Pid
  /\ cleaned \subseteq Pid
  /\ badend \in BOOLEAN
  /\ orphaned \in Nat

\* After do_setup(), at the head of the variant loop.
Init ==
  /\ tst_test \in Tests
  /\ lpc = "loop" /\ run = 1 /\ test_pid = NoPid
  /\ alarm = FALSE /\ sigkill_retries = 0 /\ code = {}
  /\ context = [main_pid |-> NoPid, abort_flag |-> FALSE,
                timed |-> tst_test.limited, mounted |-> FALSE]
  /\ results = {} /\ reported = FALSE
  /\ proc = [p \in Pid |-> NoProc]
  /\ calls = 0 /\ tainted = FALSE /\ resets = 0
  /\ mains = {} /\ cleaned = {} /\ badend = FALSE
  /\ orphaned = 0

-----------------------------------------------------------------------------
(* Processes and signals *)

Free == {p \in Pid : proc[p].pc = "none"}
\* The id fork() returns: ids are interchangeable, so a fixed one stands for any.
Fresh == {p \in Free : p = CHOOSE q \in Free : TRUE}
Live == {p \in Pid : proc[p].pc \in Running}
Group(g) == {p \in Live : proc[p].grp = g}
Children(p) == {q \in Pid : proc[q].parent = p}

\* SIGKILL becomes pending on the processes of S.
Kill(S) ==
  [p \in Pid |-> IF p \in S THEN [proc[p] EXCEPT !.killed = TRUE] ELSE proc[p]]

\* q after its parent's death: init adopts it, and reaps it if it is dead.
Adopted(q) ==
  IF proc[q].pc = "zombie" THEN Gone ELSE [proc[q] EXCEPT !.parent = InitPid]

\* p dies and stays a zombie until its parent, unless that is init, waits.
Died(p, status) ==
  [q \in Pid |->
    IF q \in Children(p) THEN Adopted(q)
    ELSE IF q # p THEN proc[q]
    ELSE IF proc[p].parent = InitPid THEN Gone
    ELSE [proc[p] EXCEPT !.pc = "zombie", !.cont = status, !.killed = FALSE]]

Goto(p, l) == proc' = [proc EXCEPT ![p].pc = l]
Calls(p, l, back) == proc' = [proc EXCEPT ![p].pc = l, ![p].cont = back]

Update(ttype) ==
  /\ results' = results \cup {ttype}
  /\ reported' = (reported \/ ttype # "TWARN")

-----------------------------------------------------------------------------
(* The library process *)

\* tst_brk() in the library process ends in do_exit().
LibBrk(ttype) ==
  /\ Update(ttype)
  /\ code' = {ttype}
  /\ lpc' = "exit"

\* run_tcase_on_fs() up to fork_testrun(): tst_check_cmd() or check_kver() says
\* TCONF and the filesystem is skipped, or prepare_device() mounts it, or one of
\* them breaks the test, as does run_tcases_per_fs() without any filesystem.
RunTcaseOnFs ==
  /\ lpc = "loop" /\ tst_test.all_filesystems
  /\ \/ lpc' = "next" /\ Update("TCONF") /\ UNCHANGED <<code, context>>
     \/ /\ lpc' = "arm"
        /\ context' = [context EXCEPT !.mounted = TRUE]
        /\ UNCHANGED <<code, results, reported>>
     \/ (\E t \in {"TCONF", "TBROK"} : LibBrk(t)) /\ UNCHANGED context
  /\ UNCHANGED <<run, test_pid, alarm, sigkill_retries, proc, calls, hist, env>>

\* fork_testrun(): install sigint_handler, alarm(overall_time).
Arm ==
  /\ lpc = IF tst_test.all_filesystems THEN "arm" ELSE "loop"
  /\ alarm' = context.timed
  /\ lpc' = "fork"
  /\ UNCHANGED <<run, test_pid, sigkill_retries, code, shared, proc, calls,
                 hist, env>>

ForkTestrun ==
  /\ lpc = "fork"
  /\ \/ \E p \in Fresh :
          /\ proc' = [proc EXCEPT ![p] = [NoProc EXCEPT
                        !.pc = "start", !.parent = LibPid, !.grp = LibPid]]
          /\ test_pid' = p
          /\ lpc' = "wait"
          /\ calls' = 0
          /\ UNCHANGED <<code, results, reported>>
     \/ /\ "nofork" \in Faults
        /\ LibBrk("TBROK")
        /\ UNCHANGED <<test_pid, proc, calls>>
  /\ UNCHANGED <<run, alarm, sigkill_retries, context, hist, env>>

\* SAFE_WAITPID() returns; a pending SIGUSR1 or SIGALRM runs its handler first.
WaitTest ==
  /\ lpc = "wait"
  /\ proc[test_pid].pc = "zombie"
  /\ badend' = (badend \/ proc[test_pid].cont # "ok")
  /\ proc' = [proc EXCEPT ![test_pid].pc = "gone"]
  /\ lpc' = "reaped"
  /\ UNCHANGED <<run, test_pid, alarm, sigkill_retries, code, shared, calls,
                 mains, cleaned, orphaned, env>>

\* Mutant of CheckTaint: the leftover children are not killed.
CheckTaintOnly ==
  /\ lpc = "reaped"
  /\ alarm' = FALSE
  /\ IF tst_test.taint_check /\ tainted
     THEN Update("TFAIL") /\ lpc' = "next" ELSE lpc' = "judge" /\ UNCHANGED <<results, reported>>
  /\ UNCHANGED <<run, test_pid, sigkill_retries, code, context, proc, calls,
                 hist, env>>

\* alarm(0), default signal handlers, the taint check with its early return,
\* and SIGKILL to what is left of the test's process group.
CheckTaint ==
  /\ lpc = "reaped"
  /\ alarm' = FALSE
  /\ \/ /\ tst_test.taint_check /\ tainted
        /\ Update("TFAIL")
        /\ lpc' = "next"
        /\ UNCHANGED proc
     \/ /\ ~(tst_test.taint_check /\ tainted)
        /\ proc' = IF tst_test.forks_child THEN Kill(Group(test_pid)) ELSE proc
        /\ lpc' = "judge"
        /\ UNCHANGED <<results, reported>>
  /\ UNCHANGED <<run, test_pid, sigkill_retries, code, context, calls, hist, env>>

\* Mutant of Judge: a SIGKILL is always taken for the one abort_flag explains.
JudgeKillExpected ==
  /\ lpc = "judge"
  /\ IF proc[test_pid].cont \in {"ok", "kill"}
     THEN lpc' = "next" /\ UNCHANGED <<code, results, reported>>
     ELSE LibBrk("TBROK")
  /\ UNCHANGED <<run, test_pid, alarm, sigkill_retries, context, proc, calls,
                 hist, env>>

\* The rest of fork_testrun(): what the main process's exit status means.
Judge ==
  /\ lpc = "judge"
  /\ LET status == proc[test_pid].cont IN
     IF status = "fail" \/ (status # "ok" /\ ~context.abort_flag)
     THEN LibBrk("TBROK")
     ELSE lpc' = "next" /\ UNCHANGED <<code, results, reported>>
  /\ UNCHANGED <<run, test_pid, alarm, sigkill_retries, context, proc, calls,
                 hist, env>>

\* The loops over filesystems and variants: unmount, look at abort_flag, go on.
NextRun ==
  /\ lpc = "next"
  /\ context' = [context EXCEPT !.mounted = FALSE]
  /\ IF context.abort_flag \/ run = Runs
     THEN lpc' = "exit" /\ UNCHANGED run
     ELSE lpc' = "loop" /\ run' = run + 1
  /\ UNCHANGED <<test_pid, alarm, sigkill_retries, code, results, reported,
                 proc, calls, hist, env>>

\* do_exit(): the exit status, and do_cleanup().
DoExit ==
  /\ lpc = "exit"
  /\ code' = (IF "TPASS" \in results /\ code = {"TCONF"} THEN {} ELSE code)
               \cup (results \cap {"TFAIL", "TWARN", "TBROK"})
               \cup (IF "TPASS" \in results THEN {} ELSE results \cap {"TCONF"})
  /\ context' = [context EXCEPT !.mounted = FALSE]
  /\ lpc' = "done"
  /\ UNCHANGED <<run, test_pid, alarm, sigkill_retries, results, reported,
                 proc, calls, hist, env>>

\* Mutant of AlarmHandler: it does not re-arm the alarm.
AlarmOnce ==
  /\ alarm /\ lpc \in {"wait", "reaped", "exit"}
  /\ alarm' = FALSE
  /\ proc' = Kill(Group(test_pid))
  /\ UNCHANGED <<lpc, run, test_pid, sigkill_retries, code, shared, calls, hist,
                 env>>

\* alarm_handler().  The timeout is seconds: it does not expire before fork().
\* After a failed fork() the alarm is still armed in do_exit().
AlarmHandler ==
  /\ alarm /\ lpc \in {"wait", "reaped", "exit"}
  /\ sigkill_retries' = sigkill_retries + 1
  /\ LET killed == IF lpc = "exit" THEN proc ELSE Kill(Group(test_pid)) IN
     IF sigkill_retries' > MaxRetries
     THEN /\ lpc' = "dead" /\ code' = {"TFAIL"}
          /\ proc' = [p \in Pid |-> IF killed[p].parent # LibPid THEN killed[p]
                                    ELSE [killed[p] EXCEPT !.parent = InitPid]]
     ELSE proc' = killed /\ UNCHANGED <<lpc, code>>
  /\ UNCHANGED <<run, test_pid, alarm, shared, calls, hist, env>>

\* sigint_handler(), installed from fork_testrun() to the end of its waitpid().
SigintHandler ==
  /\ "interrupt" \in Faults
  /\ lpc \in {"fork", "wait", "reaped"}
  /\ proc' = IF test_pid # NoPid THEN Kill(Group(test_pid)) ELSE proc
  /\ UNCHANGED <<lib, shared, calls, hist, env>>

\* The library is killed, or interrupted while the default handlers are set.
LibKilled ==
  /\ "libkill" \in Faults
  /\ lpc \notin {"done", "dead"}
  /\ lpc' = "dead"
  /\ code' = {"TBROK"}
  /\ proc' = [p \in Pid |-> IF p \in Children(LibPid) THEN Adopted(p) ELSE proc[p]]
  /\ UNCHANGED <<run, test_pid, alarm, sigkill_retries, shared, calls, hist, env>>

-----------------------------------------------------------------------------
(* heartbeat(), in two steps: the parent may die between them *)

\* Mutant of Heartbeat: the test does not notice that the library is gone.
HeartbeatBlind(p) ==
  proc[p].pc = "hb" /\ Goto(p, "beat") /\ UNCHANGED <<lib, shared, calls, hist, env>>

Heartbeat(p) ==
  /\ proc[p].pc = "hb"
  /\ IF proc[p].parent = InitPid
     THEN Update("TFAIL") /\ proc' = Kill(Group(proc[p].grp))
     ELSE Goto(p, "beat") /\ UNCHANGED <<results, reported>>
  /\ UNCHANGED <<lib, context, calls, hist, env>>

\* kill(getppid(), SIGUSR1): heartbeat_handler() in the library, death of any
\* other test process, no effect on init.
Beat(p) ==
  /\ proc[p].pc = "beat"
  /\ LET back == proc[p].cont
         q == proc[p].parent
         goes == [proc EXCEPT ![p].pc = IF back = "call" THEN "test" ELSE back,
                              ![p].cont = "none"] IN
     /\ IF q = LibPid
        THEN alarm' = context.timed /\ sigkill_retries' = 0 /\ proc' = goes
        ELSE /\ UNCHANGED <<alarm, sigkill_retries>>
             /\ IF q \in Live /\ proc[q].pc # "stuck"
                THEN proc' = [Died(q, "signal") EXCEPT
                               ![p] = [goes[p] EXCEPT !.parent = InitPid]]
                ELSE proc' = goes
     /\ orphaned' = IF back = "call" /\ lpc \in {"done", "dead"}
                    THEN orphaned + 1 ELSE orphaned
  /\ UNCHANGED <<lpc, run, test_pid, code, shared, calls, mains, cleaned,
                 badend, env>>

-----------------------------------------------------------------------------
(* The main test process *)

\* The child's side of fork_testrun(), up to testrun()'s first heartbeat.
SetPgid(p) ==
  /\ proc[p].pc = "start"
  /\ proc' = [proc EXCEPT ![p].grp = p, ![p].pc = "hb", ![p].cont = "presetup"]
  /\ UNCHANGED <<lib, shared, calls, hist, env>>

\* Mutant of DoTestSetup: main_pid is set by the first main process only.
DoTestSetupOnce(p) ==
  /\ proc[p].pc = "presetup"
  /\ context' = [context EXCEPT !.main_pid = IF @ = NoPid THEN p ELSE @]
  /\ mains' = mains \cup {p}
  /\ Goto(p, "setup")
  /\ UNCHANGED <<lib, results, reported, calls, cleaned, badend, orphaned, env>>

DoTestSetup(p) ==
  /\ proc[p].pc = "presetup"
  /\ context' = [context EXCEPT !.main_pid = p]
  /\ mains' = mains \cup {p}
  /\ Goto(p, "setup")
  /\ UNCHANGED <<lib, results, reported, calls, cleaned, badend,
                 orphaned, env>>

\* Save the results and call the test function, through a heartbeat.
RunTest(p) ==
  /\ reported' = FALSE
  /\ calls' = calls + 1
  /\ Calls(p, "hb", "call")

\* do_test_cleanup(), after which the process goes on to back.
DoTestCleanup(p, back) ==
  /\ Calls(p, "cleanup", back)
  /\ cleaned' = cleaned \cup {p}

\* testrun()'s loop.
TestrunLoop(p) ==
  /\ proc[p].pc = "loop"
  /\ \/ /\ calls < Iterations * tst_test.tcnt
        /\ RunTest(p) /\ UNCHANGED cleaned
     \/ /\ calls >= Iterations * tst_test.tcnt
        /\ calls + tst_test.tcnt <= MaxCalls
        /\ RunTest(p) /\ UNCHANGED cleaned
     \/ /\ calls >= Iterations * tst_test.tcnt
        /\ DoTestCleanup(p, "exit") /\ UNCHANGED <<reported, calls>>
  /\ UNCHANGED <<lib, context, results, mains, badend, orphaned, env>>

\* tst_vbrk_() up to update_results(); the cleanup belongs to the main process.
Brk(p, ttype) ==
  /\ Update(ttype)
  /\ Calls(p, "brk", IF ttype = "TBROK" THEN "abort" ELSE "exit")

\* Mutant of BrkCleanup: the children run the cleanup as well.
BrkCleanupAll(p) ==
  /\ proc[p].pc = "brk"
  /\ DoTestCleanup(p, proc[p].cont)
  /\ UNCHANGED <<lib, shared, calls, mains, badend, orphaned, env>>

\* tst_vbrk_() after update_results().
BrkCleanup(p) ==
  /\ proc[p].pc = "brk"
  /\ IF p = context.main_pid
     THEN DoTestCleanup(p, proc[p].cont)
     ELSE /\ proc' = IF proc[p].cont = "exit" THEN Died(p, "ok")
                     ELSE [proc EXCEPT ![p].pc = "abort", ![p].cont = "none"]
          /\ UNCHANGED cleaned
  /\ UNCHANGED <<lib, shared, calls, mains, badend, orphaned, env>>

\* TBROK: raise abort_flag; a child then kills the main process.
BrkAbort(p) ==
  /\ proc[p].pc = "abort"
  /\ context' = [context EXCEPT !.abort_flag = TRUE]
  /\ IF context.main_pid # NoPid /\ p # context.main_pid
     THEN Goto(p, "kill") ELSE proc' = Died(p, "ok")
  /\ UNCHANGED <<lib, results, reported, calls, mains, cleaned, badend,
                 orphaned, env>>

\* kill(main_pid, SIGKILL), exit(0).
BrkKill(p) ==
  /\ proc[p].pc = "kill"
  /\ proc' = [Died(p, "ok") EXCEPT ![context.main_pid].killed =
                @ \/ context.main_pid \in Live]
  /\ UNCHANGED <<lib, shared, calls, hist, env>>

\* tst_reap_children() and the results_equal() test of run_tests(): one child
\* is reaped, or all have been and the results are compared.
ReapChildren(p) ==
  /\ proc[p].pc = "reap"
  /\ \/ \E q \in Children(p) :
          /\ proc[q].pc = "zombie"
          /\ \/ /\ proc[q].cont = "ok"
                /\ proc' = [proc EXCEPT ![q] = Gone]
                /\ UNCHANGED <<results, reported>>
             \/ /\ proc[q].cont # "ok"
                /\ Update("TBROK")
                /\ proc' = [proc EXCEPT ![q] = Gone,
                              ![p].pc = "brk", ![p].cont = "abort"]
          /\ UNCHANGED calls
     \/ /\ Children(p) = {} /\ ~reported
        /\ Brk(p, "TBROK") /\ UNCHANGED calls
     \/ /\ Children(p) = {} /\ reported /\ calls % tst_test.tcnt # 0
        /\ RunTest(p) /\ UNCHANGED results
     \/ /\ Children(p) = {} /\ reported /\ calls % tst_test.tcnt = 0
        /\ Calls(p, "hb", "loop") /\ UNCHANGED <<results, reported, calls>>
  /\ UNCHANGED <<lib, context, hist, env>>

\* The test's cleanup() returns; in it tst_brk() is tst_cvres(), which returns.
CleanupReturns(p) ==
  /\ proc[p].pc = "cleanup"
  /\ proc' = IF proc[p].cont = "exit" THEN Died(p, "ok")
             ELSE [proc EXCEPT ![p].pc = "abort", ![p].cont = "none"]
  /\ UNCHANGED <<lib, shared, calls, hist, env>>

-----------------------------------------------------------------------------
(* The test's own code, in the main process and its descendants *)

\* tst_res(), and in cleanup() tst_brk(), whose TBROK becomes TWARN.
Report(p) ==
  /\ proc[p].pc \in Body \cup {"cleanup"}
  /\ \E t \in Ttype \ {"TBROK"} : Update(t)
  /\ UNCHANGED <<lib, context, proc, calls, hist, env>>

TestBrk(p) ==
  /\ proc[p].pc \in Body
  /\ \E t \in {"TFAIL", "TCONF", "TBROK"} : Brk(p, t)
  /\ UNCHANGED <<lib, context, calls, hist, env>>

\* SAFE_FORK().  Ids are left over for the main processes still to come.
SafeFork(p) ==
  /\ proc[p].pc \in Body
  /\ \/ /\ tst_test.forks_child /\ ~proc[p].killed
        /\ Cardinality(Free) > Runs - run
        /\ \E q \in Fresh : proc' = [proc EXCEPT ![q] =
             [NoProc EXCEPT !.pc = proc[p].pc, !.parent = p, !.grp = proc[p].grp]]
        /\ UNCHANGED <<results, reported>>
     \/ ~tst_test.forks_child /\ Brk(p, "TBROK")
  /\ UNCHANGED <<lib, context, calls, hist, env>>

\* The test waits for a child itself, whatever its status.
SafeWait(p) ==
  /\ proc[p].pc \in Body
  /\ \E q \in Children(p) :
       /\ proc[q].pc = "zombie"
       /\ proc' = [proc EXCEPT ![q] = Gone]
  /\ UNCHANGED <<lib, shared, calls, hist, env>>

SetTimeout(p) ==
  /\ proc[p].pc \in Body /\ resets < tst_test.resets
  /\ context' = [context EXCEPT !.timed = TRUE]
  /\ Calls(p, "hb", proc[p].pc)
  /\ resets' = resets + 1
  /\ UNCHANGED <<lib, results, reported, calls, hist, tst_test, tainted>>

\* setup() or the test function returns, in a child too.
BodyReturns(p) ==
  /\ \/ /\ proc[p].pc = "setup" /\ p = context.main_pid
        /\ Goto(p, "loop") /\ UNCHANGED <<results, reported>>
     \/ /\ proc[p].pc = "setup" /\ p # context.main_pid
        /\ Brk(p, "TBROK")
     \/ /\ proc[p].pc = "test" /\ p = context.main_pid
        /\ Goto(p, "reap") /\ UNCHANGED <<results, reported>>
     \/ /\ proc[p].pc = "test" /\ p # context.main_pid
        /\ proc' = Died(p, "ok") /\ UNCHANGED <<results, reported>>
  /\ UNCHANGED <<lib, context, calls, hist, env>>

\* The test's code exits with a non-zero value or is killed by a signal, or
\* sleeps uninterruptibly for good, or taints the kernel (which is looked at
\* only for a test that has it checked).
Crash(p) ==
  /\ "crash" \in Faults /\ proc[p].pc \in Body \cup {"cleanup"}
  /\ \E s \in {"fail", "signal"} : proc' = Died(p, s)
  /\ UNCHANGED <<lib, shared, calls, hist, env>>

Stick(p) ==
  /\ "stuck" \in Faults /\ proc[p].pc \in Body
  /\ Goto(p, "stuck")
  /\ UNCHANGED <<lib, shared, calls, hist, env>>

Taint(p) ==
  /\ "taint" \in Faults /\ tst_test.taint_check /\ proc[p].pc \in Body
  /\ tainted' = TRUE
  /\ UNCHANGED <<lib, shared, proc, calls, hist, tst_test, resets>>

\* A pending SIGKILL takes effect.
SigkillDelivered(p) ==
  /\ p \in Live /\ proc[p].killed /\ proc[p].pc # "stuck"
  /\ proc' = Died(p, "kill")
  /\ UNCHANGED <<lib, shared, calls, hist, env>>

-----------------------------------------------------------------------------

Library ==
  \/ RunTcaseOnFs \/ Arm \/ ForkTestrun \/ WaitTest \/ CheckTaint \/ Judge
  \/ NextRun \/ DoExit

Process(p) ==
  \/ SetPgid(p) \/ DoTestSetup(p) \/ Heartbeat(p) \/ Beat(p) \/ TestrunLoop(p)
  \/ ReapChildren(p) \/ BrkCleanup(p) \/ BrkAbort(p) \/ BrkKill(p)
  \/ CleanupReturns(p) \/ Report(p) \/ TestBrk(p) \/ SafeFork(p) \/ SafeWait(p)
  \/ SetTimeout(p) \/ BodyReturns(p)

Fault == LibKilled \/ SigintHandler \/ \E p \in Pid : Crash(p) \/ Stick(p) \/ Taint(p)

Next ==
  \/ Library \/ AlarmHandler \/ Fault
  \/ \E p \in Pid : Process(p) \/ SigkillDelivered(p)

\* The library is never blocked but in waitpid(), an armed alarm expires (only
\* finitely many heartbeats re-arm it: MaxCalls and resets), and a pending
\* SIGKILL is delivered.  The test's own code may never return.
Fairness ==
  /\ WF_vars(Library) /\ WF_vars(AlarmHandler)
  /\ \A p \in Pid : WF_vars(SigkillDelivered(p))

Spec == Init /\ [][Next]_vars /\ Fairness

-----------------------------------------------------------------------------
(* Properties *)

\* do_exit() never reports success for a run that went wrong: exit status 0
\* means that every main process the library reaped had exited with 0 and that
\* something passed, unless nothing was asked for (-i 0).  A test that skips
\* every filesystem does not exit with 0.
ExitTruthful ==
  lpc = "done" /\ code = {} => ~badend /\ ("TPASS" \in results \/ Iterations = 0)

\* When fork_testrun() has returned, no process of that test or an earlier one
\* runs on beside the next test or the library's cleanup: all that are alive
\* have SIGKILL pending.  Not so on the early return for a tainted kernel
\* (tst_test.c:1932: there include/tst_test.h:112, "no processes left after the
\* library process exits", is not kept), nor for the test that was running when
\* the library died.
LeftoversKilled ==
  tst_test.forks_child /\ ~(tst_test.taint_check /\ tainted) =>
    \A p \in Live :
      \/ proc[p].killed
      \/ /\ lpc \in {"wait", "reaped", "dead"}
         /\ p = test_pid \/ proc[p].grp = test_pid

\* A child that reports TBROK and then kills context->main_pid kills the main
\* process of its own run, though it reads main_pid two steps after it has begun
\* to break, when its run may be over and the main process of the next variant
\* or filesystem have put itself there.  The exceptions are a child with SIGKILL
\* pending, which may get as far as that before it dies, and the early return
\* for a tainted kernel, after which nobody has killed it.
TbrokKillsOwn ==
  tst_test.forks_child /\ ~(tst_test.taint_check /\ tainted) =>
    \A p \in Pid : proc[p].pc = "kill" =>
      proc[p].killed \/ context.main_pid = proc[p].grp

\* cleanup() runs in the main process only, and there once: not in children
\* that break, and not again when it breaks itself.  (Processes have one thread
\* here: threads of the main process that break together are left out, and
\* doc/old/C-Test-API.asciidoc leaves them to the test.)
CleanupOnce ==
  [][\A p \in Pid : proc'[p].pc = "cleanup" /\ proc[p].pc # "cleanup" =>
       p \in mains /\ p \notin cleaned]_vars

\* A main process that lost its library begins at most one more test function
\* before heartbeat() stops it, even if the library dies inside heartbeat().
OrphanStops == orphaned <= 1

\* A test with a timeout ends, whatever its processes do: hang, sleep
\* uninterruptibly, or leave children that main waits for.
Terminates == tst_test.limited ~> lpc \in {"done", "dead"}

=============================================================================
