--------------------------- MODULE TstTestProofs ----------------------------
(***************************************************************************)
(* Theorems about the test harness of lib/tst_test.c, for any number of    *)
(* processes, runs, test cases and retries and any set of faults.          *)
(***************************************************************************)
EXTENDS TstTest, TLAPS

-----------------------------------------------------------------------------
(* The process table *)

\* heartbeat() returns to where it was called from.
Returns == {"call", "presetup", "loop", "setup", "test"}
Entry == {r \in ProcRecord : r.pc \in {"hb", "beat"} => r.cont \in Returns}
Table == [Pid -> Entry]

\* fork() returns an id that is not in use.
LEMMA FreshFree == Fresh \subseteq Free
  BY Zenon DEF Fresh

Conts == Running \cup Status \cup {"call", "exit", "none"}

\* The records the actions build are entries of the table.
LEMMA EntryStep ==
  ASSUME NEW r \in Entry, NEW l \in Running, NEW c \in Conts,
         l \in {"hb", "beat"} => c \in Returns
  PROVE [r EXCEPT !.pc = l, !.cont = c] \in Entry
  BY Zenon DEF Entry, ProcRecord, Conts

\* Moving a process on keeps its entry an entry.
LEMMA EntryGoto ==
  ASSUME NEW r \in Entry, NEW l \in Running,
         l \in {"hb", "beat"} => r.cont \in Returns
  PROVE [r EXCEPT !.pc = l] \in Entry
  BY Zenon DEF Entry, ProcRecord

\* So do a signal, an adoption, an end and a death.
LEMMA EntryEnds ==
  ASSUME NEW r \in Entry, NEW s \in Status
  PROVE /\ [r EXCEPT !.killed = TRUE] \in Entry
        /\ [r EXCEPT !.parent = InitPid] \in Entry
        /\ [r EXCEPT !.pc = "gone"] \in Entry
        /\ [r EXCEPT !.pc = "zombie", !.cont = s, !.killed = FALSE] \in Entry
  BY ZenonT(60) DEF Entry, ProcRecord

\* And so does being reaped.
LEMMA GoneEntry == Gone \in Entry
  BY Zenon DEF Entry, ProcRecord, NoProc, Gone

\* Kill() keeps the type of the table.
LEMMA KillType ==
  ASSUME proc \in Table, NEW S
  PROVE Kill(S) \in Table
<1>1. ASSUME NEW p \in Pid
      PROVE [proc[p] EXCEPT !.killed = TRUE] \in Entry /\ proc[p] \in Entry
  BY Zenon, EntryEnds DEF Table, Status
<1> QED BY Zenon, <1>1 DEF Kill, Table

\* So does a process's death, with the adoption of its children.
LEMMA DiedType ==
  ASSUME proc \in Table, NEW p \in Pid, NEW s \in Status
  PROVE Died(p, s) \in Table
<1>1. ASSUME NEW q \in Pid
      PROVE /\ proc[q] \in Entry /\ Adopted(q) \in Entry /\ Gone \in Entry
            /\ [proc[q] EXCEPT !.pc = "zombie", !.cont = s, !.killed = FALSE]
                 \in Entry
  <2>1. proc[q] \in Entry
    BY Zenon DEF Table
  <2> QED BY Zenon, <2>1, EntryEnds, GoneEntry DEF Adopted
<1> QED BY Zenon, <1>1 DEF Died, Table

\* A result is counted in the shared results.
LEMMA UpdateType ==
  ASSUME NEW f \in Table, NEW p \in Pid, NEW r \in Entry
  PROVE [f EXCEPT ![p] = r] \in Table
  BY Zenon DEF Table

\* A call of heartbeat() or of the test's cleanup leaves the table a table.
LEMMA CallsType ==
  ASSUME proc \in Table, NEW p \in Pid, NEW l \in Running, NEW c \in Conts,
         l \in {"hb", "beat"} => c \in Returns, Calls(p, l, c)
  PROVE proc' \in Table
<1>1. proc[p] \in Entry
  BY Zenon DEF Table
<1>2. [proc[p] EXCEPT !.pc = l, !.cont = c] \in Entry
  BY Zenon, <1>1, EntryStep
<1>3. proc' = [proc EXCEPT ![p] = [proc[p] EXCEPT !.pc = l, !.cont = c]]
  BY Zenon DEF Calls, Table
<1> QED BY Zenon, <1>2, <1>3, UpdateType

\* So does a step to another place.
LEMMA GotoType ==
  ASSUME proc \in Table, NEW p \in Pid, NEW l \in Running, Goto(p, l),
         l \in {"hb", "beat"} => proc[p].cont \in Returns
  PROVE proc' \in Table
<1>1. proc[p] \in Entry
  BY Zenon DEF Table
<1>2. [proc[p] EXCEPT !.pc = l] \in Entry
  BY Zenon, <1>1, EntryGoto
<1>3. proc' = [proc EXCEPT ![p] = [proc[p] EXCEPT !.pc = l]]
  BY Zenon DEF Goto, Table
<1> QED BY Zenon, <1>2, <1>3, UpdateType

\* A new process.
LEMMA ForkType ==
  ASSUME NEW l \in Running \ {"hb", "beat"},
         NEW q \in Pid \cup {NoPid, InitPid, LibPid}, NEW g \in Pid \cup {NoPid, LibPid}
  PROVE [NoProc EXCEPT !.pc = l, !.parent = q, !.grp = g] \in Entry
  BY Zenon DEF NoProc, Entry, ProcRecord

-----------------------------------------------------------------------------
(* Type correctness *)

\* What typing needs besides TypeOK: waitpid() has a process to wait for, and
\* the alarm handler has retries left while the library lives.
Control ==
  /\ lpc \in {"wait", "reaped", "judge"} => test_pid \in Pid
  /\ lpc # "dead" => sigkill_retries <= MaxRetries

TypeInv == TypeOK /\ Control /\ proc \in Table

\* Every step keeps the process table well-formed.
LEMMA TableStep ==
  ASSUME TypeInv, [Next]_vars
  PROVE proc' \in Table
<1> USE DEF TypeInv
<1>1. CASE UNCHANGED proc
  BY Zenon, <1>1
<1>2. CASE ForkTestrun
  <2>1. [NoProc EXCEPT !.pc = "start", !.parent = LibPid, !.grp = LibPid] \in Entry
    BY Zenon, ForkType DEF Running
  <2>2. \/ UNCHANGED proc
        \/ \E p \in Pid : proc' = [proc EXCEPT ![p] = [NoProc EXCEPT
             !.pc = "start", !.parent = LibPid, !.grp = LibPid]]
    BY Zenon, <1>2, FreshFree DEF ForkTestrun, Free
  <2> QED BY ZenonT(60), <2>1, <2>2, UpdateType
<1>3. CASE WaitTest
  <2>1. test_pid \in Pid
    BY Zenon, <1>3 DEF WaitTest, Control
  <2>2. [proc[test_pid] EXCEPT !.pc = "gone"] \in Entry
    BY Zenon, <2>1, EntryEnds DEF Table, Status
  <2>3. proc' = [proc EXCEPT ![test_pid] = [proc[test_pid] EXCEPT !.pc = "gone"]]
    BY Zenon, <1>3 DEF WaitTest, Table
  <2> QED BY Zenon, <2>1, <2>2, <2>3, UpdateType
<1>4. CASE CheckTaint \/ SigintHandler
  BY Zenon, <1>4, KillType DEF CheckTaint, SigintHandler
<1>5. CASE AlarmHandler
  <2> DEFINE k == IF lpc = "exit" THEN proc ELSE Kill(Group(test_pid))
             a(p) == IF k[p].parent # LibPid THEN k[p]
                     ELSE [k[p] EXCEPT !.parent = InitPid]
  <2>1. k \in Table
    BY Zenon, KillType
  <2>2. \A p \in Pid : a(p) \in Entry
    BY Zenon, <2>1, EntryEnds DEF Table, Status
  <2>3. [p \in Pid |-> a(p)] \in Table
    BY Zenon, <2>2 DEF Table
  <2>4. proc' = k \/ proc' = [p \in Pid |-> a(p)]
    BY Zenon, <1>5 DEF AlarmHandler
  <2> QED BY Zenon, <2>1, <2>3, <2>4
<1>6. CASE LibKilled
  <2>1. \A p \in Pid : Adopted(p) \in Entry /\ proc[p] \in Entry
    BY Zenon, EntryEnds, GoneEntry DEF Adopted, Table, Status
  <2> QED BY Zenon, <1>6, <2>1 DEF LibKilled, Table
<1>7. ASSUME NEW p \in Pid, Process(p) \/ SigkillDelivered(p) \/ Crash(p) \/ Stick(p)
      PROVE proc' \in Table
  <2>1. proc[p] \in Entry
    BY Zenon DEF Table
  <2>2. CASE SetPgid(p)
    <3> DEFINE r == [proc[p] EXCEPT !.grp = p, !.pc = "hb", !.cont = "presetup"]
    <3>1. r \in Entry
      BY Zenon, <2>1 DEF Entry, ProcRecord, Running, Returns
    <3>2. proc' = [proc EXCEPT ![p] = r]
      BY Zenon, <2>2 DEF SetPgid, Table
    <3> QED BY Zenon, <3>1, <3>2, UpdateType
  <2>3. CASE DoTestSetup(p)
    BY Zenon, <2>3, GotoType DEF DoTestSetup, Running, Body
  <2>4. CASE Heartbeat(p)
    <3>1. proc[p].cont \in Returns
      BY Zenon, <2>1, <2>4 DEF Heartbeat, Entry
    <3> QED BY Zenon, <2>4, <3>1, KillType, GotoType DEF Heartbeat, Running
  <2>5. CASE Beat(p)
    <3> DEFINE l == IF proc[p].cont = "call" THEN "test" ELSE proc[p].cont
               g == [proc[p] EXCEPT !.pc = l, !.cont = "none"]
    <3>1. l \in Running \ {"hb", "beat"}
      BY Zenon, <2>1, <2>5 DEF Beat, Entry, Returns, Running, Body
    <3>2. g \in Entry
      BY Zenon, <2>1, <3>1, EntryStep DEF Conts
    <3>3. [g EXCEPT !.parent = InitPid] \in Entry
      BY Zenon, <3>2, EntryEnds DEF Status
    <3>4. [proc EXCEPT ![p].pc = l, ![p].cont = "none"] = [proc EXCEPT ![p] = g]
      BY Zenon DEF Table
    <3>5. [proc EXCEPT ![p] = g] \in Table /\ [proc EXCEPT ![p] = g][p] = g
      BY Zenon, <3>2, UpdateType DEF Table
    <3>6. CASE proc' = [proc EXCEPT ![p] = g]
      BY Zenon, <3>5, <3>6
    <3>7. ASSUME NEW q \in Live,
                 proc' = [Died(q, "signal") EXCEPT ![p] = [g EXCEPT !.parent = InitPid]]
          PROVE proc' \in Table
      <4>1. Died(q, "signal") \in Table
        BY Zenon, DiedType DEF Live, Status
      <4> QED BY Zenon, <3>3, <3>7, <4>1, UpdateType
    <3>8. \/ proc' = [proc EXCEPT ![p] = g]
          \/ \E q \in Live :
               proc' = [Died(q, "signal") EXCEPT ![p] = [g EXCEPT !.parent = InitPid]]
      BY Zenon, <2>5, <3>4, <3>5 DEF Beat
    <3> QED BY Zenon, <3>6, <3>7, <3>8
  <2>6. CASE TestrunLoop(p)
    BY Zenon, <2>6, CallsType DEF TestrunLoop, RunTest, DoTestCleanup, Running, Returns, Conts
  <2>7. CASE ReapChildren(p)
    <3>1. ASSUME NEW q \in Pid,
                 \/ proc' = [proc EXCEPT ![q] = Gone]
                 \/ proc' = [proc EXCEPT ![q] = Gone, ![p].pc = "brk", ![p].cont = "abort"]
          PROVE proc' \in Table
      <4> DEFINE f == [proc EXCEPT ![q] = Gone]
      <4>1. f \in Table
        BY Zenon, GoneEntry, UpdateType
      <4>2. f[p] \in Entry
        BY Zenon, <4>1 DEF Table
      <4>3. [f[p] EXCEPT !.pc = "brk", !.cont = "abort"] \in Entry
        BY Zenon, <4>2, EntryStep DEF Running, Conts
      <4>4. [f EXCEPT ![p] = [f[p] EXCEPT !.pc = "brk", !.cont = "abort"]] \in Table
        BY Zenon, <4>1, <4>3, UpdateType
      <4>5. [f EXCEPT ![p].pc = "brk", ![p].cont = "abort"]
              = [f EXCEPT ![p] = [f[p] EXCEPT !.pc = "brk", !.cont = "abort"]]
        BY Zenon, <4>1 DEF Table
      <4> QED BY Zenon, <3>1, <4>1, <4>4, <4>5
    <3>2. CASE \E l, c : /\ Calls(p, l, c)
                         /\ <<l, c>> \in {<<"hb", "call">>, <<"hb", "loop">>,
                                          <<"brk", "abort">>}
      BY Zenon, <3>2, CallsType DEF Running, Conts, Returns
    <3>3. CASE \E q \in Children(p) :
                 \/ proc' = [proc EXCEPT ![q] = Gone]
                 \/ proc' = [proc EXCEPT ![q] = Gone, ![p].pc = "brk", ![p].cont = "abort"]
      BY Zenon, <3>1, <3>3 DEF Children
    <3> QED BY Zenon, <2>7, <3>2, <3>3 DEF ReapChildren, Brk, RunTest
  <2>8. CASE BrkCleanup(p) \/ CleanupReturns(p)
    <3>1. proc[p].cont \in Conts
      BY Zenon, <2>1 DEF Entry, ProcRecord, Conts
    <3>2. CASE proc' = Died(p, "ok")
      BY Zenon, <3>2, DiedType DEF Status
    <3>3. CASE proc' = [proc EXCEPT ![p].pc = "abort", ![p].cont = "none"]
      <4>1. Calls(p, "abort", "none")
        BY Zenon, <3>3 DEF Calls
      <4> QED BY Zenon, <4>1, CallsType DEF Running, Conts
    <3>4. CASE Calls(p, "cleanup", proc[p].cont)
      BY Zenon, <3>1, <3>4, CallsType DEF Running
    <3> QED BY Zenon, <2>8, <3>2, <3>3, <3>4 DEF BrkCleanup, CleanupReturns, DoTestCleanup
  <2>9. CASE BrkAbort(p)
    BY Zenon, <2>9, GotoType, DiedType DEF BrkAbort, Running, Status
  <2>10. CASE BrkKill(p)
    <3> DEFINE d == Died(p, "ok")
               m == context.main_pid
    <3>1. d \in Table
      BY Zenon, DiedType DEF Status
    <3>2. CASE m \notin Pid
      BY Zenon, <2>10, <3>1, <3>2 DEF BrkKill, Table
    <3>3. CASE m \in Pid
      <4>1. [d[m] EXCEPT !.killed = @ \/ m \in Live] \in Entry
        <5>1. d[m] \in Entry /\ (d[m].killed \/ m \in Live) \in BOOLEAN
          BY Zenon, <3>1, <3>3 DEF Table
        <5> QED BY ZenonT(60), <5>1 DEF Entry, ProcRecord
      <4>2. proc' = [d EXCEPT ![m] = [d[m] EXCEPT !.killed = @ \/ m \in Live]]
        BY Zenon, <2>10, <3>1, <3>3 DEF BrkKill, Table
      <4> QED BY Zenon, <3>1, <3>3, <4>1, <4>2, UpdateType
    <3> QED BY Zenon, <3>2, <3>3
  <2>11. CASE Report(p)
    BY Zenon, <2>11 DEF Report
  <2>12. CASE TestBrk(p)
    BY Zenon, <2>12, CallsType DEF TestBrk, Brk, Running, Conts
  <2>13. CASE SafeFork(p)
    <3>1. CASE Brk(p, "TBROK")
      BY Zenon, <3>1, CallsType DEF Brk, Running, Conts
    <3>2. ASSUME NEW q \in Free, proc[p].pc \in Body,
                 proc' = [proc EXCEPT ![q] =
                   [NoProc EXCEPT !.pc = proc[p].pc, !.parent = p, !.grp = proc[p].grp]]
          PROVE proc' \in Table
      <4>1. proc[p].grp \in Pid \cup {NoPid, LibPid}
        BY Zenon, <2>1 DEF Entry, ProcRecord
      <4>2. [NoProc EXCEPT !.pc = proc[p].pc, !.parent = p, !.grp = proc[p].grp] \in Entry
        BY Zenon, <3>2, <4>1, ForkType DEF Body, Running
      <4> QED BY Zenon, <3>2, <4>2, UpdateType DEF Free
    <3> QED BY Zenon, <2>13, <3>1, <3>2, FreshFree DEF SafeFork
  <2>14. CASE SafeWait(p)
    BY Zenon, <2>14, GoneEntry, UpdateType DEF SafeWait, Children
  <2>15. CASE SetTimeout(p)
    BY Zenon, <2>15, CallsType DEF SetTimeout, Body, Running, Conts, Returns
  <2>16. CASE BodyReturns(p)
    <3>1. CASE Brk(p, "TBROK")
      BY Zenon, <3>1, CallsType DEF Brk, Running, Conts
    <3>2. CASE Goto(p, "loop") \/ Goto(p, "reap")
      BY Zenon, <3>2, GotoType DEF Running
    <3>3. CASE proc' = Died(p, "ok")
      BY Zenon, <3>3, DiedType DEF Status
    <3> QED BY Zenon, <2>16, <3>1, <3>2, <3>3 DEF BodyReturns
  <2>17. CASE Crash(p) \/ SigkillDelivered(p)
    BY Zenon, <2>17, DiedType DEF Crash, SigkillDelivered, Status
  <2>18. CASE Stick(p)
    BY Zenon, <2>18, GotoType DEF Stick, Running
  <2> QED BY Zenon, <1>7, <2>2, <2>3, <2>4, <2>5, <2>6, <2>7, <2>8, <2>9, <2>10, <2>11,
             <2>12, <2>13, <2>14, <2>15, <2>16, <2>17, <2>18 DEF Process
<1>8. CASE \/ RunTcaseOnFs \/ Arm \/ Judge \/ NextRun \/ DoExit
           \/ (\E p \in Pid : Taint(p)) \/ UNCHANGED vars
  BY Zenon, <1>1, <1>8 DEF RunTcaseOnFs, Arm, Judge, NextRun, DoExit, Taint, vars
<1> QED BY Zenon, <1>2, <1>3, <1>4, <1>5, <1>6, <1>7, <1>8 DEF Next, Library, Fault

ContextType ==
  [main_pid : Pid \cup {NoPid}, abort_flag : BOOLEAN, timed : BOOLEAN,
   mounted : BOOLEAN]

\* The other variables: every step keeps them typed, and Control with them.
ScalarOK ==
  /\ tst_test \in Tests
  /\ lpc \in {"loop", "arm", "fork", "wait", "reaped", "judge", "next",
              "exit", "done", "dead"}
  /\ run \in 1..Runs
  /\ test_pid \in Pid \cup {NoPid}
  /\ alarm \in BOOLEAN
  /\ sigkill_retries \in 0..(MaxRetries + 1)
  /\ code \subseteq Ttype
  /\ context \in ContextType
  /\ results \subseteq Ttype
  /\ reported \in BOOLEAN
  /\ calls \in Nat
  /\ tainted \in BOOLEAN
  /\ resets \in Nat
  /\ mains \subseteq Pid
  /\ cleaned \subseteq Pid
  /\ badend \in BOOLEAN
  /\ orphaned \in Nat

\* update_results() counts a result of a known type.
LEMMA UpdateScalars ==
  ASSUME NEW t \in Ttype, Update(t), results \subseteq Ttype, reported \in BOOLEAN
  PROVE results' \subseteq Ttype /\ reported' \in BOOLEAN
  BY Zenon DEF Update

\* What the steps write to the shared context keeps its type.
LEMMA ContextStep ==
  ASSUME NEW c \in ContextType
  PROVE /\ c.timed \in BOOLEAN
        /\ \A b \in BOOLEAN : [c EXCEPT !.mounted = b] \in ContextType
        /\ \A p \in Pid : [c EXCEPT !.main_pid = p] \in ContextType
        /\ [c EXCEPT !.abort_flag = TRUE] \in ContextType
        /\ [c EXCEPT !.timed = TRUE] \in ContextType
  BY Zenon DEF ContextType

\* Every step keeps the types of the variables other than the process table.
LEMMA ScalarStep ==
  ASSUME ScalarOK, Control, [Next]_vars
  PROVE ScalarOK' /\ Control'
<1> USE RunsAssumption, RetriesAssumption DEF ScalarOK, Control, lib, shared, hist, env
<1>1. CASE RunTcaseOnFs
  <2>1. context' \in ContextType
    BY Zenon, <1>1, ContextStep DEF RunTcaseOnFs, shared
  <2>2. results' \subseteq Ttype /\ reported' \in BOOLEAN
    BY Zenon, <1>1, UpdateScalars DEF RunTcaseOnFs, LibBrk, Ttype
  <2> QED BY Zenon, <1>1, <2>1, <2>2 DEF RunTcaseOnFs, LibBrk, Ttype
<1>2. CASE Arm
  BY Zenon, <1>2, ContextStep DEF Arm
<1>3. CASE ForkTestrun
  <2>1. CASE LibBrk("TBROK") /\ UNCHANGED test_pid
    <3>1. results' \subseteq Ttype /\ reported' \in BOOLEAN
      BY Zenon, <2>1, UpdateScalars DEF LibBrk, Ttype
    <3> QED BY Zenon, <1>3, <2>1, <3>1 DEF ForkTestrun, LibBrk, Ttype
  <2>2. CASE test_pid' \in Pid /\ UNCHANGED <<code, results, reported>> /\ lpc' = "wait"
    BY <1>3, <2>2 DEF ForkTestrun
  <2> QED BY Zenon, <1>3, <2>1, <2>2, FreshFree DEF ForkTestrun, Free
<1>4. CASE WaitTest
  BY Zenon, <1>4 DEF WaitTest
<1>5. CASE CheckTaint
  BY Zenon, <1>5 DEF CheckTaint, Update, Ttype
<1>6. CASE Judge
  BY Zenon, <1>6 DEF Judge, LibBrk, Update, Ttype
<1>7. CASE NextRun
  <2>1. context' \in ContextType
    BY Zenon, <1>7, ContextStep DEF NextRun
  <2>2. run' \in 1..Runs
    BY <1>7 DEF NextRun
  <2> QED BY Zenon, <1>7, <2>1, <2>2 DEF NextRun
<1>8. CASE DoExit
  <2>1. context' \in ContextType
    BY Zenon, <1>8, ContextStep DEF DoExit
  <2>2. code' \subseteq Ttype
    BY Zenon, <1>8 DEF DoExit
  <2> QED BY Zenon, <1>8, <2>1, <2>2 DEF DoExit
<1>9. CASE AlarmHandler
  BY <1>9 DEF AlarmHandler, Ttype
<1>10. CASE SigintHandler
  BY Zenon, <1>10 DEF SigintHandler
<1>11. CASE LibKilled
  BY Zenon, <1>11 DEF LibKilled, Ttype
<1>12. ASSUME NEW p \in Pid, Process(p) \/ SigkillDelivered(p) \/ Crash(p) \/ Stick(p) \/ Taint(p)
      PROVE ScalarOK' /\ Control'
  <2>1. CASE SetPgid(p)
    BY Zenon, <2>1 DEF SetPgid
  <2>2. CASE DoTestSetup(p)
    <3>1. context' \in ContextType
      BY Zenon, <2>2, ContextStep DEF DoTestSetup
    <3> QED BY Zenon, <2>2, <3>1 DEF DoTestSetup
  <2>3. CASE Heartbeat(p)
    <3>1. results' \subseteq Ttype /\ reported' \in BOOLEAN
      BY Zenon, <2>3, UpdateScalars DEF Heartbeat, Ttype
    <3> QED BY Zenon, <2>3, <3>1 DEF Heartbeat
  <2>4. CASE Beat(p)
    <3>1. alarm' \in BOOLEAN
      BY Zenon, <2>4, ContextStep DEF Beat
    <3> QED BY <2>4, <3>1 DEF Beat
  <2>5. CASE TestrunLoop(p)
    <3>1. reported' \in BOOLEAN /\ calls' \in Nat /\ cleaned' \subseteq Pid
      <4>1. \/ RunTest(p) /\ UNCHANGED cleaned
            \/ DoTestCleanup(p, "exit") /\ UNCHANGED <<reported, calls>>
        BY Zenon, <2>5 DEF TestrunLoop
      <4>2. calls' = calls + 1 \/ calls' = calls
        BY Zenon, <4>1 DEF RunTest
      <4>3. calls' \in Nat
        BY <4>2
      <4>4. reported' \in BOOLEAN /\ cleaned' \subseteq Pid
        BY Zenon, <4>1 DEF RunTest, DoTestCleanup
      <4> QED BY Zenon, <4>3, <4>4
    <3> QED BY Zenon, <2>5, <3>1 DEF TestrunLoop
  <2>6. CASE ReapChildren(p)
    <3>1. /\ UNCHANGED <<lib, context, hist, env>>
          /\ \/ Update("TBROK") /\ UNCHANGED calls
             \/ UNCHANGED <<results, reported, calls>>
             \/ RunTest(p) /\ UNCHANGED results
      BY Zenon, <2>6 DEF ReapChildren, Brk
    <3>2. results' \subseteq Ttype /\ reported' \in BOOLEAN /\ calls' \in Nat
      <4>1. CASE Update("TBROK") /\ UNCHANGED calls
        BY Zenon, <4>1, UpdateScalars DEF Ttype
      <4>2. CASE RunTest(p) /\ UNCHANGED results
        <5>1. calls' = calls + 1 /\ reported' = FALSE
          BY Zenon, <4>2 DEF RunTest
        <5>2. calls' \in Nat
          BY <5>1
        <5> QED BY Zenon, <4>2, <5>1, <5>2
      <4> QED BY Zenon, <3>1, <4>1, <4>2
    <3> QED BY Zenon, <3>1, <3>2
  <2>7. CASE BrkCleanup(p)
    BY Zenon, <2>7 DEF BrkCleanup, DoTestCleanup
  <2>8. CASE BrkAbort(p)
    <3>1. context' \in ContextType
      BY Zenon, <2>8, ContextStep DEF BrkAbort
    <3> QED BY Zenon, <2>8, <3>1 DEF BrkAbort
  <2>9. CASE BrkKill(p)
    BY Zenon, <2>9 DEF BrkKill
  <2>10. CASE CleanupReturns(p)
    BY Zenon, <2>10 DEF CleanupReturns
  <2>11. CASE Report(p)
    BY ZenonT(60), <2>11 DEF Report, Update, Ttype
  <2>12. CASE TestBrk(p)
    BY Zenon, <2>12 DEF TestBrk, Brk, Update, Ttype
  <2>13. CASE SafeFork(p)
    <3>1. results' \subseteq Ttype /\ reported' \in BOOLEAN
      BY Zenon, <2>13, UpdateScalars DEF SafeFork, Brk, Ttype
    <3> QED BY Zenon, <2>13, <3>1 DEF SafeFork
  <2>14. CASE SafeWait(p)
    BY Zenon, <2>14 DEF SafeWait
  <2>15. CASE SetTimeout(p)
    <3>1. context' \in ContextType
      BY Zenon, <2>15, ContextStep DEF SetTimeout
    <3>2. resets' \in Nat
      BY <2>15 DEF SetTimeout
    <3> QED BY Zenon, <2>15, <3>1, <3>2 DEF SetTimeout
  <2>16. CASE BodyReturns(p)
    <3>1. results' \subseteq Ttype /\ reported' \in BOOLEAN
      BY Zenon, <2>16, UpdateScalars DEF BodyReturns, Brk, Ttype
    <3> QED BY Zenon, <2>16, <3>1 DEF BodyReturns
  <2>17. CASE Crash(p)
    BY Zenon, <2>17 DEF Crash
  <2>18. CASE Stick(p)
    BY Zenon, <2>18 DEF Stick
  <2>19. CASE Taint(p)
    BY Zenon, <2>19 DEF Taint
  <2>20. CASE SigkillDelivered(p)
    BY Zenon, <2>20 DEF SigkillDelivered
  <2> QED BY Zenon, <1>12, <2>1, <2>2, <2>3, <2>4, <2>5, <2>6, <2>7, <2>8, <2>9, <2>10,
             <2>11, <2>12, <2>13, <2>14, <2>15, <2>16, <2>17, <2>18, <2>19, <2>20 DEF Process
<1>13. CASE UNCHANGED vars
  BY ZenonT(60), <1>13 DEF vars
<1> QED BY Zenon, <1>1, <1>2, <1>3, <1>4, <1>5, <1>6, <1>7, <1>8, <1>9, <1>10, <1>11,
           <1>12, <1>13 DEF Next, Library, Fault

\* The variables keep their types and the library's place agrees with its child.
LEMMA TypeInvariant == Spec => []TypeInv
<1>1. Init => TypeInv
  <2> SUFFICES ASSUME Init PROVE TypeInv
    OBVIOUS
  <2>1. NoProc \in Entry
    BY Zenon DEF NoProc, Entry, ProcRecord
  <2>2. proc \in Table
    BY Zenon, <2>1 DEF Init, Table
  <2>3. ScalarOK /\ Control
    <3>1. context \in ContextType
      BY Zenon, TestsAssumption DEF Init, ContextType
    <3>2. run \in 1..Runs /\ sigkill_retries \in 0..(MaxRetries + 1)
          /\ resets \in Nat /\ Control
      BY RunsAssumption, RetriesAssumption DEF Init, Control
    <3> QED BY Zenon, <3>1, <3>2 DEF Init, ScalarOK
  <2> QED BY Zenon, <2>2, <2>3 DEF TypeInv, TypeOK, ScalarOK, ContextType, Table, Entry
<1>2. TypeInv /\ [Next]_vars => TypeInv'
  <2> SUFFICES ASSUME TypeInv, [Next]_vars PROVE TypeInv'
    OBVIOUS
  <2>1. proc' \in Table
    BY Zenon, TableStep
  <2>2. ScalarOK /\ Control
    BY Zenon DEF TypeInv, TypeOK, ScalarOK, ContextType
  <2>3. ScalarOK' /\ Control'
    BY Zenon, <2>2, ScalarStep
  <2> QED BY Zenon, <2>1, <2>3 DEF TypeInv, TypeOK, ScalarOK, ContextType, Table, Entry
<1> QED BY <1>1, <1>2, PTL DEF Spec

\* Type correctness of the harness: the variables of lib/tst_test.c keep their
\* ranges, the process table is well-formed whatever dies when, and
\* alarm_handler() never counts past its last retry.
THEOREM TypeCorrect == Spec => []TypeOK
<1>1. TypeInv => TypeOK
  BY Zenon DEF TypeInv
<1> QED BY <1>1, TypeInvariant, PTL

-----------------------------------------------------------------------------
(* Nothing is left running when fork_testrun() returns *)

\* A live process is doomed, or belongs to the test the library is waiting for
\* or was waiting for when it died: the main process on its way into its process
\* group, or a member of it.
Watched(p) ==
  /\ lpc \in {"wait", "reaped", "dead"}
  /\ \/ proc[p].grp = test_pid /\ proc[p].pc # "start"
     \/ p = test_pid /\ proc[p].pc = "start"

Guarded == tst_test.forks_child /\ ~(tst_test.taint_check /\ tainted)

LeftInv ==
  /\ Guarded => \A p \in Live : proc[p].killed \/ Watched(p)
  /\ lpc \in {"wait", "reaped"} => test_pid \notin Free
  /\ lpc = "reaped" => test_pid \notin Live

\* q is no more alive, in the same group and as doomed in r as it is now.
Tame(q, r) ==
  /\ r.pc \in Running =>
       /\ proc[q].pc \in Running
       /\ r.grp = proc[q].grp
       /\ proc[q].killed => r.killed
       /\ r.pc = "start" <=> proc[q].pc = "start"
  /\ r.pc = "none" => proc[q].pc = "none"

TameTable(f) == \A q \in Pid : Tame(q, f[q])

\* A SIGKILL leaves a tame process tame.
LEMMA KillTame ==
  ASSUME proc \in Table, NEW S
  PROVE TameTable(Kill(S))
<1>1. ASSUME NEW q \in Pid
      PROVE Tame(q, proc[q]) /\ Tame(q, [proc[q] EXCEPT !.killed = TRUE])
  BY Zenon DEF Table, Entry, ProcRecord, Tame
<1> QED BY Zenon, <1>1 DEF TameTable, Kill

\* So does its adoption by init.
LEMMA AdoptedTame ==
  ASSUME proc \in Table, NEW q \in Pid
  PROVE Tame(q, Adopted(q)) /\ Tame(q, Gone) /\ Tame(q, proc[q])
<1>1. proc[q] \in Entry
  BY Zenon DEF Table
<1>2. Gone.pc \notin Running \cup {"none"}
  BY Zenon DEF Gone, NoProc, Running, Body
<1>3. Tame(q, [proc[q] EXCEPT !.parent = InitPid])
  BY Zenon, <1>1 DEF Entry, ProcRecord, Tame
<1> QED BY Zenon, <1>2, <1>3 DEF Tame, Adopted

\* So does the death of a process.
LEMMA DiedTame ==
  ASSUME proc \in Table, NEW p \in Pid, NEW s
  PROVE TameTable(Died(p, s))
<1>1. ASSUME NEW q \in Pid
      PROVE Tame(q, [proc[q] EXCEPT !.pc = "zombie", !.cont = s, !.killed = FALSE])
  <2>1. proc[q] \in Entry
    BY Zenon DEF Table
  <2>2. [proc[q] EXCEPT !.pc = "zombie", !.cont = s, !.killed = FALSE].pc = "zombie"
    BY Zenon, <2>1 DEF Entry, ProcRecord
  <2> QED BY Zenon, <2>2 DEF Tame, Running, Body
<1> QED BY Zenon, <1>1, AdoptedTame DEF TameTable, Died

\* One process moves to another control point.
LEMMA CallsTame ==
  ASSUME proc \in Table, NEW p \in Pid, proc[p].pc \in Running \ {"start"},
         NEW l, l \notin {"start", "none"}, NEW c, Calls(p, l, c) \/ Goto(p, l)
  PROVE TameTable(proc')
<1>1. proc[p] \in Entry
  BY Zenon DEF Table
<1>2. /\ Tame(p, [proc[p] EXCEPT !.pc = l, !.cont = c])
      /\ Tame(p, [proc[p] EXCEPT !.pc = l])
  BY Zenon, <1>1 DEF Entry, ProcRecord, Tame
<1>3. \/ proc' = [proc EXCEPT ![p] = [proc[p] EXCEPT !.pc = l, !.cont = c]]
      \/ proc' = [proc EXCEPT ![p] = [proc[p] EXCEPT !.pc = l]]
  BY Zenon DEF Calls, Goto, Table
<1>4. \A q \in Pid : Tame(q, proc[q])
  BY Zenon, AdoptedTame
<1> QED BY Zenon, <1>2, <1>3, <1>4 DEF Table, TameTable

\* Every step is tame, but the three that make a process or move one into its
\* group.
LEMMA TameStep ==
  ASSUME TypeInv, [Next]_vars, ~ForkTestrun,
         \A p \in Pid : ~SetPgid(p) /\ ~SafeFork(p)
  PROVE TameTable(proc')
<1> USE DEF TypeInv
<1>1. CASE UNCHANGED proc
  BY Zenon, <1>1, AdoptedTame DEF TameTable
<1>2. CASE WaitTest
  <2>1. test_pid \in Pid
    BY Zenon, <1>2 DEF WaitTest, Control
  <2>2. proc'[test_pid].pc = "gone" /\ \A q \in Pid : q # test_pid => proc'[q] = proc[q]
    BY Zenon, <1>2, <2>1 DEF WaitTest, Table, Entry, ProcRecord
  <2>3. Tame(test_pid, proc'[test_pid])
    BY Zenon, <2>2 DEF Tame, Running, Body
  <2> QED BY Zenon, <2>2, <2>3, AdoptedTame DEF TameTable
<1>3. CASE CheckTaint \/ SigintHandler
  BY Zenon, <1>1, <1>3, KillTame DEF CheckTaint, SigintHandler
<1>4. CASE AlarmHandler
  <2> DEFINE k == IF lpc = "exit" THEN proc ELSE Kill(Group(test_pid))
             a(p) == IF k[p].parent # LibPid THEN k[p]
                     ELSE [k[p] EXCEPT !.parent = InitPid]
  <2>1. k \in Table /\ TameTable(k)
    BY Zenon, KillType, KillTame, AdoptedTame DEF TameTable
  <2>2. ASSUME NEW q \in Pid PROVE Tame(q, a(q))
    <3>1. k[q] \in Entry /\ Tame(q, k[q])
      BY Zenon, <2>1 DEF Table, TameTable
    <3>2. Tame(q, [k[q] EXCEPT !.parent = InitPid])
      BY Zenon, <3>1 DEF Entry, ProcRecord, Tame
    <3> QED BY Zenon, <3>1, <3>2
  <2>3. proc' = k \/ proc' = [p \in Pid |-> a(p)]
    BY Zenon, <1>4 DEF AlarmHandler
  <2> QED BY Zenon, <2>1, <2>2, <2>3 DEF TameTable
<1>5. CASE LibKilled
  BY Zenon, <1>5, AdoptedTame DEF LibKilled, TameTable
<1>6. ASSUME NEW p \in Pid, Process(p) \/ SigkillDelivered(p) \/ Crash(p) \/ Stick(p)
      PROVE TameTable(proc')
  <2>1. proc[p] \in Entry
    BY Zenon DEF Table
  <2>2. CASE \E s : proc' = Died(p, s)
    BY Zenon, <2>2, DiedTame
  <2>3. CASE DoTestSetup(p) \/ Stick(p)
    BY Zenon, <2>3, CallsTame DEF DoTestSetup, Stick, Running, Body
  <2>4. CASE Heartbeat(p)
    BY Zenon, <2>4, KillTame, CallsTame DEF Heartbeat, Running
  <2>5. CASE Beat(p)
    <3> DEFINE l == IF proc[p].cont = "call" THEN "test" ELSE proc[p].cont
               g == [proc[p] EXCEPT !.pc = l, !.cont = "none"]
    <3>1. l \notin {"start", "none"} /\ proc[p].pc = "beat"
      BY Zenon, <2>1, <2>5 DEF Beat, Entry, Returns
    <3>2. g.pc = l /\ g.grp = proc[p].grp /\ g.killed = proc[p].killed
          /\ [g EXCEPT !.parent = InitPid].pc = l
          /\ [g EXCEPT !.parent = InitPid].grp = proc[p].grp
          /\ [g EXCEPT !.parent = InitPid].killed = proc[p].killed
      BY Zenon, <2>1 DEF Entry, ProcRecord
    <3>3. Tame(p, g) /\ Tame(p, [g EXCEPT !.parent = InitPid])
      BY Zenon, <3>1, <3>2 DEF Tame, Running
    <3>4. [proc EXCEPT ![p].pc = l, ![p].cont = "none"] = [proc EXCEPT ![p] = g]
          /\ [proc EXCEPT ![p] = g][p] = g
      BY Zenon DEF Table
    <3>5. \/ proc' = [proc EXCEPT ![p] = g]
          \/ \E q \in Live :
               proc' = [Died(q, "signal") EXCEPT ![p] = [g EXCEPT !.parent = InitPid]]
      BY Zenon, <2>5, <3>4 DEF Beat
    <3>6. CASE proc' = [proc EXCEPT ![p] = g]
      BY Zenon, <3>3, <3>6, AdoptedTame DEF Table, TameTable
    <3>7. ASSUME NEW q \in Live,
                 proc' = [Died(q, "signal") EXCEPT ![p] = [g EXCEPT !.parent = InitPid]]
          PROVE TameTable(proc')
      <4>1. TameTable(Died(q, "signal")) /\ Died(q, "signal") \in Table
        BY Zenon, DiedTame, DiedType DEF Live, Status
      <4> QED BY Zenon, <3>3, <3>7, <4>1 DEF Table, TameTable
    <3> QED BY Zenon, <3>5, <3>6, <3>7
  <2>6. CASE \E l, c : /\ l \in {"hb", "brk", "cleanup", "loop", "reap", "abort", "kill"}
                       /\ Calls(p, l, c) \/ Goto(p, l)
                       /\ proc[p].pc \in Running \ {"start"}
    BY Zenon, <2>6, CallsTame
  <2>7. CASE ReapChildren(p)
    <3>1. ASSUME NEW q \in Pid, proc[q].pc = "zombie", proc[p].pc = "reap",
                 \/ proc' = [proc EXCEPT ![q] = Gone]
                 \/ proc' = [proc EXCEPT ![q] = Gone, ![p].pc = "brk", ![p].cont = "abort"]
          PROVE TameTable(proc')
      <4> DEFINE r == [proc[p] EXCEPT !.pc = "brk", !.cont = "abort"]
      <4>1. q # p
        BY Zenon, <3>1
      <4>2. Tame(p, r)
        BY Zenon, <2>1, <3>1 DEF Entry, ProcRecord, Tame, Running
      <4>3. \/ proc' = [proc EXCEPT ![q] = Gone]
            \/ proc' = [proc EXCEPT ![q] = Gone, ![p] = r]
        BY Zenon, <3>1, <4>1 DEF Table
      <4> QED BY Zenon, <4>1, <4>2, <4>3, AdoptedTame DEF Table, TameTable
    <3>2. CASE \E q \in Children(p) :
                 /\ proc[q].pc = "zombie"
                 /\ \/ proc' = [proc EXCEPT ![q] = Gone]
                    \/ proc' = [proc EXCEPT ![q] = Gone, ![p].pc = "brk", ![p].cont = "abort"]
      BY Zenon, <2>7, <3>1, <3>2 DEF Children, ReapChildren
    <3>3. CASE Calls(p, "hb", "call") \/ Calls(p, "hb", "loop") \/ Calls(p, "brk", "abort")
      BY <2>6, <2>7, <3>3 DEF ReapChildren, Running
    <3> QED BY Zenon, <2>7, <3>2, <3>3 DEF ReapChildren, Brk, RunTest
  <2>8. CASE BrkCleanup(p) \/ CleanupReturns(p)
    <3>1. proc[p].pc \in Running \ {"start"}
      BY Zenon, <2>8 DEF BrkCleanup, CleanupReturns, Running
    <3>2. CASE proc' = [proc EXCEPT ![p].pc = "abort", ![p].cont = "none"]
      <4>1. Calls(p, "abort", "none")
        BY Zenon, <3>2 DEF Calls
      <4> QED BY <2>6, <3>1, <4>1
    <3>3. CASE Calls(p, "cleanup", proc[p].cont)
      BY <2>6, <3>1, <3>3
    <3> QED BY Zenon, <2>2, <2>8, <3>2, <3>3 DEF BrkCleanup, CleanupReturns, DoTestCleanup
  <2>9. CASE BrkAbort(p)
    BY Zenon, <2>2, <2>6, <2>9 DEF BrkAbort, Running
  <2>10. CASE BrkKill(p)
    <3> DEFINE d == Died(p, "ok")
               m == context.main_pid
               r == [d[m] EXCEPT !.killed = @ \/ m \in Live]
    <3>1. d \in Table /\ TameTable(d)
      BY Zenon, DiedType, DiedTame DEF Status
    <3>2. CASE m \notin Pid
      BY Zenon, <2>10, <3>1, <3>2 DEF BrkKill, Table
    <3>3. CASE m \in Pid
      <4>1. d[m] \in Entry /\ Tame(m, d[m])
        BY Zenon, <3>1, <3>3 DEF Table, TameTable
      <4>2. r.pc = d[m].pc /\ r.grp = d[m].grp /\ (d[m].killed => r.killed)
        BY Zenon, <4>1 DEF Entry, ProcRecord
      <4>3. Tame(m, r)
        BY Zenon, <4>1, <4>2 DEF Tame
      <4>4. proc' = [d EXCEPT ![m] = r]
        BY Zenon, <2>10, <3>1, <3>3 DEF BrkKill, Table
      <4> QED BY Zenon, <3>1, <4>3, <4>4 DEF Table, TameTable
    <3> QED BY Zenon, <3>2, <3>3
  <2>11. CASE Report(p)
    BY Zenon, <1>1, <2>11 DEF Report
  <2>12. CASE SafeWait(p)
    BY Zenon, <2>12, AdoptedTame DEF SafeWait, Children, Table, TameTable
  <2>13. CASE BodyReturns(p)
    BY Zenon, <2>2, <2>6, <2>13 DEF BodyReturns, Brk, Running, Body
  <2>14. CASE TestrunLoop(p) \/ TestBrk(p) \/ SetTimeout(p)
    BY <2>6, <2>14 DEF TestrunLoop, RunTest, DoTestCleanup, TestBrk, Brk, SetTimeout,
      Running, Body
  <2>15. CASE Crash(p) \/ SigkillDelivered(p)
    BY Zenon, <2>2, <2>15 DEF Crash, SigkillDelivered
  <2> QED BY Zenon, <1>6, <2>3, <2>4, <2>5, <2>7, <2>8, <2>9, <2>10, <2>11, <2>12, <2>13,
             <2>14, <2>15 DEF Process
<1>7. CASE \/ RunTcaseOnFs \/ Arm \/ Judge \/ NextRun \/ DoExit
           \/ (\E p \in Pid : Taint(p)) \/ UNCHANGED vars
  BY Zenon, <1>1, <1>7 DEF RunTcaseOnFs, Arm, Judge, NextRun, DoExit, Taint, vars
<1> QED BY Zenon, <1>2, <1>3, <1>4, <1>5, <1>6, <1>7 DEF Next, Library, Fault

\* A tame step keeps the invariant, as long as the library goes on waiting for
\* the same process, or was not waiting.
LEMMA TameKeeps ==
  ASSUME LeftInv, TameTable(proc'), test_pid' = test_pid,
         Guarded' => Guarded,
         \/ lpc' = lpc
         \/ lpc = "wait" /\ lpc' = "dead"
         \/ lpc = "reaped" /\ lpc' = "dead"
         \/ lpc \notin {"wait", "reaped", "dead"} /\ lpc' \notin {"wait", "reaped"}
  PROVE LeftInv'
<1>1. ASSUME NEW p \in Live' PROVE p \in Live /\ Tame(p, proc'[p])
  BY Zenon, <1>1 DEF Live, TameTable, Tame
<1>2. ASSUME Guarded', NEW p \in Live'
      PROVE proc'[p].killed \/ Watched(p)'
  BY Zenon, <1>1, <1>2 DEF LeftInv, Watched, Tame, Live
<1>3. lpc' = "reaped" => test_pid' \notin Live'
  BY Zenon, <1>1 DEF LeftInv
<1>4. lpc' \in {"wait", "reaped"} => test_pid' \notin Free'
  BY Zenon DEF LeftInv, Free, TameTable, Tame
<1> QED BY Zenon, <1>2, <1>3, <1>4 DEF LeftInv

\* Every step keeps the leftovers of a finished test marked for SIGKILL.
LEMMA LeftStep ==
  ASSUME TypeInv, LeftInv, [Next]_vars
  PROVE LeftInv'
<1> USE DEF TypeInv
<1>1. CASE ForkTestrun
  <2>1. CASE UNCHANGED <<test_pid, proc>> /\ lpc' = "exit"
    BY Zenon, <1>1, <2>1 DEF ForkTestrun, LeftInv, Live, Watched, Guarded, env
  <2>2. ASSUME NEW p \in Free, test_pid' = p, lpc' = "wait",
               proc' = [proc EXCEPT ![p] = [NoProc EXCEPT
                          !.pc = "start", !.parent = LibPid, !.grp = LibPid]]
        PROVE LeftInv'
    <3>1. proc'[p].pc = "start" /\ \A q \in Pid : q # p => proc'[q] = proc[q]
      BY Zenon, <2>2 DEF Table, Free, NoProc
    <3>2. Guarded' => Guarded
      BY Zenon, <1>1 DEF ForkTestrun, Guarded, env
    <3>3. ASSUME NEW q \in Live', Guarded' PROVE proc'[q].killed \/ Watched(q)'
      BY Zenon, <1>1, <2>2, <3>1, <3>2, <3>3 DEF LeftInv, Watched, Live, ForkTestrun
    <3> QED BY Zenon, <2>2, <3>1, <3>3 DEF LeftInv, Free
  <2> QED BY Zenon, <1>1, <2>1, <2>2, FreshFree DEF ForkTestrun, LibBrk
<1>2. ASSUME NEW p \in Pid, SetPgid(p) PROVE LeftInv'
  <2>1. /\ proc'[p].grp = p /\ proc'[p].pc = "hb" /\ proc'[p].killed = proc[p].killed
        /\ \A q \in Pid : q # p => proc'[q] = proc[q]
    BY Zenon, <1>2 DEF SetPgid, Table, Entry, ProcRecord
  <2>2. UNCHANGED <<lpc, test_pid, tst_test, tainted>> /\ proc[p].pc = "start"
    BY Zenon, <1>2 DEF SetPgid, lib, env
  <2>3. p \in Live /\ \A q \in Live' : q \in Live
    BY Zenon, <2>1, <2>2 DEF Live, Running
  <2>4. ASSUME NEW q \in Live', Guarded'
        PROVE proc'[q].killed \/ Watched(q)'
    BY <2>1, <2>2, <2>3, <2>4 DEF LeftInv, Watched, Guarded, Live
  <2>5. /\ lpc' \in {"wait", "reaped"} => test_pid' \notin Free'
        /\ lpc' = "reaped" => test_pid' \notin Live'
    BY Zenon, <2>1, <2>2, <2>3 DEF LeftInv, Free
  <2> QED BY Zenon, <2>4, <2>5 DEF LeftInv
<1>3. ASSUME NEW p \in Pid, SafeFork(p) PROVE LeftInv'
  <2>1. UNCHANGED <<lpc, test_pid, tst_test, tainted>> /\ proc[p].pc \in Running \ {"start"}
    BY Zenon, <1>3 DEF SafeFork, lib, env, Body, Running
  <2>2. CASE Brk(p, "TBROK")
    <3>1. TameTable(proc')
      BY Zenon, <2>1, <2>2, CallsTame DEF Brk
    <3> QED BY Zenon, <2>1, <3>1, TameKeeps DEF Guarded
  <2>3. ASSUME NEW q \in Free, proc[p].pc \in Body, ~proc[p].killed,
               proc' = [proc EXCEPT ![q] =
                 [NoProc EXCEPT !.pc = proc[p].pc, !.parent = p, !.grp = proc[p].grp]]
        PROVE LeftInv'
    <3>1. /\ proc'[q].pc = proc[p].pc /\ proc'[q].grp = proc[p].grp
          /\ \A o \in Pid : o # q => proc'[o] = proc[o]
      BY Zenon, <2>3 DEF Table, Free, NoProc
    <3>2. p \in Live /\ q \notin Live
      BY Zenon, <2>1, <2>3 DEF Live, Free, Running, Body
    <3>3. ASSUME NEW o \in Live', Guarded'
          PROVE proc'[o].killed \/ Watched(o)'
      <4>1. CASE o = q
        <5>1. Watched(p)
          BY Zenon, <2>1, <2>3, <3>2, <3>3 DEF LeftInv, Guarded
        <5> QED BY Zenon, <2>1, <3>1, <4>1, <5>1 DEF Watched
      <4>2. CASE o # q
        BY Zenon, <2>1, <3>1, <3>3, <4>2 DEF LeftInv, Guarded, Watched, Live
      <4> QED BY Zenon, <4>1, <4>2
    <3>4. /\ lpc' \in {"wait", "reaped"} => test_pid' \notin Free'
          /\ lpc' = "reaped" => test_pid' \notin Live'
      BY Zenon, <2>1, <3>1 DEF LeftInv, Live, Free
    <3> QED BY Zenon, <3>3, <3>4 DEF LeftInv
  <2> QED BY Zenon, <1>3, <2>2, <2>3, FreshFree DEF SafeFork
<1>4. CASE WaitTest
  <2>1. test_pid \in Pid
    BY Zenon, <1>4 DEF WaitTest, Control
  <2>2. /\ proc'[test_pid].pc = "gone"
        /\ \A q \in Pid : q # test_pid => proc'[q] = proc[q]
        /\ lpc = "wait" /\ lpc' = "reaped" /\ UNCHANGED <<test_pid, tst_test, tainted>>
    BY Zenon, <1>4, <2>1 DEF WaitTest, Table, Entry, ProcRecord, env
  <2>3. test_pid' \notin Live' /\ test_pid' \notin Free'
    BY Zenon, <2>2 DEF Live, Free, Running, Body
  <2>4. ASSUME NEW q \in Live', Guarded' PROVE proc'[q].killed \/ Watched(q)'
    BY Zenon, <2>2, <2>3, <2>4 DEF LeftInv, Guarded, Watched, Live
  <2> QED BY Zenon, <2>3, <2>4 DEF LeftInv
<1>5. CASE CheckTaint
  <2>1. TameTable(proc')
    BY Zenon, <1>5, KillTame, AdoptedTame DEF CheckTaint, TameTable
  <2>2. lpc = "reaped" /\ lpc' \in {"next", "judge"} /\ UNCHANGED <<tst_test, tainted>>
    BY Zenon, <1>5 DEF CheckTaint, env
  <2>3. ASSUME NEW q \in Live', Guarded' PROVE proc'[q].killed
    <3>1. q \in Live /\ Tame(q, proc'[q])
      BY Zenon, <2>1, <2>3 DEF Live, TameTable, Tame
    <3>2. CASE proc[q].killed
      BY Zenon, <2>3, <3>1, <3>2 DEF Tame, Live
    <3>3. CASE ~proc[q].killed
      <4>1. q \in Group(test_pid)
        BY Zenon, <2>2, <2>3, <3>1, <3>3 DEF LeftInv, Guarded, Watched, Group
      <4>2. proc' = Kill(Group(test_pid))
        BY Zenon, <1>5, <2>2, <2>3 DEF CheckTaint, Guarded
      <4> QED BY Zenon, <3>1, <4>1, <4>2 DEF Kill, Live, Table, Entry, ProcRecord
    <3> QED BY Zenon, <3>2, <3>3
  <2> QED BY Zenon, <2>2, <2>3 DEF LeftInv
<1>6. CASE /\ ~ForkTestrun /\ ~WaitTest /\ ~CheckTaint
           /\ \A p \in Pid : ~SetPgid(p) /\ ~SafeFork(p)
  <2>1. TameTable(proc')
    BY Zenon, <1>6, TameStep
  <2>2. UNCHANGED <<test_pid, tst_test>> /\ (tainted' = tainted \/ tainted' = TRUE)
    BY ZenonT(60), <1>6 DEF Next, Library, Fault, Process, RunTcaseOnFs, Arm, Judge, NextRun,
      DoExit, AlarmHandler, SigintHandler, LibKilled, DoTestSetup, Heartbeat, Beat,
      TestrunLoop, ReapChildren, BrkCleanup, BrkAbort, BrkKill, CleanupReturns,
      Report, TestBrk, SafeWait, SetTimeout, BodyReturns, Crash, Stick, Taint,
      SigkillDelivered, vars, lib, env
  <2>3. \/ lpc' = lpc
        \/ lpc = "wait" /\ lpc' = "dead"
        \/ lpc = "reaped" /\ lpc' = "dead"
        \/ lpc \notin {"wait", "reaped", "dead"} /\ lpc' \notin {"wait", "reaped"}
    BY ZenonT(60), <1>6 DEF Next, Library, Fault, Process, RunTcaseOnFs, Arm, Judge, NextRun,
      DoExit, AlarmHandler, SigintHandler, LibKilled, LibBrk, DoTestSetup, Heartbeat,
      Beat, TestrunLoop, ReapChildren, BrkCleanup, BrkAbort, BrkKill, CleanupReturns,
      Report, TestBrk, SafeWait, SetTimeout, BodyReturns, Crash, Stick, Taint,
      SigkillDelivered, vars, lib
  <2>4. Guarded' => Guarded
    BY Zenon, <2>2 DEF Guarded, TypeOK
  <2> QED BY Zenon, <2>1, <2>2, <2>3, <2>4, TameKeeps
<1> QED BY Zenon, <1>1, <1>2, <1>3, <1>4, <1>5, <1>6

\* No process of a finished test runs on beside the next test or the library's
\* exit without a pending SIGKILL, for any number of processes and any order
\* of forks, deaths, timeouts and interrupts: kill(-test_pid, SIGKILL) reaches
\* all of them because a child is in its parent's group from its first step
\* and a doomed process cannot fork.
THEOREM LeftoversAreKilled == Spec => []LeftoversKilled
<1>1. Init => LeftInv
  BY DEF Init, LeftInv, Live, NoProc, Running, Body
<1>2. TypeInv /\ LeftInv /\ [Next]_vars => LeftInv'
  BY Zenon, LeftStep
<1>3. LeftInv => LeftoversKilled
  BY Zenon DEF LeftInv, LeftoversKilled, Guarded, Watched
<1> QED BY <1>1, <1>2, <1>3, TypeInvariant, PTL DEF Spec

-----------------------------------------------------------------------------
(* What a step does to the processes, as far as control goes *)

\* Only a signal became pending or init adopted the process.
Still(q, r) ==
  /\ r.pc = proc[q].pc
  /\ r.cont = proc[q].cont
  /\ \/ r.parent = proc[q].parent
     \/ proc[q].parent \in Pid /\ r.parent = InitPid

\* It was killed, or a dead one was reaped.
Ended(q, r) ==
  /\ proc[q].pc \in Running \cup {"zombie"}
  /\ \/ r.pc = "gone" /\ r.parent # q
     \/ r.pc = "zombie" /\ proc[q].pc # "zombie" /\ r.cont # "ok" /\ r.parent # q

\* It was forked by a test process.
Born(q, r) == proc[q].pc = "none" /\ r.pc \in Body /\ r.parent \in Pid \ {q}

Quiet(q, r) == Still(q, r) \/ Ended(q, r) \/ Born(q, r)
Others(p) == \A q \in Pid \ {p} : Quiet(q, proc'[q])

\* The process that takes the step goes to l, or dies with status s.
Kept(p) ==
  \/ proc'[p].parent = proc[p].parent
  \/ proc[p].parent \in Pid /\ proc'[p].parent = InitPid
Acts(p, l, c) == proc'[p].pc = l /\ proc'[p].cont = c /\ Kept(p)
Dies(p, s) ==
  /\ proc'[p].pc \in {"zombie", "gone"}
  /\ proc'[p].pc = "zombie" => proc'[p].cont = s
  /\ proc'[p].parent # p

\* No process is its own parent.
NoLoop == \A p \in Pid : proc[p].parent # p

\* A process whose entry does not change is quiet.
LEMMA StillSelf ==
  ASSUME proc \in Table, NEW q \in Pid
  PROVE Quiet(q, proc[q])
  BY Zenon DEF Quiet, Still

\* So is one that is sent SIGKILL.
LEMMA KillQuiet ==
  ASSUME proc \in Table, NEW S, NEW q \in Pid
  PROVE Still(q, Kill(S)[q])
<1>1. proc[q] \in Entry
  BY Zenon DEF Table
<1>2. Still(q, proc[q]) /\ Still(q, [proc[q] EXCEPT !.killed = TRUE])
  BY Zenon, <1>1 DEF Entry, ProcRecord, Still
<1> QED BY Zenon, <1>2 DEF Kill

\* A process that was reaped.
LEMMA GoneFields == Gone.pc = "gone" /\ Gone.cont = "none" /\ Gone.parent = NoPid
  BY Zenon DEF Gone, NoProc

\* So are the others when a process dies.
LEMMA DiedQuiet ==
  ASSUME proc \in Table, NEW p \in Pid, NEW s \in Status, NEW q \in Pid \ {p}
  PROVE Quiet(q, Died(p, s)[q])
<1>1. proc[q] \in Entry
  BY Zenon DEF Table
<1>2. CASE q \in Children(p)
  <2>1. Died(p, s)[q] = Adopted(q)
    BY Zenon, <1>2 DEF Died
  <2>2. CASE proc[q].pc = "zombie"
    <3>1. Ended(q, Gone)
      BY Zenon, <2>2, GoneFields, PidAssumption DEF Ended
    <3> QED BY Zenon, <2>1, <2>2, <3>1 DEF Adopted, Quiet
  <2>3. CASE proc[q].pc # "zombie"
    <3>1. Still(q, [proc[q] EXCEPT !.parent = InitPid])
      BY Zenon, <1>1, <1>2 DEF Entry, ProcRecord, Still, Children
    <3> QED BY Zenon, <2>1, <2>3, <3>1 DEF Adopted, Quiet
  <2> QED BY Zenon, <2>2, <2>3
<1>3. CASE q \notin Children(p)
  <2>1. Died(p, s)[q] = proc[q]
    BY Zenon, <1>3 DEF Died
  <2> QED BY Zenon, <2>1, StillSelf
<1> QED BY Zenon, <1>2, <1>3

\* The process that dies is a zombie with its status, or gone at once.
LEMMA DiedSelf ==
  ASSUME proc \in Table, NoLoop, NEW p \in Pid, NEW s \in Status
  PROVE /\ Died(p, s)[p].pc \in {"zombie", "gone"}
        /\ Died(p, s)[p].pc = "zombie" => Died(p, s)[p].cont = s
        /\ Died(p, s)[p].parent # p
<1>1. proc[p] \in Entry /\ proc[p].parent # p
  BY Zenon DEF Table, NoLoop
<1>2. p \notin Children(p)
  BY Zenon, <1>1 DEF Children
<1>3. Died(p, s)[p] = IF proc[p].parent = InitPid THEN Gone
                      ELSE [proc[p] EXCEPT !.pc = "zombie", !.cont = s, !.killed = FALSE]
  BY Zenon, <1>2 DEF Died
<1>4. LET r == [proc[p] EXCEPT !.pc = "zombie", !.cont = s, !.killed = FALSE]
      IN r.pc = "zombie" /\ r.cont = s /\ r.parent = proc[p].parent
  BY Zenon, <1>1 DEF Entry, ProcRecord
<1> QED BY Zenon, <1>1, <1>3, <1>4, GoneFields, PidAssumption

\* The two facts about a death together.
LEMMA DiesStep ==
  ASSUME proc \in Table, NoLoop, NEW p \in Pid, NEW s \in Status, proc' = Died(p, s)
  PROVE Others(p) /\ Dies(p, s)
  BY Zenon, DiedQuiet, DiedSelf DEF Others, Dies

\* A step into a call moves the process that takes it and no other.
LEMMA CallsStep ==
  ASSUME proc \in Table, NEW p \in Pid, NEW l, NEW c, Calls(p, l, c)
  PROVE Others(p) /\ Acts(p, l, c)
<1>1. proc[p] \in Entry
  BY Zenon DEF Table
<1>2. proc' = [proc EXCEPT ![p] = [proc[p] EXCEPT !.pc = l, !.cont = c]]
  BY Zenon DEF Calls, Table
<1>3. proc'[p] = [proc[p] EXCEPT !.pc = l, !.cont = c]
      /\ \A q \in Pid \ {p} : proc'[q] = proc[q]
  BY Zenon, <1>2 DEF Table
<1>4. Acts(p, l, c)
  BY Zenon, <1>1, <1>3 DEF Acts, Kept, Entry, ProcRecord
<1> QED BY Zenon, <1>3, <1>4, StillSelf DEF Others

\* So does a step to another place.
LEMMA GotoStep ==
  ASSUME proc \in Table, NEW p \in Pid, NEW l, Goto(p, l)
  PROVE Others(p) /\ Acts(p, l, proc[p].cont)
<1>1. proc[p] \in Entry
  BY Zenon DEF Table
<1>2. proc' = [proc EXCEPT ![p] = [proc[p] EXCEPT !.pc = l]]
  BY Zenon DEF Goto, Table
<1>3. proc'[p] = [proc[p] EXCEPT !.pc = l]
      /\ \A q \in Pid \ {p} : proc'[q] = proc[q]
  BY Zenon, <1>2 DEF Table
<1>4. Acts(p, l, proc[p].cont)
  BY Zenon, <1>1, <1>3 DEF Acts, Kept, Entry, ProcRecord
<1> QED BY Zenon, <1>3, <1>4, StillSelf DEF Others

\* And a step that leaves the table alone.
LEMMA SameStep ==
  ASSUME proc \in Table, NEW p \in Pid, UNCHANGED proc
  PROVE Others(p) /\ Acts(p, proc[p].pc, proc[p].cont)
  BY Zenon, StillSelf DEF Others, Acts, Kept


\* Where every action of a test process leaves it, and leaves the others.
LEMMA SetPgidMoves ==
  ASSUME TypeInv, NoLoop, NEW p \in Pid, SetPgid(p)
  PROVE Others(p) /\ Acts(p, "hb", "presetup")
<1> USE DEF TypeInv
<1>0. proc[p] \in Entry /\ proc \in Table
  BY Zenon DEF Table
<1> DEFINE r == [proc[p] EXCEPT !.grp = p, !.pc = "hb", !.cont = "presetup"]
<1>1. r.pc = "hb" /\ r.cont = "presetup" /\ r.parent = proc[p].parent
  BY Zenon, <1>0 DEF Entry, ProcRecord
<1>2. proc'[p] = r /\ \A q \in Pid \ {p} : proc'[q] = proc[q]
  BY Zenon DEF SetPgid, Table
<1> QED BY Zenon, <1>1, <1>2, StillSelf DEF Others, Acts, Kept

\* What a step of DoTestSetup does to the processes.
LEMMA DoTestSetupMoves ==
  ASSUME TypeInv, NoLoop, NEW p \in Pid, DoTestSetup(p)
  PROVE Others(p) /\ Acts(p, "setup", proc[p].cont)
<1>0. proc[p] \in Entry /\ proc \in Table
  BY Zenon DEF TypeInv, Table
<1> QED BY Zenon, <1>0, GotoStep DEF DoTestSetup

\* What a step of Heartbeat does to the processes.
LEMMA HeartbeatMoves ==
  ASSUME TypeInv, NoLoop, NEW p \in Pid, Heartbeat(p)
  PROVE /\ Others(p)
        /\ \/ Acts(p, "hb", proc[p].cont)
           \/ proc[p].parent # InitPid /\ Acts(p, "beat", proc[p].cont)
<1> USE DEF TypeInv
<1>0. proc[p] \in Entry /\ proc \in Table
  BY Zenon DEF Table
<1>1. CASE proc' = Kill(Group(proc[p].grp))
  <2>1. \A q \in Pid : Still(q, proc'[q])
    BY Zenon, <1>1, KillQuiet
  <2> QED BY Zenon, <2>1 DEF Heartbeat, Others, Quiet, Acts, Kept, Still
<1>2. CASE Goto(p, "beat") /\ proc[p].parent # InitPid
  BY Zenon, <1>2, GotoStep
<1> QED BY Zenon, <1>1, <1>2 DEF Heartbeat

\* What a step of Beat does to the processes.
LEMMA BeatMoves ==
  ASSUME TypeInv, NoLoop, NEW p \in Pid, Beat(p)
  PROVE /\ Others(p)
        /\ Acts(p, IF proc[p].cont = "call" THEN "test" ELSE proc[p].cont, "none")
<1> USE DEF TypeInv
<1>0. proc[p] \in Entry /\ proc \in Table
  BY Zenon DEF Table
<1> USE <1>0
<1> DEFINE l == IF proc[p].cont = "call" THEN "test" ELSE proc[p].cont
           g == [proc[p] EXCEPT !.pc = l, !.cont = "none"]
           h == [g EXCEPT !.parent = InitPid]
<1>1. /\ g.pc = l /\ g.cont = "none" /\ g.parent = proc[p].parent
      /\ h.pc = l /\ h.cont = "none" /\ h.parent = InitPid
  BY Zenon DEF Entry, ProcRecord
<1>2. [proc EXCEPT ![p].pc = l, ![p].cont = "none"] = [proc EXCEPT ![p] = g]
      /\ [proc EXCEPT ![p] = g][p] = g
  BY Zenon DEF Table
<1>3. \/ proc' = [proc EXCEPT ![p] = g]
      \/ /\ proc[p].parent \in Live
         /\ proc' = [Died(proc[p].parent, "signal") EXCEPT ![p] = h]
  BY Zenon, <1>2 DEF Beat
<1>4. CASE proc' = [proc EXCEPT ![p] = g]
  <2>1. proc'[p] = g /\ \A q \in Pid \ {p} : proc'[q] = proc[q]
    BY Zenon, <1>4 DEF Table
  <2> QED BY Zenon, <1>1, <2>1, StillSelf DEF Others, Acts, Kept
<1>5. ASSUME NEW o \in Live, o = proc[p].parent,
             proc' = [Died(o, "signal") EXCEPT ![p] = h]
      PROVE Others(p) /\ Acts(p, l, "none")
  <2>1. o \in Pid /\ "signal" \in Status /\ o # p /\ proc[o].pc \in Running
    BY Zenon, <1>5 DEF Live, Status, NoLoop
  <2>2. Died(o, "signal") \in Table
    BY Zenon, <2>1, DiedType
  <2>3. proc'[p] = h /\ \A q \in Pid \ {p} : proc'[q] = Died(o, "signal")[q]
    BY Zenon, <1>5, <2>2 DEF Table
  <2>4. ASSUME NEW q \in Pid \ {p, o} PROVE Quiet(q, proc'[q])
    BY Zenon, <2>1, <2>3, <2>4, DiedQuiet
  <2>5. Quiet(o, proc'[o])
    <3>1. /\ proc'[o].pc \in {"zombie", "gone"}
          /\ proc'[o].pc = "zombie" => proc'[o].cont = "signal"
          /\ proc'[o].parent # o
      BY <2>1, <2>3, DiedSelf
    <3>2. proc[o].pc # "zombie"
      BY Zenon, <2>1 DEF Running, Body
    <3> QED BY Zenon, <2>1, <3>1, <3>2 DEF Quiet, Ended
  <2> QED BY Zenon, <1>1, <1>5, <2>1, <2>3, <2>4, <2>5 DEF Others, Acts, Kept
<1> QED BY Zenon, <1>3, <1>4, <1>5

\* What a step of BrkCleanup does to the processes.
LEMMA BrkCleanupMoves ==
  ASSUME TypeInv, NoLoop, NEW p \in Pid, BrkCleanup(p)
  PROVE /\ Others(p)
        /\ \/ p = context.main_pid /\ Acts(p, "cleanup", proc[p].cont)
           \/ p # context.main_pid /\ proc[p].cont = "exit" /\ Dies(p, "ok")
           \/ p # context.main_pid /\ proc[p].cont # "exit" /\ Acts(p, "abort", "none")
<1>0. proc[p] \in Entry /\ proc \in Table
  BY Zenon DEF TypeInv, Table
<1> QED BY Zenon, <1>0, CallsStep, DiesStep DEF BrkCleanup, DoTestCleanup, Calls, Status

\* What a step of BrkAbort does to the processes.
LEMMA BrkAbortMoves ==
  ASSUME TypeInv, NoLoop, NEW p \in Pid, BrkAbort(p)
  PROVE Others(p) /\ (Acts(p, "kill", proc[p].cont) \/ Dies(p, "ok"))
<1>0. proc[p] \in Entry /\ proc \in Table
  BY Zenon DEF TypeInv, Table
<1> QED BY Zenon, <1>0, GotoStep, DiesStep DEF BrkAbort, Status

\* What a step of BrkKill does to the processes.
LEMMA BrkKillMoves ==
  ASSUME TypeInv, NoLoop, NEW p \in Pid, BrkKill(p)
  PROVE Others(p) /\ Dies(p, "ok")
<1> USE DEF TypeInv
<1>0. proc[p] \in Entry /\ proc \in Table
  BY Zenon DEF Table
<1> DEFINE d == Died(p, "ok")
           m == context.main_pid
<1>1. d \in Table
  BY Zenon, DiedType DEF Status
<1>2. ASSUME NEW q \in Pid
      PROVE proc'[q].pc = d[q].pc /\ proc'[q].cont = d[q].cont /\ proc'[q].parent = d[q].parent
  <2>1. d[q] \in Entry
    BY Zenon, <1>1 DEF Table
  <2>2. proc'[q] = d[q] \/ proc'[q] = [d[q] EXCEPT !.killed = @ \/ m \in Live]
    BY Zenon, <1>1 DEF BrkKill, Table
  <2> QED BY Zenon, <2>1, <2>2 DEF Entry, ProcRecord
<1>3. Dies(p, "ok")
  BY <1>0, <1>2, DiedSelf DEF Dies, Status
<1>4. ASSUME NEW q \in Pid \ {p} PROVE Quiet(q, proc'[q])
  BY <1>0, <1>2, <1>4, DiedQuiet DEF Quiet, Still, Ended, Born, Status
<1> QED BY Zenon, <1>3, <1>4 DEF Others

\* What a step of CleanupReturns does to the processes.
LEMMA CleanupReturnsMoves ==
  ASSUME TypeInv, NoLoop, NEW p \in Pid, CleanupReturns(p)
  PROVE /\ Others(p)
        /\ \/ proc[p].cont = "exit" /\ Dies(p, "ok")
           \/ proc[p].cont # "exit" /\ Acts(p, "abort", "none")
<1>0. proc[p] \in Entry /\ proc \in Table
  BY Zenon DEF TypeInv, Table
<1> QED BY Zenon, <1>0, CallsStep, DiesStep DEF CleanupReturns, Calls, Status

\* What a step of Report does to the processes.
LEMMA ReportMoves ==
  ASSUME TypeInv, NoLoop, NEW p \in Pid, Report(p) \/ Taint(p)
  PROVE Others(p) /\ Acts(p, proc[p].pc, proc[p].cont)
<1>0. proc[p] \in Entry /\ proc \in Table
  BY Zenon DEF TypeInv, Table
<1> QED BY Zenon, <1>0, SameStep DEF Report, Taint

\* What a step of SafeFork does to the processes.
LEMMA SafeForkMoves ==
  ASSUME TypeInv, NoLoop, NEW p \in Pid, SafeFork(p)
  PROVE /\ Others(p)
        /\ \/ Acts(p, proc[p].pc, proc[p].cont) /\ UNCHANGED <<results, reported>>
           \/ Acts(p, "brk", "abort") /\ Update("TBROK")
<1> USE DEF TypeInv
<1>0. proc[p] \in Entry /\ proc \in Table
  BY Zenon DEF Table
<1>1. CASE Brk(p, "TBROK")
  BY Zenon, <1>0, <1>1, CallsStep DEF Brk
<1>2. ASSUME NEW q \in Free, proc[p].pc \in Body, UNCHANGED <<results, reported>>,
             proc' = [proc EXCEPT ![q] =
               [NoProc EXCEPT !.pc = proc[p].pc, !.parent = p, !.grp = proc[p].grp]]
      PROVE Others(p) /\ Acts(p, proc[p].pc, proc[p].cont)
  <2>1. q # p /\ q \in Pid /\ proc[q].pc = "none"
    BY Zenon, <1>2 DEF Free, Body
  <2>2. /\ proc'[q].pc = proc[p].pc /\ proc'[q].parent = p
        /\ \A o \in Pid : o # q => proc'[o] = proc[o]
    BY Zenon, <1>2, <2>1 DEF Table, NoProc
  <2>3. Quiet(q, proc'[q])
    BY Zenon, <1>2, <2>1, <2>2 DEF Quiet, Born
  <2> QED BY Zenon, <2>1, <2>2, <2>3, StillSelf DEF Others, Acts, Kept
<1> QED BY Zenon, <1>1, <1>2, FreshFree DEF SafeFork

\* What a step of SafeWait does to the processes.
LEMMA SafeWaitMoves ==
  ASSUME TypeInv, NoLoop, NEW p \in Pid, SafeWait(p)
  PROVE Others(p) /\ Acts(p, proc[p].pc, proc[p].cont)
<1> USE DEF TypeInv
<1>0. proc[p] \in Entry /\ proc \in Table
  BY Zenon DEF Table
<1>1. PICK q \in Children(p) : proc[q].pc = "zombie" /\ proc' = [proc EXCEPT ![q] = Gone]
  BY Zenon DEF SafeWait
<1>2. q \in Pid /\ q # p
  BY Zenon, <1>1 DEF Children, SafeWait, Body
<1>3. proc'[q] = Gone /\ \A o \in Pid : o # q => proc'[o] = proc[o]
  BY Zenon, <1>1, <1>2 DEF Table
<1>4. Quiet(q, proc'[q])
  BY Zenon, <1>1, <1>2, <1>3, GoneFields, PidAssumption DEF Quiet, Ended
<1> QED BY Zenon, <1>2, <1>3, <1>4, StillSelf DEF Others, Acts, Kept

\* What a step of SetTimeout does to the processes.
LEMMA SetTimeoutMoves ==
  ASSUME TypeInv, NoLoop, NEW p \in Pid, SetTimeout(p)
  PROVE Others(p) /\ Acts(p, "hb", proc[p].pc)
<1>0. proc[p] \in Entry /\ proc \in Table
  BY Zenon DEF TypeInv, Table
<1> QED BY Zenon, <1>0, CallsStep DEF SetTimeout

\* What a step of Crash does to the processes.
LEMMA CrashMoves ==
  ASSUME TypeInv, NoLoop, NEW p \in Pid, Crash(p)
  PROVE Others(p) /\ (Dies(p, "fail") \/ Dies(p, "signal"))
<1>0. proc[p] \in Entry /\ proc \in Table
  BY Zenon DEF TypeInv, Table
<1> QED BY Zenon, <1>0, DiesStep DEF Crash, Status

\* What a step of Stick does to the processes.
LEMMA StickMoves ==
  ASSUME TypeInv, NoLoop, NEW p \in Pid, Stick(p)
  PROVE Others(p) /\ Acts(p, "stuck", proc[p].cont)
<1>0. proc[p] \in Entry /\ proc \in Table
  BY Zenon DEF TypeInv, Table
<1> QED BY Zenon, <1>0, GotoStep DEF Stick

\* What a step of SigkillDelivered does to the processes.
LEMMA SigkillDeliveredMoves ==
  ASSUME TypeInv, NoLoop, NEW p \in Pid, SigkillDelivered(p)
  PROVE Others(p) /\ Dies(p, "kill")
<1>0. proc[p] \in Entry /\ proc \in Table
  BY Zenon DEF TypeInv, Table
<1> QED BY Zenon, <1>0, DiesStep DEF SigkillDelivered, Status

\* What a step of TestrunLoop does to the processes.
LEMMA TestrunLoopMoves ==
  ASSUME TypeInv, NoLoop, NEW p \in Pid, TestrunLoop(p)
  PROVE /\ Others(p)
        /\ \/ Acts(p, "hb", "call") /\ ~reported' /\ calls' = calls + 1 /\ UNCHANGED cleaned
           \/ /\ calls >= Iterations * tst_test.tcnt
              /\ Acts(p, "cleanup", "exit") /\ UNCHANGED <<reported, calls>>
              /\ cleaned' = cleaned \cup {p}
<1>0. proc[p] \in Entry /\ proc \in Table
  BY Zenon DEF TypeInv, Table
<1> QED BY Zenon, <1>0, CallsStep DEF TestrunLoop, RunTest, DoTestCleanup

\* What a step of ReapChildren does to the processes.
LEMMA ReapChildrenMoves ==
  ASSUME TypeInv, NoLoop, NEW p \in Pid, ReapChildren(p)
  PROVE /\ Others(p)
        /\ \/ Acts(p, "reap", proc[p].cont) /\ UNCHANGED <<results, reported, calls>>
           \/ Acts(p, "brk", "abort") /\ Update("TBROK") /\ UNCHANGED calls
           \/ Acts(p, "hb", "call") /\ ~reported' /\ calls' = calls + 1 /\ UNCHANGED results
           \/ reported /\ Acts(p, "hb", "loop") /\ UNCHANGED <<results, reported, calls>>
<1> USE DEF TypeInv
<1>0. proc[p] \in Entry /\ proc \in Table
  BY Zenon DEF Table
<1>00. proc[p].pc = "reap"
  BY Zenon DEF ReapChildren
<1> USE <1>00
<1>1. ASSUME NEW q \in Pid, proc[q].pc = "zombie",
             \/ proc' = [proc EXCEPT ![q] = Gone]
             \/ proc' = [proc EXCEPT ![q] = Gone, ![p].pc = "brk", ![p].cont = "abort"]
      PROVE /\ Others(p)
            /\ proc' = [proc EXCEPT ![q] = Gone] => Acts(p, "reap", proc[p].cont)
            /\ proc' # [proc EXCEPT ![q] = Gone] => Acts(p, "brk", "abort")
  <2>1. q # p
    BY Zenon, <1>1
  <2>2. \A o \in Pid \ {p, q} : proc'[o] = proc[o]
    BY Zenon, <1>1 DEF Table
  <2>3. proc'[q] = Gone
    BY Zenon, <1>1, <2>1 DEF Table
  <2>4. Quiet(q, proc'[q])
    BY Zenon, <1>1, <2>3, GoneFields, PidAssumption DEF Quiet, Ended
  <2>5. Others(p)
    BY Zenon, <2>2, <2>4, StillSelf DEF Others
  <2>6. CASE proc' = [proc EXCEPT ![q] = Gone]
    <3>1. proc'[p] = proc[p]
      BY Zenon, <2>1, <2>6 DEF Table
    <3> QED BY Zenon, <2>5, <2>6, <3>1 DEF Acts, Kept
  <2>7. CASE proc' = [proc EXCEPT ![q] = Gone, ![p].pc = "brk", ![p].cont = "abort"]
    <3>1. proc'[p] = [proc[p] EXCEPT !.pc = "brk", !.cont = "abort"]
      BY Zenon, <2>1, <2>7 DEF Table
    <3>2. Acts(p, "brk", "abort")
      BY Zenon, <1>0, <3>1 DEF Acts, Kept, Entry, ProcRecord
    <3>3. proc' # [proc EXCEPT ![q] = Gone]
      BY Zenon, <2>1, <3>2 DEF Acts, Table
    <3> QED BY Zenon, <2>5, <3>2, <3>3
  <2> QED BY Zenon, <1>1, <2>6, <2>7
<1>2. CASE \E q \in Children(p) :
             /\ proc[q].pc = "zombie"
             /\ proc' = [proc EXCEPT ![q] = Gone]
             /\ UNCHANGED <<results, reported, calls>>
  BY Zenon, <1>1, <1>2 DEF Children
<1>3. CASE \E q \in Children(p) :
             /\ proc[q].pc = "zombie"
             /\ proc' = [proc EXCEPT ![q] = Gone, ![p].pc = "brk", ![p].cont = "abort"]
             /\ Update("TBROK") /\ UNCHANGED calls
  <2>1. PICK q \in Children(p) :
             /\ proc[q].pc = "zombie"
             /\ proc' = [proc EXCEPT ![q] = Gone, ![p].pc = "brk", ![p].cont = "abort"]
             /\ Update("TBROK") /\ UNCHANGED calls
    BY Zenon, <1>3
  <2>2. q \in Pid /\ q # p
    BY Zenon, <2>1 DEF Children
  <2>3. proc'[p].pc = "brk"
    BY Zenon, <1>0, <2>1, <2>2 DEF Table, Entry, ProcRecord
  <2>4. proc' # [proc EXCEPT ![q] = Gone]
    BY Zenon, <2>2, <2>3 DEF Table
  <2> QED BY Zenon, <1>1, <2>1, <2>2, <2>4
<1>4. CASE Brk(p, "TBROK") /\ UNCHANGED calls
  BY Zenon, <1>0, <1>4, CallsStep DEF Brk
<1>5. CASE RunTest(p) /\ UNCHANGED results
  BY Zenon, <1>0, <1>5, CallsStep DEF RunTest
<1>6. CASE reported /\ Calls(p, "hb", "loop") /\ UNCHANGED <<results, reported, calls>>
  BY Zenon, <1>0, <1>6, CallsStep
<1> QED BY Zenon, <1>2, <1>3, <1>4, <1>5, <1>6 DEF ReapChildren

\* What a step of TestBrk does to the processes.
LEMMA TestBrkMoves ==
  ASSUME TypeInv, NoLoop, NEW p \in Pid, TestBrk(p)
  PROVE /\ Others(p)
        /\ \E t \in {"TFAIL", "TCONF", "TBROK"} :
             Update(t) /\ Acts(p, "brk", IF t = "TBROK" THEN "abort" ELSE "exit")
<1> USE DEF TypeInv
<1>0. proc[p] \in Entry /\ proc \in Table
  BY Zenon DEF Table
<1>1. PICK t \in {"TFAIL", "TCONF", "TBROK"} : Brk(p, t)
  BY Zenon DEF TestBrk
<1> QED BY Zenon, <1>0, <1>1, CallsStep DEF Brk

\* What a step of BodyReturns does to the processes.
LEMMA BodyReturnsMoves ==
  ASSUME TypeInv, NoLoop, NEW p \in Pid, BodyReturns(p)
  PROVE /\ Others(p)
        /\ \/ /\ proc[p].pc = "setup" /\ p = context.main_pid
              /\ Acts(p, "loop", proc[p].cont) /\ UNCHANGED <<results, reported>>
           \/ /\ proc[p].pc = "setup" /\ p # context.main_pid
              /\ Acts(p, "brk", "abort") /\ Update("TBROK")
           \/ /\ proc[p].pc = "test" /\ p = context.main_pid
              /\ Acts(p, "reap", proc[p].cont) /\ UNCHANGED <<results, reported>>
           \/ /\ proc[p].pc = "test" /\ p # context.main_pid
              /\ Dies(p, "ok") /\ UNCHANGED <<results, reported>>
<1>0. proc[p] \in Entry /\ proc \in Table
  BY Zenon DEF TypeInv, Table
<1> QED BY Zenon, <1>0, CallsStep, GotoStep, DiesStep DEF BodyReturns, Brk, Status

-----------------------------------------------------------------------------
(* The main test process *)

\* A process on its way to do_test_setup(), and one in the loop of testrun().
InHb(r) == r.pc \in {"hb", "beat"}
Young(r) == r.pc \in {"start", "presetup"} \/ (InHb(r) /\ r.cont = "presetup")
Looping(r) == r.pc \in {"loop", "reap"} \/ (InHb(r) /\ r.cont \in {"loop", "call"})
IsMain(p) ==
  \/ Young(proc[p])
  \/ Looping(proc[p])
  \/ p = context.main_pid /\ proc[p].pc \in Running

\* The library is waiting for p, or has left it to init.
Awaited(p) ==
  /\ p = test_pid
  /\ \/ lpc = "wait" /\ proc[p].parent = LibPid
     \/ lpc = "dead" /\ proc[p].parent = InitPid

MainAt(p) ==
  /\ proc[p].parent # p
  /\ IsMain(p) => Awaited(p)
  /\ Looping(proc[p]) => p = context.main_pid
  /\ p = test_pid /\ proc[p].pc \in Running => Young(proc[p]) \/ p = context.main_pid
  /\ p = test_pid \/ p \in mains => proc[p].pc # "none"

MainInv ==
  /\ \A p \in Pid : MainAt(p)
  /\ context.main_pid \in mains \cup {NoPid}

SameMain == UNCHANGED <<lpc, test_pid, mains>> /\ context'.main_pid = context.main_pid

\* No process is its own parent.
LEMMA MainNoLoop == MainInv => NoLoop
  BY Zenon DEF MainInv, MainAt, NoLoop

\* The processes that do not take the step.
LEMMA MainQuiet ==
  ASSUME TypeInv, MainInv, SameMain, NEW q \in Pid, Quiet(q, proc'[q])
  PROVE MainAt(q)'
<1>1. MainAt(q) /\ proc'[q].parent # q
  <2>1. MainAt(q) /\ InitPid # q
    BY Zenon, PidAssumption DEF MainInv
  <2> QED BY Zenon, <2>1 DEF MainAt, Quiet, Still, Ended, Born
<1>2. CASE Still(q, proc'[q])
  <2>1. /\ Young(proc[q])' = Young(proc[q]) /\ Looping(proc[q])' = Looping(proc[q])
        /\ IsMain(q)' = IsMain(q)
    BY Zenon, <1>2 DEF Still, Young, Looping, InHb, IsMain, SameMain
  <2>2. Awaited(q) => Awaited(q)'
    BY Zenon, <1>2, PidAssumption DEF Still, Awaited, SameMain
  <2> QED BY Zenon, <1>1, <1>2, <2>1, <2>2 DEF MainAt, SameMain, Still
<1>3. CASE Ended(q, proc'[q])
  <2>1. proc'[q].pc \in {"zombie", "gone"}
    BY Zenon, <1>3 DEF Ended
  <2>2. /\ proc'[q].pc \notin Running /\ proc'[q].pc # "none"
        /\ ~Young(proc[q])' /\ ~Looping(proc[q])'
    BY Zenon, <2>1 DEF Running, Body, Young, Looping, InHb
  <2> QED BY Zenon, <1>1, <2>2 DEF MainAt, IsMain
<1>4. CASE Born(q, proc'[q])
  <2>1. q # test_pid /\ q \notin mains /\ q # context.main_pid
    BY Zenon, <1>1, <1>4, PidAssumption DEF MainAt, Born, MainInv
  <2>2. ~Young(proc[q])' /\ ~Looping(proc[q])'
    BY Zenon, <1>4 DEF Born, Body, Young, Looping, InHb
  <2> QED BY Zenon, <1>1, <2>1, <2>2 DEF MainAt, IsMain, SameMain
<1> QED BY Zenon, <1>2, <1>3, <1>4 DEF Quiet

\* The one that does: it stays on its side of do_test_setup(), or dies.
LEMMA MainMoves ==
  ASSUME TypeInv, MainInv, SameMain, NEW p \in Pid, proc[p].pc \in Running,
         Kept(p), proc'[p].pc \in Running,
         Young(proc[p]) <=> Young(proc[p])',
         Looping(proc[p])' => p = context.main_pid
  PROVE MainAt(p)'
<1>1. MainAt(p)
  BY Zenon DEF MainInv
<1>2. IsMain(p)' => IsMain(p)
  BY Zenon DEF IsMain, SameMain
<1>3. Awaited(p) => Awaited(p)'
  BY Zenon, PidAssumption DEF Kept, Awaited, SameMain
<1>4. proc'[p].pc # "none" /\ proc'[p].parent # p
  BY Zenon, <1>1, PidAssumption DEF Running, Body, Kept, MainAt
<1> QED BY Zenon, <1>1, <1>2, <1>3, <1>4 DEF MainAt, SameMain

\* A process that dies stops being the main process.
LEMMA MainDies ==
  ASSUME NEW p \in Pid, NEW s, Dies(p, s)
  PROVE MainAt(p)'
<1>1. proc'[p].pc \in {"zombie", "gone"} /\ proc'[p].parent # p
  BY Zenon DEF Dies
<1>2. proc'[p].pc \notin Running /\ ~Young(proc[p])' /\ ~Looping(proc[p])' /\ proc'[p].pc # "none"
  BY Zenon, <1>1 DEF Running, Body, Young, Looping, InHb
<1> QED BY Zenon, <1>1, <1>2 DEF MainAt, IsMain

\* The process that takes the step and the quiet ones make up the invariant.
LEMMA MainActor ==
  ASSUME TypeInv, MainInv, SameMain, NEW p \in Pid, Others(p), MainAt(p)'
  PROVE MainInv'
<1>1. ASSUME NEW q \in Pid PROVE MainAt(q)'
  BY Zenon, MainQuiet DEF Others
<1> QED BY Zenon, <1>1 DEF MainInv, SameMain

\* Only do_test_setup() and fork_testrun() change who the main process is.
LEMMA ActorMain ==
  ASSUME TypeInv, NEW p \in Pid, ~DoTestSetup(p),
         Process(p) \/ SigkillDelivered(p) \/ Crash(p) \/ Stick(p) \/ Taint(p)
  PROVE SameMain
<1>1. context \in ContextType
  BY Zenon DEF TypeInv, TypeOK, ContextType
<1>2. \/ UNCHANGED context
      \/ context' = [context EXCEPT !.timed = TRUE]
      \/ context' = [context EXCEPT !.abort_flag = TRUE]
  BY Zenon DEF Process, SetPgid, Heartbeat, Beat, TestrunLoop, ReapChildren, BrkCleanup,
    BrkAbort, BrkKill, CleanupReturns, Report, TestBrk, SafeFork, SafeWait, SetTimeout,
    BodyReturns, Crash, Stick, Taint, SigkillDelivered, shared
<1>3. context'.main_pid = context.main_pid
  BY Zenon, <1>1, <1>2 DEF ContextType
<1>4. UNCHANGED <<lpc, test_pid, mains>>
  BY Zenon DEF Process, SetPgid, Heartbeat, Beat, TestrunLoop, ReapChildren, BrkCleanup,
    BrkAbort, BrkKill, CleanupReturns, Report, TestBrk, SafeFork, SafeWait, SetTimeout,
    BodyReturns, Crash, Stick, Taint, SigkillDelivered, lib, hist
<1> QED BY Zenon, <1>3, <1>4 DEF SameMain

\* Every step of a test process keeps the account of the main process.
LEMMA MainProcess ==
  ASSUME TypeInv, MainInv, NEW p \in Pid,
         Process(p) \/ SigkillDelivered(p) \/ Crash(p) \/ Stick(p) \/ Taint(p)
  PROVE MainInv'
<1>0. NoLoop /\ MainAt(p) /\ proc[p] \in Entry
  BY Zenon, MainNoLoop DEF MainInv, TypeInv, Table
<1> USE <1>0
<1>1. CASE DoTestSetup(p)
  <2>1. Others(p) /\ Acts(p, "setup", proc[p].cont) /\ proc[p].pc = "presetup"
    BY Zenon, <1>1, DoTestSetupMoves DEF DoTestSetup
  <2>2. context'.main_pid = p /\ mains' = mains \cup {p} /\ UNCHANGED <<lpc, test_pid>>
    BY Zenon, <1>1 DEF DoTestSetup, TypeInv, TypeOK, lib
  <2>3. Awaited(p)
    BY Zenon, <2>1 DEF MainAt, IsMain, Young
  <2>4. MainAt(p)'
    BY Zenon, <2>1, <2>2, <2>3, PidAssumption
      DEF MainAt, IsMain, Young, Looping, InHb, Acts, Kept, Awaited
  <2>5. ASSUME NEW q \in Pid \ {p} PROVE MainAt(q)'
    <3>1. MainAt(q) /\ Quiet(q, proc'[q]) /\ q # test_pid
      BY Zenon, <2>1, <2>3 DEF MainInv, Others, Awaited
    <3>2. ~Young(proc[q]) /\ ~Looping(proc[q]) /\ ~IsMain(q)
      BY Zenon, <3>1 DEF MainAt, IsMain, Awaited
    <3>3. ~Young(proc[q])' /\ ~Looping(proc[q])'
      BY Zenon, <3>1, <3>2 DEF Quiet, Still, Ended, Born, Body, Young, Looping, InHb
    <3>4. proc'[q].parent # q /\ (q \in mains => proc'[q].pc # "none")
      BY Zenon, <3>1, PidAssumption DEF Quiet, Still, Ended, Born, MainAt
    <3> QED BY Zenon, <2>2, <3>1, <3>3, <3>4 DEF MainAt, IsMain
  <2> QED BY Zenon, <2>2, <2>4, <2>5 DEF MainInv
<1>2. CASE ~DoTestSetup(p)
  <2>0. SameMain
    BY Zenon, <1>2, ActorMain
  <2> USE <2>0
  <2>1. CASE SetPgid(p)
    <3>1. Others(p) /\ Acts(p, "hb", "presetup") /\ proc[p].pc = "start"
      BY Zenon, <2>1, SetPgidMoves DEF SetPgid
    <3>2. MainAt(p)'
      BY Zenon, <3>1, MainMoves DEF Acts, Young, Looping, InHb, Running
    <3> QED BY Zenon, <3>1, <3>2, MainActor
  <2>2. CASE Heartbeat(p)
    <3>1. /\ Others(p) /\ proc[p].pc = "hb"
          /\ Acts(p, "hb", proc[p].cont) \/ Acts(p, "beat", proc[p].cont)
      BY Zenon, <2>2, HeartbeatMoves DEF Heartbeat
    <3>2. MainAt(p)'
      BY Zenon, <3>1, MainMoves DEF Acts, Young, Looping, InHb, Running, MainAt
    <3> QED BY Zenon, <3>1, <3>2, MainActor
  <2>3. CASE Beat(p)
    <3>1. /\ Others(p) /\ proc[p].pc = "beat" /\ proc[p].cont \in Returns
          /\ Acts(p, IF proc[p].cont = "call" THEN "test" ELSE proc[p].cont, "none")
      BY Zenon, <2>3, BeatMoves DEF Beat, Entry
    <3>2. MainAt(p)'
      BY Zenon, <3>1, MainMoves
        DEF Acts, Young, Looping, InHb, Running, Body, MainAt, Returns
    <3> QED BY Zenon, <3>1, <3>2, MainActor
  <2>4. CASE TestrunLoop(p)
    <3>1. /\ Others(p) /\ proc[p].pc = "loop"
          /\ Acts(p, "hb", "call") \/ Acts(p, "cleanup", "exit")
      BY Zenon, <2>4, TestrunLoopMoves DEF TestrunLoop
    <3>2. MainAt(p)'
      BY Zenon, <3>1, MainMoves DEF Acts, Young, Looping, InHb, Running, MainAt
    <3> QED BY Zenon, <3>1, <3>2, MainActor
  <2>5. CASE ReapChildren(p)
    <3>1. /\ Others(p) /\ proc[p].pc = "reap"
          /\ \/ Acts(p, "reap", proc[p].cont) \/ Acts(p, "brk", "abort")
             \/ Acts(p, "hb", "call") \/ Acts(p, "hb", "loop")
      BY Zenon, <2>5, ReapChildrenMoves DEF ReapChildren
    <3>2. MainAt(p)'
      BY Zenon, <3>1, MainMoves DEF Acts, Young, Looping, InHb, Running, MainAt
    <3> QED BY Zenon, <3>1, <3>2, MainActor
  <2>6. CASE \E c : \E l \in {"brk", "abort", "cleanup", "kill", "stuck"} :
               /\ proc[p].pc \in Body \cup {"brk", "abort", "cleanup"}
               /\ Others(p) /\ Acts(p, l, c)
    <3>1. MainAt(p)'
      BY Zenon, <2>6, MainMoves DEF Acts, Young, Looping, InHb, Running, Body
    <3> QED BY Zenon, <2>6, <3>1, MainActor
  <2>7. CASE \E s : Others(p) /\ Dies(p, s)
    BY Zenon, <2>7, MainDies, MainActor
  <2>8. CASE /\ Others(p) /\ Acts(p, proc[p].pc, proc[p].cont)
             /\ proc[p].pc \in Body \cup {"cleanup"}
    <3>1. MainAt(p)'
      BY Zenon, <2>8, MainMoves DEF Acts, Young, Looping, InHb, Running, Body, MainAt
    <3> QED BY Zenon, <2>8, <3>1, MainActor
  <2>9. CASE SetTimeout(p)
    <3>1. Others(p) /\ Acts(p, "hb", proc[p].pc) /\ proc[p].pc \in Body
      BY Zenon, <2>9, SetTimeoutMoves DEF SetTimeout
    <3>2. MainAt(p)'
      BY Zenon, <3>1, MainMoves DEF Acts, Young, Looping, InHb, Running, Body
    <3> QED BY Zenon, <3>1, <3>2, MainActor
  <2>10. CASE BodyReturns(p)
    <3>1. CASE Others(p) /\ (Acts(p, "loop", proc[p].cont) \/ Acts(p, "reap", proc[p].cont))
               /\ p = context.main_pid /\ proc[p].pc \in Body
      <4>1. MainAt(p)'
        BY Zenon, <3>1, MainMoves DEF Acts, Young, Looping, InHb, Running, Body
      <4> QED BY Zenon, <3>1, <4>1, MainActor
    <3> QED BY Zenon, <2>6, <2>7, <2>10, <3>1, BodyReturnsMoves DEF Body
  <2>11. CASE BrkCleanup(p) \/ BrkAbort(p) \/ CleanupReturns(p) \/ Stick(p)
    BY Zenon, <2>6, <2>7, <2>11, BrkCleanupMoves, BrkAbortMoves, CleanupReturnsMoves,
       StickMoves DEF BrkCleanup, BrkAbort, CleanupReturns, Stick
  <2>12. CASE BrkKill(p) \/ Crash(p) \/ SigkillDelivered(p)
    BY Zenon, <2>7, <2>12, BrkKillMoves, CrashMoves, SigkillDeliveredMoves
  <2>13. CASE Report(p) \/ Taint(p) \/ SafeWait(p)
    BY Zenon, <2>8, <2>13, ReportMoves, SafeWaitMoves DEF Report, Taint, SafeWait
  <2>14. CASE TestBrk(p)
    BY Zenon, <2>6, <2>14, TestBrkMoves DEF TestBrk
  <2>15. CASE SafeFork(p)
    BY Zenon, <2>6, <2>8, <2>15, SafeForkMoves DEF SafeFork
  <2> QED BY Zenon, <1>2, <2>1, <2>2, <2>3, <2>4, <2>5, <2>9, <2>10, <2>11, <2>12, <2>13,
             <2>14, <2>15 DEF Process
<1> QED BY Zenon, <1>1, <1>2

\* The steps of the library between two waits: no main process is alive.
LEMMA MainIdle ==
  ASSUME MainInv, lpc \notin {"wait", "dead"}, UNCHANGED <<test_pid, mains>>,
         context'.main_pid = context.main_pid, \A q \in Pid : Still(q, proc'[q])
  PROVE MainInv'
<1>1. ASSUME NEW q \in Pid PROVE MainAt(q)'
  <2>1. MainAt(q) /\ ~IsMain(q) /\ Still(q, proc'[q])
    BY Zenon DEF MainInv, MainAt, Awaited
  <2>2. ~IsMain(q)' /\ ~Looping(proc[q])' /\ Young(proc[q])' = Young(proc[q])
    BY Zenon, <2>1 DEF IsMain, Young, Looping, InHb, Still
  <2>3. proc'[q].parent # q
    BY Zenon, <2>1, PidAssumption DEF Still, MainAt
  <2> QED BY Zenon, <2>1, <2>2, <2>3 DEF MainAt, Still
<1> QED BY Zenon, <1>1 DEF MainInv

\* The library dies: init adopts the main process.
LEMMA MainOrphaned ==
  ASSUME TypeInv, MainInv, lpc' = "dead", UNCHANGED <<test_pid, mains>>,
         context'.main_pid = context.main_pid,
         \A q \in Pid : \/ proc'[q].pc = "gone" /\ proc'[q].parent # q
                        \/ /\ proc'[q].pc = proc[q].pc /\ proc'[q].cont = proc[q].cont
                           /\ proc'[q].parent = IF proc[q].parent = LibPid THEN InitPid
                                                ELSE proc[q].parent,
         lpc # "dead"
  PROVE MainInv'
<1>1. ASSUME NEW q \in Pid PROVE MainAt(q)'
  <2>1. MainAt(q) /\ q # InitPid
    BY Zenon, PidAssumption DEF MainInv
  <2>2. CASE proc'[q].pc = "gone" /\ proc'[q].parent # q
    BY Zenon, <2>2 DEF MainAt, IsMain, Young, Looping, InHb, Running, Body
  <2>3. CASE /\ proc'[q].pc = proc[q].pc /\ proc'[q].cont = proc[q].cont
             /\ proc'[q].parent = IF proc[q].parent = LibPid THEN InitPid ELSE proc[q].parent
    <3>1. IsMain(q)' = IsMain(q) /\ Looping(proc[q])' = Looping(proc[q])
          /\ Young(proc[q])' = Young(proc[q])
      BY Zenon, <2>3 DEF IsMain, Young, Looping, InHb
    <3>2. IsMain(q)' => Awaited(q)'
      BY Zenon, <2>1, <2>3, <3>1 DEF MainAt, Awaited
    <3> QED BY Zenon, <2>1, <2>3, <3>1, <3>2 DEF MainAt
  <2> QED BY Zenon, <2>2, <2>3
<1> QED BY Zenon, <1>1 DEF MainInv

\* So does every step of the library process.
LEMMA MainLibrary ==
  ASSUME TypeInv, MainInv,
         Library \/ AlarmHandler \/ LibKilled \/ SigintHandler \/ UNCHANGED vars
  PROVE MainInv'
<1>0. context \in ContextType /\ proc \in Table /\ \A q \in Pid : Still(q, proc[q])
  BY Zenon DEF TypeInv, TypeOK, ContextType, Still
<1> USE <1>0
<1>1. CASE UNCHANGED vars
  BY Zenon, <1>1, MainQuiet DEF vars, lib, hist, shared, MainInv, SameMain, Quiet
<1>2. CASE RunTcaseOnFs \/ Arm \/ CheckTaint \/ Judge \/ NextRun \/ DoExit
           \/ (ForkTestrun /\ UNCHANGED proc)
  <2>1. context' = context \/ \E b \in BOOLEAN : context' = [context EXCEPT !.mounted = b]
    BY Zenon, <1>2
      DEF RunTcaseOnFs, Arm, CheckTaint, Judge, NextRun, DoExit, ForkTestrun, shared
  <2>2. context'.main_pid = context.main_pid
    BY Zenon, <2>1 DEF ContextType
  <2>3. lpc \notin {"wait", "dead"} /\ UNCHANGED mains
    BY Zenon, <1>2 DEF RunTcaseOnFs, Arm, CheckTaint, Judge, NextRun, DoExit, ForkTestrun, hist
  <2>4. \A q \in Pid : Still(q, proc'[q])
    BY Zenon, <1>2, KillQuiet DEF RunTcaseOnFs, Arm, CheckTaint, Judge, NextRun, DoExit
  <2>5. UNCHANGED test_pid
    <3>1. CASE ForkTestrun /\ UNCHANGED proc
      <4>1. ASSUME NEW p \in Free, proc' = [proc EXCEPT ![p] = [NoProc EXCEPT
                     !.pc = "start", !.parent = LibPid, !.grp = LibPid]]
            PROVE FALSE
        <5>1. proc'[p].pc = "start" /\ proc[p].pc = "none"
          BY Zenon, <4>1 DEF Free, Table, NoProc
        <5> QED BY Zenon, <3>1, <5>1
      <4> QED BY Zenon, <3>1, <4>1, FreshFree DEF ForkTestrun
    <3> QED BY Zenon, <1>2, <3>1 DEF RunTcaseOnFs, Arm, CheckTaint, Judge, NextRun, DoExit
  <2> QED BY Zenon, <2>2, <2>3, <2>4, <2>5, MainIdle
<1>3. ASSUME ForkTestrun, NEW p \in Free, test_pid' = p, lpc' = "wait",
             proc' = [proc EXCEPT ![p] = [NoProc EXCEPT
                        !.pc = "start", !.parent = LibPid, !.grp = LibPid]]
      PROVE MainInv'
  <2>1. /\ proc'[p].pc = "start" /\ proc'[p].parent = LibPid
        /\ \A q \in Pid : q # p => proc'[q] = proc[q]
    BY Zenon, <1>3 DEF Table, Free, NoProc
  <2>2. lpc = "fork" /\ UNCHANGED <<mains, context>> /\ p \in Pid
    BY Zenon, <1>3 DEF ForkTestrun, hist, Free
  <2>3. MainAt(p)'
    BY Zenon, <1>3, <2>1, <2>2, PidAssumption DEF MainAt, IsMain, Awaited, Young, Looping, InHb
  <2>4. ASSUME NEW q \in Pid \ {p} PROVE MainAt(q)'
    <3>1. MainAt(q) /\ ~IsMain(q)
      BY Zenon, <2>2 DEF MainInv, MainAt, Awaited
    <3>2. ~IsMain(q)' /\ ~Looping(proc[q])'
      BY Zenon, <2>1, <2>2, <2>4, <3>1 DEF IsMain
    <3> QED BY Zenon, <1>3, <2>1, <2>2, <2>4, <3>1, <3>2 DEF MainAt
  <2> QED BY Zenon, <2>2, <2>3, <2>4 DEF MainInv
<1>4. CASE WaitTest
  <2>1. test_pid \in Pid /\ proc[test_pid].pc = "zombie"
    BY Zenon, <1>4 DEF WaitTest, TypeInv, Control
  <2>2. /\ proc'[test_pid].pc = "gone" /\ proc'[test_pid].parent = proc[test_pid].parent
        /\ \A q \in Pid : q # test_pid => proc'[q] = proc[q]
    BY Zenon, <1>4, <2>1 DEF WaitTest, Table, Entry, ProcRecord
  <2>3. UNCHANGED <<test_pid, mains, context>>
    BY Zenon, <1>4 DEF WaitTest, shared
  <2>4. MainAt(test_pid)'
    BY Zenon, <2>1, <2>2, <2>3 DEF MainInv, MainAt, IsMain, Young, Looping, InHb, Running, Body
  <2>5. ASSUME NEW q \in Pid, q # test_pid PROVE MainAt(q)'
    <3>1. MainAt(q) /\ ~IsMain(q)
      BY Zenon, <2>5 DEF MainInv, MainAt, Awaited
    <3>2. ~IsMain(q)' /\ ~Looping(proc[q])'
      BY Zenon, <2>2, <2>3, <2>5, <3>1 DEF IsMain
    <3> QED BY Zenon, <2>2, <2>3, <2>5, <3>1, <3>2 DEF MainAt
  <2> QED BY Zenon, <2>3, <2>4, <2>5 DEF MainInv
<1>5. CASE SigintHandler
  <2>1. \A q \in Pid : Still(q, proc'[q])
    BY Zenon, <1>5, KillQuiet DEF SigintHandler
  <2>2. SameMain
    BY Zenon, <1>5 DEF SigintHandler, SameMain, lib, shared, hist
  <2> QED BY Zenon, <2>1, <2>2, MainQuiet DEF Quiet, MainInv, SameMain
<1>6. CASE AlarmHandler
  <2> DEFINE k == IF lpc = "exit" THEN proc ELSE Kill(Group(test_pid))
  <2>1. \A q \in Pid : Still(q, k[q])
    BY Zenon, KillQuiet
  <2>2. UNCHANGED <<test_pid, mains, context>> /\ lpc # "dead"
    BY Zenon, <1>6 DEF AlarmHandler, shared, hist
  <2>3. k \in Table
    BY Zenon, KillType
  <2>4. CASE proc' = k /\ UNCHANGED lpc
    <3>1. SameMain
      BY Zenon, <2>2, <2>4 DEF SameMain
    <3> QED BY Zenon, <2>1, <2>4, <3>1, MainQuiet DEF Quiet, MainInv, SameMain
  <2>5. CASE lpc' = "dead" /\ proc' = [p \in Pid |-> IF k[p].parent # LibPid THEN k[p]
                                    ELSE [k[p] EXCEPT !.parent = InitPid]]
    <3>1. ASSUME NEW q \in Pid
          PROVE /\ proc'[q].pc = proc[q].pc /\ proc'[q].cont = proc[q].cont
                /\ proc'[q].parent = IF proc[q].parent = LibPid THEN InitPid ELSE proc[q].parent
      <4>1. k[q] \in Entry /\ k[q].pc = proc[q].pc /\ k[q].cont = proc[q].cont
        BY Zenon, <2>1, <2>3 DEF Still, Table
      <4>2. k[q].parent = proc[q].parent
        BY Zenon DEF Kill, Table, Entry, ProcRecord
      <4> HIDE DEF k
      <4> QED BY Zenon, <2>5, <4>1, <4>2 DEF Entry, ProcRecord
    <3> QED BY Zenon, <2>2, <2>5, <3>1, MainOrphaned
  <2> QED BY Zenon, <1>6, <2>4, <2>5 DEF AlarmHandler
<1>7. CASE LibKilled
  <2>1. UNCHANGED <<test_pid, mains, context>> /\ lpc # "dead" /\ lpc' = "dead"
    BY Zenon, <1>7 DEF LibKilled, shared, hist
  <2>2. ASSUME NEW q \in Pid
        PROVE \/ proc'[q].pc = "gone" /\ proc'[q].parent # q
              \/ /\ proc'[q].pc = proc[q].pc /\ proc'[q].cont = proc[q].cont
                 /\ proc'[q].parent = IF proc[q].parent = LibPid THEN InitPid ELSE proc[q].parent
    <3>1. proc[q] \in Entry /\ (q \in Children(LibPid) <=> proc[q].parent = LibPid)
      BY Zenon DEF Table, Children
    <3>2. proc'[q] = IF q \in Children(LibPid) THEN Adopted(q) ELSE proc[q]
      BY Zenon, <1>7 DEF LibKilled
    <3>3. /\ [proc[q] EXCEPT !.parent = InitPid].pc = proc[q].pc
          /\ [proc[q] EXCEPT !.parent = InitPid].cont = proc[q].cont
          /\ [proc[q] EXCEPT !.parent = InitPid].parent = InitPid
      BY Zenon, <3>1 DEF Entry, ProcRecord
    <3> QED BY Zenon, <3>1, <3>2, <3>3, GoneFields, PidAssumption DEF Adopted
  <2> QED BY Zenon, <2>1, <2>2, MainOrphaned
<1> QED BY Zenon, <1>1, <1>2, <1>3, <1>4, <1>5, <1>6, <1>7, FreshFree
      DEF Library, ForkTestrun

\* The main process is the one the library waits for, or has left to init.
LEMMA MainInvariant == Spec => []MainInv
<1>1. Init => MainInv
  <2> SUFFICES ASSUME Init PROVE MainInv
    OBVIOUS
  <2>1. ASSUME NEW p \in Pid PROVE MainAt(p)
    BY Zenon, PidAssumption
      DEF Init, NoProc, MainAt, IsMain, Young, Looping, InHb, Running, Body
  <2> QED BY Zenon, <2>1 DEF Init, MainInv
<1>2. TypeInv /\ MainInv /\ [Next]_vars => MainInv'
  BY Zenon, MainProcess, MainLibrary DEF Next, Fault
<1> QED BY <1>1, <1>2, TypeInvariant, PTL DEF Spec

-----------------------------------------------------------------------------
(* A child that breaks kills the main process of its own run *)

\* A process group is named after a process that was, and the group the library
\* is waiting for has members beside its leader only when that is main_pid.
GroupAt(p) ==
  /\ proc[p].grp \in Pid => proc[proc[p].grp].pc # "none"
  /\ p # test_pid /\ proc[p].grp = test_pid => context.main_pid = test_pid
GroupInv == \A p \in Live : GroupAt(p)

\* Every step but two leaves the library's child and the main process the same.
LEMMA GroupFrame ==
  ASSUME TypeInv, [Next]_vars, ~ForkTestrun, \A p \in Pid : ~DoTestSetup(p)
  PROVE test_pid' = test_pid /\ context'.main_pid = context.main_pid
<1>1. context \in ContextType
  BY Zenon DEF TypeInv, TypeOK, ContextType
<1>2. \/ UNCHANGED context
      \/ \E b \in BOOLEAN : context' = [context EXCEPT !.mounted = b]
      \/ context' = [context EXCEPT !.abort_flag = TRUE]
      \/ context' = [context EXCEPT !.timed = TRUE]
  BY ZenonT(60) DEF Next, Library, Fault, Process, RunTcaseOnFs, Arm, WaitTest,
    CheckTaint, Judge, NextRun, DoExit, AlarmHandler, SigintHandler, LibKilled, SetPgid,
    Heartbeat, Beat, TestrunLoop, ReapChildren, BrkCleanup, BrkAbort, BrkKill,
    CleanupReturns, Report, TestBrk, SafeFork, SafeWait, SetTimeout, BodyReturns,
    Crash, Stick, Taint, SigkillDelivered, vars, shared
<1>3. context'.main_pid = context.main_pid
  BY Zenon, <1>1, <1>2 DEF ContextType
<1>4. test_pid' = test_pid
  BY ZenonT(60) DEF Next, Library, Fault, Process, RunTcaseOnFs, Arm, WaitTest,
    CheckTaint, Judge, NextRun, DoExit, AlarmHandler, SigintHandler, LibKilled, SetPgid,
    Heartbeat, Beat, TestrunLoop, ReapChildren, BrkCleanup, BrkAbort, BrkKill,
    CleanupReturns, Report, TestBrk, SafeFork, SafeWait, SetTimeout, BodyReturns,
    Crash, Stick, Taint, SigkillDelivered, vars, lib
<1> QED BY Zenon, <1>3, <1>4

\* A tame step keeps every process in its group.
LEMMA GroupTame ==
  ASSUME GroupInv, TameTable(proc'), NEW p \in Live'
  PROVE /\ p \in Live /\ GroupAt(p) /\ proc'[p].grp = proc[p].grp
        /\ proc[p].grp \in Pid => proc'[proc[p].grp].pc # "none"
  BY Zenon DEF GroupInv, GroupAt, TameTable, Tame, Live

\* Every step keeps the groups in order.
LEMMA GroupStep ==
  ASSUME TypeInv, MainInv, GroupInv, [Next]_vars
  PROVE GroupInv'
<1>0. context \in ContextType /\ proc \in Table
  BY Zenon DEF TypeInv, TypeOK, ContextType
<1>1. CASE ForkTestrun
  <2>1. CASE UNCHANGED <<test_pid, proc>>
    <3>1. UNCHANGED context
      BY Zenon, <1>1 DEF ForkTestrun
    <3> QED BY Zenon, <2>1, <3>1 DEF GroupInv, GroupAt, Live
  <2>2. ASSUME NEW p \in Free, test_pid' = p,
               proc' = [proc EXCEPT ![p] = [NoProc EXCEPT
                          !.pc = "start", !.parent = LibPid, !.grp = LibPid]]
        PROVE GroupInv'
    <3>1. /\ p \in Pid /\ proc[p].pc = "none"
          /\ proc'[p].pc = "start" /\ proc'[p].grp = LibPid
          /\ \A q \in Pid : q # p => proc'[q] = proc[q]
      BY Zenon, <1>0, <2>2 DEF Table, Free, NoProc
    <3>2. \A q \in Pid : proc'[q].pc = "none" => proc[q].pc = "none"
      BY Zenon, <3>1
    <3>3. ASSUME NEW q \in Live' PROVE GroupAt(q)'
      <4>1. CASE q = p
        BY Zenon, <2>2, <3>1, <4>1, PidAssumption DEF GroupAt
      <4>2. CASE q # p
        <5>1. q \in Live /\ GroupAt(q) /\ proc'[q] = proc[q]
          BY Zenon, <3>1, <3>3, <4>2 DEF Live, GroupInv
        <5>2. proc[q].grp # p
          BY Zenon, <3>1, <5>1 DEF GroupAt
        <5> QED BY Zenon, <2>2, <3>2, <5>1, <5>2 DEF GroupAt
      <4> QED BY Zenon, <4>1, <4>2
    <3> QED BY Zenon, <3>3 DEF GroupInv
  <2> QED BY Zenon, <1>1, <2>1, <2>2, FreshFree DEF ForkTestrun
<1>2. ASSUME NEW p \in Pid, SetPgid(p) PROVE GroupInv'
  <2>1. /\ proc'[p].grp = p /\ proc'[p].pc = "hb" /\ proc[p].pc = "start"
        /\ \A q \in Pid : q # p => proc'[q] = proc[q]
        /\ UNCHANGED <<test_pid, context>>
    BY Zenon, <1>0, <1>2 DEF SetPgid, Table, Entry, ProcRecord, lib, shared
  <2>2. p = test_pid
    BY Zenon, <2>1 DEF MainInv, MainAt, IsMain, Young, Awaited
  <2>3. \A q \in Pid : proc'[q].pc = "none" => proc[q].pc = "none"
    BY Zenon, <2>1
  <2>4. ASSUME NEW q \in Live' PROVE GroupAt(q)'
    <3>1. CASE q = p
      BY Zenon, <2>1, <2>2, <3>1 DEF GroupAt
    <3>2. CASE q # p
      <4>1. q \in Live /\ GroupAt(q) /\ proc'[q] = proc[q]
        BY Zenon, <2>1, <2>4, <3>2 DEF Live, GroupInv
      <4> QED BY Zenon, <2>1, <2>3, <4>1 DEF GroupAt
    <3> QED BY Zenon, <3>1, <3>2
  <2> QED BY Zenon, <2>4 DEF GroupInv
<1>3. ASSUME NEW p \in Pid, SafeFork(p) PROVE GroupInv'
  <2>1. UNCHANGED <<test_pid, context>> /\ proc[p].pc \in Running \ {"start"}
    BY Zenon, <1>3 DEF SafeFork, lib, Body, Running
  <2>2. CASE Brk(p, "TBROK")
    <3>1. TameTable(proc')
      BY Zenon, <1>0, <2>1, <2>2, CallsTame DEF Brk
    <3> QED BY Zenon, <2>1, <3>1, GroupTame DEF GroupInv, GroupAt
  <2>3. ASSUME NEW q \in Free, proc[p].pc \in Body,
               proc' = [proc EXCEPT ![q] =
                 [NoProc EXCEPT !.pc = proc[p].pc, !.parent = p, !.grp = proc[p].grp]]
        PROVE GroupInv'
    <3>1. /\ proc'[q].pc = proc[p].pc /\ proc'[q].grp = proc[p].grp /\ q \in Pid
          /\ proc[q].pc = "none" /\ \A o \in Pid : o # q => proc'[o] = proc[o]
      BY Zenon, <1>0, <2>3 DEF Table, Free, NoProc
    <3>2. p \in Live /\ GroupAt(p) /\ proc[p].pc # "none"
      BY Zenon, <2>1, <2>3 DEF Live, GroupInv, Running, Body
    <3>3. \A o \in Pid : proc'[o].pc = "none" => proc[o].pc = "none"
      BY Zenon, <3>1, <3>2
    <3>4. proc[p].grp = test_pid => context.main_pid = test_pid
      <4>1. CASE p = test_pid
        BY Zenon, <2>3, <3>2, <4>1 DEF MainInv, MainAt, Young, InHb, Body, Live
      <4> QED BY Zenon, <3>2, <4>1 DEF GroupAt
    <3>5. ASSUME NEW o \in Live' PROVE GroupAt(o)'
      <4>1. CASE o = q
        BY Zenon, <2>1, <3>1, <3>2, <3>3, <3>4, <4>1 DEF GroupAt
      <4>2. CASE o # q
        <5>1. o \in Live /\ GroupAt(o) /\ proc'[o] = proc[o]
          BY Zenon, <3>1, <3>5, <4>2 DEF Live, GroupInv
        <5> QED BY Zenon, <2>1, <3>3, <5>1 DEF GroupAt
      <4> QED BY Zenon, <4>1, <4>2
    <3> QED BY Zenon, <3>5 DEF GroupInv
  <2> QED BY Zenon, <1>3, <2>2, <2>3, FreshFree DEF SafeFork
<1>4. ASSUME NEW p \in Pid, DoTestSetup(p), ~ForkTestrun,
             \A q \in Pid : ~SetPgid(q) /\ ~SafeFork(q)
      PROVE GroupInv'
  <2>1. context'.main_pid = p /\ UNCHANGED test_pid /\ proc[p].pc = "presetup"
    BY Zenon, <1>0, <1>4 DEF DoTestSetup, lib, ContextType
  <2>2. p = test_pid
    BY Zenon, <2>1 DEF MainInv, MainAt, IsMain, Young, Awaited
  <2>3. TameTable(proc')
    BY Zenon, <1>4, TameStep
  <2> QED BY Zenon, <2>1, <2>2, <2>3, GroupTame DEF GroupInv, GroupAt
<1>5. CASE /\ ~ForkTestrun
           /\ \A p \in Pid : ~SetPgid(p) /\ ~SafeFork(p) /\ ~DoTestSetup(p)
  <2>1. TameTable(proc')
    BY Zenon, <1>5, TameStep
  <2>2. test_pid' = test_pid /\ context'.main_pid = context.main_pid
    BY Zenon, <1>5, GroupFrame
  <2> QED BY Zenon, <2>1, <2>2, GroupTame DEF GroupInv, GroupAt
<1> QED BY Zenon, <1>1, <1>2, <1>3, <1>4, <1>5

\* kill(context->main_pid, SIGKILL) in tst_vbrk_() hits the main process of the
\* breaking child's own run, for any number of processes, variants, timeouts and
\* deaths, although nothing ties the child's steps to its run: a child that
\* outlives its run has SIGKILL pending before the next main process is forked,
\* and one that does not was forked after its main process had entered itself.
THEOREM TbrokKillsOwnRun == Spec => []TbrokKillsOwn
<1>1. Init => LeftInv /\ GroupInv
  BY DEF Init, LeftInv, GroupInv, Live, NoProc, Running, Body
<1>2. TypeInv /\ MainInv /\ LeftInv /\ GroupInv /\ [Next]_vars => LeftInv' /\ GroupInv'
  BY Zenon, LeftStep, GroupStep
<1>3. MainInv /\ LeftInv /\ GroupInv => TbrokKillsOwn
  <2> SUFFICES ASSUME MainInv, LeftInv, GroupInv, Guarded,
                      NEW p \in Pid, proc[p].pc = "kill", ~proc[p].killed
               PROVE context.main_pid = proc[p].grp
    BY Zenon DEF TbrokKillsOwn, Guarded
  <2>1. p \in Live
    BY Zenon DEF Live, Running
  <2>2. proc[p].grp = test_pid
    BY Zenon, <2>1 DEF LeftInv, Watched
  <2>3. CASE p = test_pid
    BY Zenon, <2>1, <2>2, <2>3 DEF MainInv, MainAt, Young, InHb, Live
  <2>4. CASE p # test_pid
    BY Zenon, <2>1, <2>2, <2>4 DEF GroupInv, GroupAt
  <2> QED BY Zenon, <2>3, <2>4
<1> QED BY <1>1, <1>2, <1>3, TypeInvariant, MainInvariant, PTL DEF Spec

\* What a step of the library may do to a test process.
Overseen(q) ==
  \/ proc'[q].pc = proc[q].pc /\ proc'[q].cont = proc[q].cont
  \/ proc[q].pc = "zombie" /\ proc'[q].pc = "gone"
  \/ ForkTestrun /\ proc[q].pc = "none" /\ proc'[q].pc = "start"

\* The library process forks, kills and reaps; it moves no other process.
LEMMA LibraryStep ==
  ASSUME TypeInv, Library \/ AlarmHandler \/ LibKilled \/ SigintHandler \/ UNCHANGED vars,
         NEW q \in Pid
  PROVE Overseen(q)
<1> USE DEF TypeInv
<1>0. proc \in Table /\ proc[q] \in Entry
  BY Zenon DEF Table
<1>1. CASE UNCHANGED proc
  BY Zenon, <1>1 DEF Overseen
<1>2. CASE CheckTaint \/ SigintHandler
  BY <1>0, <1>1, <1>2, KillQuiet DEF CheckTaint, SigintHandler, Still, Overseen
<1>3. CASE ForkTestrun
  <2>1. ASSUME NEW p \in Free, proc' = [proc EXCEPT ![p] = [NoProc EXCEPT
                 !.pc = "start", !.parent = LibPid, !.grp = LibPid]]
        PROVE Overseen(q)
    <3>1. proc'[p].pc = "start" /\ proc[p].pc = "none" /\ (q # p => proc'[q] = proc[q])
      BY Zenon, <1>0, <2>1 DEF Free, Table, NoProc
    <3> QED BY Zenon, <1>3, <3>1 DEF Overseen
  <2> QED BY Zenon, <1>1, <1>3, <2>1, FreshFree DEF ForkTestrun
<1>4. CASE WaitTest
  <2>1. test_pid \in Pid /\ proc[test_pid].pc = "zombie"
    BY Zenon, <1>4 DEF WaitTest, Control
  <2>2. proc'[test_pid].pc = "gone" /\ (q # test_pid => proc'[q] = proc[q])
    BY Zenon, <1>0, <1>4, <2>1 DEF WaitTest, Table, Entry, ProcRecord
  <2> QED BY Zenon, <2>1, <2>2 DEF Overseen
<1>5. CASE AlarmHandler
  <2> DEFINE k == IF lpc = "exit" THEN proc ELSE Kill(Group(test_pid))
  <2>1. k[q].pc = proc[q].pc /\ k[q].cont = proc[q].cont /\ k[q] \in Entry
    BY Zenon, <1>0, KillQuiet, KillType DEF Still, Table
  <2>2. proc'[q] = k[q] \/ proc'[q] = [k[q] EXCEPT !.parent = InitPid]
    BY Zenon, <1>5 DEF AlarmHandler
  <2> HIDE DEF k
  <2> QED BY Zenon, <2>1, <2>2 DEF Overseen, Entry, ProcRecord
<1>6. CASE LibKilled
  <2>1. proc'[q] = proc[q] \/ proc'[q] = Adopted(q)
    BY Zenon, <1>6 DEF LibKilled
  <2> QED BY Zenon, <1>0, <2>1, GoneFields DEF Adopted, Overseen, Entry, ProcRecord
<1> QED BY Zenon, <1>1, <1>2, <1>3, <1>4, <1>5, <1>6
        DEF Library, RunTcaseOnFs, Arm, Judge, NextRun, DoExit, vars

\* It leaves the histories of the main processes alone.
LEMMA LibraryQuiet ==
  ASSUME Library \/ AlarmHandler \/ LibKilled \/ SigintHandler \/ UNCHANGED vars
  PROVE UNCHANGED <<mains, cleaned, orphaned>> /\ (calls' = calls \/ calls' = 0)
  BY Zenon DEF Library, RunTcaseOnFs, Arm, ForkTestrun, WaitTest, CheckTaint, Judge, NextRun,
    DoExit, AlarmHandler, LibKilled, SigintHandler, vars, hist

-----------------------------------------------------------------------------
(* The test's cleanup() runs once *)

\* Where a process can be once it has entered do_test_cleanup().
Past == {"cleanup", "abort", "kill", "zombie", "gone"}
CleanInv == \A p \in cleaned : proc[p].pc \in Past

Enters(p) == proc'[p].pc = "cleanup" /\ proc[p].pc # "cleanup"

\* Only the main process, with its clean-up not yet begun, enters it.
LEMMA CleanProcess ==
  ASSUME TypeInv, MainInv, CleanInv, NEW p \in Pid,
         Process(p) \/ SigkillDelivered(p) \/ Crash(p) \/ Stick(p) \/ Taint(p)
  PROVE /\ Others(p)
        /\ \/ cleaned' = cleaned
           \/ cleaned' = cleaned \cup {p} /\ proc'[p].pc = "cleanup"
        /\ p \in cleaned => proc'[p].pc \in Past
        /\ Enters(p) => p \in mains /\ p \notin cleaned
<1>0. /\ NoLoop /\ MainAt(p) /\ proc[p] \in Entry /\ context.main_pid \in mains \cup {NoPid}
      /\ p # NoPid /\ (p \in cleaned => proc[p].pc \in Past)
  BY Zenon, MainNoLoop, PidAssumption DEF MainInv, TypeInv, Table, CleanInv
<1> USE <1>0
<1> USE DEF Past, Enters
<1>1. CASE BrkAbort(p) \/ BrkKill(p) \/ CleanupReturns(p) \/ Crash(p) \/ SigkillDelivered(p)
  <2>1. /\ Others(p) /\ UNCHANGED cleaned
        /\ \/ Dies(p, "ok") \/ Dies(p, "fail") \/ Dies(p, "signal") \/ Dies(p, "kill")
           \/ Acts(p, "abort", "none") \/ Acts(p, "kill", proc[p].cont)
    BY Zenon, <1>1, BrkAbortMoves, BrkKillMoves, CleanupReturnsMoves, CrashMoves,
       SigkillDeliveredMoves
      DEF BrkAbort, BrkKill, CleanupReturns, Crash, SigkillDelivered, hist
  <2> QED BY Zenon, <2>1 DEF Dies, Acts
<1>2. CASE Report(p) \/ Taint(p) \/ SafeWait(p)
  <2>1. Others(p) /\ Acts(p, proc[p].pc, proc[p].cont) /\ UNCHANGED cleaned
    BY Zenon, <1>2, ReportMoves, SafeWaitMoves DEF Report, Taint, SafeWait, hist
  <2> QED BY Zenon, <2>1 DEF Acts
<1>3. CASE SetPgid(p) \/ DoTestSetup(p) \/ Heartbeat(p) \/ SetTimeout(p) \/ Stick(p)
  <2>1. /\ Others(p) /\ UNCHANGED cleaned
        /\ \/ Acts(p, "hb", "presetup") \/ Acts(p, "setup", proc[p].cont)
           \/ Acts(p, "hb", proc[p].cont) \/ Acts(p, "beat", proc[p].cont)
           \/ Acts(p, "hb", proc[p].pc) \/ Acts(p, "stuck", proc[p].cont)
        /\ proc[p].pc \notin Past
    BY Zenon, <1>3, SetPgidMoves, DoTestSetupMoves, HeartbeatMoves, SetTimeoutMoves,
       StickMoves
      DEF SetPgid, DoTestSetup, Heartbeat, SetTimeout, Stick, hist, Body
  <2> QED BY Zenon, <2>1 DEF Acts
<1>4. CASE Beat(p)
  <2>1. /\ Others(p) /\ UNCHANGED cleaned /\ proc[p].pc = "beat" /\ proc[p].cont \in Returns
        /\ Acts(p, IF proc[p].cont = "call" THEN "test" ELSE proc[p].cont, "none")
    BY Zenon, <1>4, BeatMoves DEF Beat, Entry
  <2> QED BY Zenon, <2>1 DEF Acts, Returns
<1>5. CASE TestrunLoop(p)
  <2>1. /\ Others(p) /\ proc[p].pc = "loop"
        /\ \/ Acts(p, "hb", "call") /\ UNCHANGED cleaned
           \/ Acts(p, "cleanup", "exit") /\ cleaned' = cleaned \cup {p}
    BY Zenon, <1>5, TestrunLoopMoves DEF TestrunLoop
  <2>2. p \in mains
    BY Zenon, <2>1 DEF MainAt, Looping
  <2> QED BY Zenon, <2>1, <2>2 DEF Acts
<1>6. CASE BrkCleanup(p)
  <2>1. /\ Others(p) /\ proc[p].pc = "brk"
        /\ \/ /\ p = context.main_pid /\ Acts(p, "cleanup", proc[p].cont)
              /\ cleaned' = cleaned \cup {p}
           \/ UNCHANGED cleaned /\ (Dies(p, "ok") \/ Acts(p, "abort", "none"))
    BY Zenon, <1>6, BrkCleanupMoves DEF BrkCleanup, DoTestCleanup
  <2> QED BY Zenon, <2>1 DEF Acts, Dies
<1>7. CASE ReapChildren(p) \/ TestBrk(p) \/ BodyReturns(p) \/ SafeFork(p)
  <2>1. UNCHANGED cleaned /\ proc[p].pc \notin Past
    BY Zenon, <1>7 DEF ReapChildren, TestBrk, BodyReturns, SafeFork, hist, Body
  <2>2. CASE ReapChildren(p)
    BY Zenon, <2>1, <2>2, ReapChildrenMoves DEF Acts
  <2>3. CASE TestBrk(p)
    BY Zenon, <2>1, <2>3, TestBrkMoves DEF Acts
  <2>4. CASE BodyReturns(p)
    BY Zenon, <2>1, <2>4, BodyReturnsMoves DEF Acts, Dies
  <2>5. CASE SafeFork(p)
    BY Zenon, <2>1, <2>5, SafeForkMoves DEF Acts
  <2> QED BY Zenon, <1>7, <2>2, <2>3, <2>4, <2>5
<1> QED BY Zenon, <1>1, <1>2, <1>3, <1>4, <1>5, <1>6, <1>7 DEF Process

\* Every step keeps the count of clean-ups.
LEMMA CleanStep ==
  ASSUME TypeInv, MainInv, CleanInv, [Next]_vars
  PROVE CleanInv' /\ \A p \in Pid : Enters(p) => p \in mains /\ p \notin cleaned
<1>0. cleaned \subseteq Pid
  BY Zenon DEF TypeInv, TypeOK
<1>1. ASSUME NEW p \in Pid,
             Process(p) \/ SigkillDelivered(p) \/ Crash(p) \/ Stick(p) \/ Taint(p)
      PROVE CleanInv' /\ \A q \in Pid : Enters(q) => q \in mains /\ q \notin cleaned
  <2>1. /\ Others(p)
        /\ \/ cleaned' = cleaned
           \/ cleaned' = cleaned \cup {p} /\ proc'[p].pc = "cleanup"
        /\ p \in cleaned => proc'[p].pc \in Past
        /\ Enters(p) => p \in mains /\ p \notin cleaned
    BY Zenon, <1>1, CleanProcess
  <2>2. ASSUME NEW q \in Pid \ {p}
        PROVE /\ proc[q].pc \in Past => proc'[q].pc \in Past
              /\ ~Enters(q)
    BY Zenon, <2>1 DEF Others, Quiet, Still, Ended, Born, Body, Past, Enters
  <2> QED BY Zenon, <1>0, <2>1, <2>2 DEF CleanInv, Past
<1>2. CASE Library \/ AlarmHandler \/ LibKilled \/ SigintHandler \/ UNCHANGED vars
  <2>1. UNCHANGED cleaned /\ \A q \in Pid : Overseen(q)
    BY Zenon, <1>2, LibraryStep, LibraryQuiet
  <2> QED BY Zenon, <1>0, <2>1 DEF CleanInv, Overseen, Past, Enters
<1> QED BY Zenon, <1>1, <1>2 DEF Next, Fault

\* do_test_cleanup() is entered by main processes only, and by each at most
\* once, whichever of its processes break, crash or are killed when: a process
\* that broke in cleanup() or aborted after it never gets back into the loop.
THEOREM CleanupRunsOnce == Spec => CleanupOnce
<1>1. Init => CleanInv
  BY Zenon DEF Init, CleanInv
<1>2. TypeInv /\ MainInv /\ CleanInv /\ [Next]_vars => CleanInv'
  BY Zenon, CleanStep
<1>3. TypeInv /\ MainInv /\ CleanInv /\ [Next]_vars
        => [\A p \in Pid : proc'[p].pc = "cleanup" /\ proc[p].pc # "cleanup" =>
              p \in mains /\ p \notin cleaned]_vars
  BY Zenon, CleanStep DEF Enters
<1> QED BY <1>1, <1>2, <1>3, TypeInvariant, MainInvariant, PTL DEF Spec, CleanupOnce

-----------------------------------------------------------------------------
(* A main process without its library stops *)

AtCall(q) == proc[q].pc = "beat" /\ proc[q].cont = "call"

OrphanInv ==
  orphaned > 0 =>
    /\ orphaned = 1 /\ lpc = "dead"
    /\ \A q \in Pid : ~AtCall(q)

\* Every step keeps the account of test functions begun without a parent.
LEMMA OrphanStep ==
  ASSUME TypeInv, MainInv, OrphanInv, [Next]_vars
  PROVE OrphanInv'
<1>0. NoLoop /\ orphaned \in Nat
  BY Zenon, MainNoLoop DEF TypeInv, TypeOK
<1> USE <1>0
<1>1. ASSUME NEW p \in Pid, Beat(p) PROVE OrphanInv'
  <2>1. /\ Others(p) /\ proc[p].pc = "beat" /\ UNCHANGED lpc
        /\ Acts(p, IF proc[p].cont = "call" THEN "test" ELSE proc[p].cont, "none")
        /\ orphaned' = IF proc[p].cont = "call" /\ lpc \in {"done", "dead"}
                       THEN orphaned + 1 ELSE orphaned
    BY Zenon, <1>1, BeatMoves DEF Beat
  <2>2. ~AtCall(p)'
    BY Zenon, <2>1 DEF AtCall, Acts
  <2>3. ASSUME NEW q \in Pid \ {p}, AtCall(q)' PROVE AtCall(q)
    BY Zenon, <2>1, <2>3 DEF Others, Quiet, Still, Ended, Born, Body, AtCall
  <2>4. CASE proc[p].cont = "call" /\ lpc \in {"done", "dead"}
    <3>1. Awaited(p) /\ lpc = "dead"
      BY Zenon, <2>1, <2>4 DEF MainInv, MainAt, IsMain, Looping, InHb, Awaited
    <3>2. orphaned = 0
      BY <2>1, <2>4 DEF OrphanInv, AtCall
    <3>3. ASSUME NEW q \in Pid \ {p} PROVE ~AtCall(q)
      BY Zenon, <3>1 DEF MainInv, MainAt, IsMain, Looping, InHb, Awaited, AtCall
    <3> QED BY <2>1, <2>2, <2>3, <2>4, <3>1, <3>2, <3>3 DEF OrphanInv
  <2>5. CASE ~(proc[p].cont = "call" /\ lpc \in {"done", "dead"})
    BY Zenon, <2>1, <2>2, <2>3, <2>5 DEF OrphanInv
  <2> QED BY Zenon, <2>4, <2>5
<1>2. ASSUME NEW p \in Pid, ~Beat(p),
             Process(p) \/ SigkillDelivered(p) \/ Crash(p) \/ Stick(p) \/ Taint(p),
             orphaned > 0
      PROVE Others(p) /\ ~AtCall(p)' /\ UNCHANGED <<orphaned, lpc>>
  <2>0. lpc = "dead" /\ ~AtCall(p) /\ MainAt(p)
    BY Zenon, <1>2 DEF OrphanInv, MainInv
  <2>1. UNCHANGED <<orphaned, lpc>>
    BY Zenon, <1>2 DEF Process, SetPgid, DoTestSetup, Heartbeat, TestrunLoop, ReapChildren,
      BrkCleanup, BrkAbort, BrkKill, CleanupReturns, Report, TestBrk, SafeFork, SafeWait,
      SetTimeout, BodyReturns, Crash, Stick, Taint, SigkillDelivered, lib, hist
  <2>2. CASE Heartbeat(p)
    <3>1. /\ Others(p) /\ proc[p].pc = "hb"
          /\ \/ Acts(p, "hb", proc[p].cont)
             \/ proc[p].parent # InitPid /\ Acts(p, "beat", proc[p].cont)
      BY Zenon, <2>2, HeartbeatMoves DEF Heartbeat
    <3>2. proc[p].cont = "call" => proc[p].parent = InitPid
      BY Zenon, <2>0, <3>1 DEF MainAt, IsMain, Looping, InHb, Awaited
    <3> QED BY Zenon, <2>1, <3>1, <3>2 DEF Acts, AtCall
  <2>3. CASE TestrunLoop(p)
    BY Zenon, <2>1, <2>3, TestrunLoopMoves DEF Acts, AtCall
  <2>4. CASE ReapChildren(p)
    BY Zenon, <2>1, <2>4, ReapChildrenMoves DEF Acts, AtCall
  <2>5. CASE TestBrk(p)
    BY Zenon, <2>1, <2>5, TestBrkMoves DEF Acts, AtCall
  <2>6. CASE BodyReturns(p)
    BY Zenon, <2>1, <2>6, BodyReturnsMoves DEF Acts, Dies, AtCall
  <2>7. CASE SetPgid(p) \/ DoTestSetup(p) \/ SetTimeout(p) \/ Stick(p)
    <3>1. /\ Others(p)
          /\ \/ Acts(p, "hb", "presetup") \/ Acts(p, "setup", proc[p].cont)
             \/ Acts(p, "hb", proc[p].pc) \/ Acts(p, "stuck", proc[p].cont)
      BY Zenon, <2>7, SetPgidMoves, DoTestSetupMoves, SetTimeoutMoves, StickMoves
    <3> QED BY Zenon, <2>1, <3>1 DEF Acts, AtCall
  <2>8. CASE BrkCleanup(p) \/ BrkAbort(p) \/ BrkKill(p) \/ CleanupReturns(p) \/ Crash(p)
             \/ SigkillDelivered(p)
    <3>1. /\ Others(p)
          /\ \/ Acts(p, "cleanup", proc[p].cont) \/ Acts(p, "abort", "none")
             \/ Acts(p, "kill", proc[p].cont)
             \/ Dies(p, "ok") \/ Dies(p, "fail") \/ Dies(p, "signal") \/ Dies(p, "kill")
      BY Zenon, <2>8, BrkCleanupMoves, BrkAbortMoves, BrkKillMoves,
         CleanupReturnsMoves, CrashMoves, SigkillDeliveredMoves
    <3> QED BY Zenon, <2>1, <3>1 DEF Acts, Dies, AtCall
  <2>9. CASE Report(p) \/ Taint(p) \/ SafeWait(p) \/ SafeFork(p)
    <3>1. /\ Others(p)
          /\ Acts(p, proc[p].pc, proc[p].cont) \/ Acts(p, "brk", "abort")
      BY Zenon, <2>9, ReportMoves, SafeForkMoves, SafeWaitMoves
    <3> QED BY Zenon, <2>0, <2>1, <3>1 DEF Acts, AtCall
  <2> QED BY ZenonT(60), <1>2, <2>2, <2>3, <2>4, <2>5, <2>6, <2>7, <2>8, <2>9 DEF Process
<1>3. ASSUME NEW p \in Pid, ~Beat(p),
             Process(p) \/ SigkillDelivered(p) \/ Crash(p) \/ Stick(p) \/ Taint(p)
      PROVE OrphanInv'
  <2>1. UNCHANGED orphaned
    BY Zenon, <1>3 DEF Process, SetPgid, DoTestSetup, Heartbeat, TestrunLoop, ReapChildren,
      BrkCleanup, BrkAbort, BrkKill, CleanupReturns, Report, TestBrk, SafeFork, SafeWait,
      SetTimeout, BodyReturns, Crash, Stick, Taint, SigkillDelivered, hist
  <2>2. CASE orphaned > 0
    <3>1. Others(p) /\ ~AtCall(p)' /\ UNCHANGED <<orphaned, lpc>>
      BY Zenon, <1>2, <1>3, <2>2
    <3>2. ASSUME NEW q \in Pid \ {p}, AtCall(q)' PROVE AtCall(q)
      BY Zenon, <3>1, <3>2 DEF Others, Quiet, Still, Ended, Born, Body, AtCall
    <3> QED BY Zenon, <2>2, <3>1, <3>2 DEF OrphanInv
  <2> QED BY Zenon, <2>1, <2>2 DEF OrphanInv
<1>4. CASE Library \/ AlarmHandler \/ LibKilled \/ SigintHandler \/ UNCHANGED vars
  <2>1. UNCHANGED orphaned /\ \A q \in Pid : Overseen(q)
    BY Zenon, <1>4, LibraryStep, LibraryQuiet
  <2>2. \A q \in Pid : AtCall(q)' => AtCall(q)
    BY Zenon, <2>1 DEF Overseen, AtCall
  <2>3. lpc = "dead" => lpc' = "dead"
    BY Zenon, <1>4
      DEF Library, RunTcaseOnFs, Arm, ForkTestrun, WaitTest, CheckTaint, Judge, NextRun, DoExit,
          AlarmHandler, LibKilled, SigintHandler, vars, lib
  <2> QED BY Zenon, <2>1, <2>2, <2>3 DEF OrphanInv
<1> QED BY Zenon, <1>1, <1>3, <1>4 DEF Next, Fault

\* A main process whose library is gone begins at most one more test function:
\* heartbeat() sees that init is the parent, whenever the library died.
THEOREM OrphanStopsHolds == Spec => []OrphanStops
<1>1. Init => OrphanInv
  BY DEF Init, OrphanInv
<1>2. TypeInv /\ MainInv /\ OrphanInv /\ [Next]_vars => OrphanInv'
  BY Zenon, OrphanStep
<1>3. TypeInv /\ OrphanInv => OrphanStops
  BY DEF OrphanInv, OrphanStops, TypeInv, TypeOK
<1> QED BY <1>1, <1>2, <1>3, TypeInvariant, MainInvariant, PTL DEF Spec

-----------------------------------------------------------------------------
(* The exit status *)

\* The test said something other than a warning; it broke; it failed; it said
\* enough for an exit status of 0.
Said == results \ {"TWARN"} # {}
Broken == "TBROK" \in results
Failed == results \cap {"TFAIL", "TBROK"} # {}
Enough == Said \/ Iterations = 0

\* On the way to abort_flag, and on the way to the first test function.
Breaking(r) ==
  r.pc \in {"abort", "kill"} \/ (r.pc \in {"brk", "cleanup"} /\ r.cont # "exit")
BeforeTests(p) ==
  \/ Young(proc[p])
  \/ p = context.main_pid /\ (proc[p].pc = "setup" \/ (InHb(proc[p]) /\ proc[p].cont = "setup"))

SaidAt(p) ==
  /\ Breaking(proc[p]) => Broken
  /\ proc[p].pc = "brk" => Said
  /\ proc[p].pc = "cleanup" => Enough
  /\ InHb(proc[p]) /\ proc[p].cont = "loop" => Said
  /\ proc[p].pc = "loop" /\ calls > 0 => Said
  /\ BeforeTests(p) => calls = 0
  /\ p = test_pid /\ proc[p].pc = "zombie" /\ proc[p].cont = "ok" => Enough

SharedSaid ==
  /\ reported => Said
  /\ context.abort_flag => Broken

LibSaid ==
  /\ lpc \in {"reaped", "judge"} =>
       /\ proc[test_pid].pc = "gone"
       /\ proc[test_pid].cont = "ok" => Enough
  /\ lpc \in {"next", "exit"} => Enough
  /\ lpc = "done" /\ code = {} => "TPASS" \in results \/ Iterations = 0
  /\ badend =>
       \/ lpc = "dead"
       \/ lpc = "done" /\ code # {}
       \/ lpc # "done" /\ Failed
       \/ lpc \in {"reaped", "judge"} /\ proc[test_pid].cont # "ok"

SaidInv == SharedSaid /\ LibSaid /\ \A p \in Pid : SaidAt(p)

\* The result counters only grow.
Grown == results \subseteq results'

\* What was said stays said.
LEMMA SaidGrows ==
  ASSUME Grown
  PROVE (Said => Said') /\ (Broken => Broken') /\ (Enough => Enough') /\ (Failed => Failed')
  BY Zenon DEF Grown, Said, Broken, Enough, Failed

\* A step that counts no result loses none.
LEMMA SameGrown ==
  ASSUME UNCHANGED results
  PROVE Grown
  BY Zenon DEF Grown

\* update_results() counts what it is given.
LEMMA UpdateSays ==
  ASSUME NEW t, Update(t)
  PROVE /\ Grown
        /\ t # "TWARN" => Said'
        /\ t = "TBROK" => Broken'
        /\ t = "TFAIL" \/ t = "TBROK" => Failed'
        /\ (reported => Said) => (reported' => Said')
  BY Zenon DEF Update, Grown, Said, Broken, Failed

\* TBROK is a result, and a failure.
LEMMA BrokenSays == Broken => Said /\ Failed
  BY DEF Broken, Said, Failed

\* A loop of at least one iteration over at least one test case calls the test.
LEMMA CallsPositive ==
  ASSUME NEW i \in Nat, NEW t \in Nat \ {0}, NEW c \in Nat, c >= i * t, i # 0
  PROVE c > 0
<1>1. i * t > 0
  OBVIOUS
<1>2. i * t \in Nat
  OBVIOUS
<1> QED BY <1>1, <1>2

\* What a step of a test process leaves alone.
LEMMA ProcessFrame ==
  ASSUME NEW p \in Pid,
         Process(p) \/ SigkillDelivered(p) \/ Crash(p) \/ Stick(p) \/ Taint(p)
  PROVE UNCHANGED <<lpc, test_pid, code, badend, tst_test>>
  BY Zenon DEF Process, SetPgid, DoTestSetup, Heartbeat, Beat, TestrunLoop, ReapChildren,
    BrkCleanup, BrkAbort, BrkKill, CleanupReturns, Report, TestBrk, SafeFork, SafeWait,
    SetTimeout, BodyReturns, Crash, Stick, Taint, SigkillDelivered, lib, hist, env

\* After a step of p: what was said stays said, and what p's place in the code
\* presupposes has been said.
Sound(p) ==
  /\ SaidAt(p)' /\ SharedSaid' /\ Grown
  /\ UNCHANGED calls \/ Looping(proc[p])

\* The steps of the main process up to and around the test function.
LEMMA SoundMain ==
  ASSUME TypeInv, MainInv, SharedSaid, NEW p \in Pid, SaidAt(p), UNCHANGED test_pid,
         \/ SetPgid(p) \/ DoTestSetup(p) \/ Heartbeat(p) \/ Beat(p) \/ TestrunLoop(p)
         \/ ReapChildren(p)
  PROVE Sound(p) /\ Others(p)
<1>0. NoLoop /\ MainAt(p) /\ proc[p] \in Entry /\ calls \in Nat /\ context \in ContextType
  BY Zenon, MainNoLoop DEF MainInv, TypeInv, Table, TypeOK, ContextType
<1> USE <1>0
<1>1. CASE SetPgid(p)
  <2>1. Others(p) /\ Acts(p, "hb", "presetup") /\ proc[p].pc = "start"
        /\ UNCHANGED <<context, results, reported, calls>>
    BY Zenon, <1>1, SetPgidMoves DEF SetPgid, shared
  <2> QED BY Zenon, <2>1, SaidGrows, SameGrown
        DEF SaidAt, Breaking, BeforeTests, Young, InHb, Acts, Sound, SharedSaid
<1>2. CASE DoTestSetup(p)
  <2>1. Others(p) /\ Acts(p, "setup", proc[p].cont) /\ proc[p].pc = "presetup"
        /\ UNCHANGED <<results, reported, calls>>
    BY Zenon, <1>2, DoTestSetupMoves DEF DoTestSetup
  <2>2. context'.abort_flag = context.abort_flag
    BY Zenon, <1>2 DEF DoTestSetup, ContextType
  <2> QED BY Zenon, <2>1, <2>2, SaidGrows, SameGrown
        DEF SaidAt, Breaking, BeforeTests, Young, InHb, Acts, Sound, SharedSaid
<1>3. CASE Heartbeat(p)
  <2>1. /\ Others(p) /\ proc[p].pc = "hb" /\ UNCHANGED <<context, calls>>
        /\ Acts(p, "hb", proc[p].cont) \/ Acts(p, "beat", proc[p].cont)
    BY Zenon, <1>3, HeartbeatMoves DEF Heartbeat
  <2>2. Grown /\ (reported' => Said')
    BY Zenon, <1>3, SaidGrows, SameGrown, UpdateSays DEF Heartbeat, SharedSaid
  <2> QED BY Zenon, <2>1, <2>2, SaidGrows, SameGrown
        DEF SaidAt, Breaking, BeforeTests, Young, InHb, Acts, Sound, SharedSaid
<1>4. CASE Beat(p)
  <2>1. /\ Others(p) /\ proc[p].pc = "beat" /\ proc[p].cont \in Returns
        /\ Acts(p, IF proc[p].cont = "call" THEN "test" ELSE proc[p].cont, "none")
        /\ UNCHANGED <<context, results, reported, calls>>
    BY Zenon, <1>4, BeatMoves DEF Beat, Entry, shared
  <2> QED BY Zenon, <2>1, SaidGrows, SameGrown
        DEF SaidAt, Breaking, BeforeTests, Young, InHb, Acts, Sound, SharedSaid, Returns
<1>5. CASE TestrunLoop(p)
  <2>1. /\ Others(p) /\ proc[p].pc = "loop" /\ UNCHANGED <<context, results>>
        /\ \/ Acts(p, "hb", "call") /\ ~reported'
           \/ /\ calls >= Iterations * tst_test.tcnt
              /\ Acts(p, "cleanup", "exit") /\ UNCHANGED <<reported, calls>>
    BY Zenon, <1>5, TestrunLoopMoves DEF TestrunLoop
  <2>2. calls >= Iterations * tst_test.tcnt => Enough
    <3>1. tst_test.tcnt \in Nat \ {0}
      BY Zenon, TestsAssumption DEF TypeInv, TypeOK
    <3> QED BY Zenon, <2>1, <3>1, CallsPositive, IterationsAssumption DEF SaidAt, Enough
  <2>3. Grown /\ Looping(proc[p])
    BY Zenon, <2>1, SameGrown DEF Looping
  <2>4. CASE Acts(p, "hb", "call") /\ ~reported'
    BY Zenon, <2>1, <2>3, <2>4, SaidGrows
      DEF SaidAt, Breaking, BeforeTests, Young, InHb, Acts, Sound, SharedSaid
  <2>5. CASE /\ calls >= Iterations * tst_test.tcnt
             /\ Acts(p, "cleanup", "exit") /\ UNCHANGED <<reported, calls>>
    BY Zenon, <2>1, <2>2, <2>3, <2>5, SaidGrows
      DEF SaidAt, Breaking, BeforeTests, Young, InHb, Acts, Sound, SharedSaid
  <2> QED BY Zenon, <2>1, <2>4, <2>5
<1>6. CASE ReapChildren(p)
  <2>1. /\ Others(p) /\ proc[p].pc = "reap" /\ UNCHANGED context
        /\ \/ Acts(p, "reap", proc[p].cont) /\ UNCHANGED <<results, reported, calls>>
           \/ Acts(p, "brk", "abort") /\ Update("TBROK") /\ UNCHANGED calls
           \/ Acts(p, "hb", "call") /\ ~reported' /\ calls' = calls + 1 /\ UNCHANGED results
           \/ reported /\ Acts(p, "hb", "loop") /\ UNCHANGED <<results, reported, calls>>
    BY Zenon, <1>6, ReapChildrenMoves DEF ReapChildren
  <2>2. Grown /\ Looping(proc[p])
    BY Zenon, <2>1, SameGrown, UpdateSays DEF Looping
  <2>3. CASE Acts(p, "reap", proc[p].cont) /\ UNCHANGED reported
    BY Zenon, <2>1, <2>2, <2>3, SaidGrows
      DEF SaidAt, Breaking, BeforeTests, Young, InHb, Acts, Sound, SharedSaid
  <2>6. CASE Acts(p, "hb", "call") /\ ~reported'
    BY Zenon, <2>1, <2>2, <2>6, SaidGrows
      DEF SaidAt, Breaking, BeforeTests, Young, InHb, Acts, Sound, SharedSaid
  <2>4. CASE Acts(p, "brk", "abort") /\ Update("TBROK")
    <3>1. Broken' /\ Said'
      BY <2>4, UpdateSays
    <3> QED BY Zenon, <2>1, <2>2, <2>4, <3>1, SaidGrows
        DEF SaidAt, Breaking, BeforeTests, Young, InHb, Acts, Sound, SharedSaid
  <2>5. CASE reported /\ Acts(p, "hb", "loop") /\ UNCHANGED reported
    BY Zenon, <2>1, <2>2, <2>5, SaidGrows
      DEF SaidAt, Breaking, BeforeTests, Young, InHb, Acts, Sound, SharedSaid
  <2> QED BY Zenon, <2>1, <2>3, <2>4, <2>5, <2>6
<1> QED BY Zenon, <1>1, <1>2, <1>3, <1>4, <1>5, <1>6

\* The steps inside the test, its clean-up and its death.
LEMMA SoundBody ==
  ASSUME TypeInv, MainInv, SharedSaid, NEW p \in Pid, SaidAt(p), UNCHANGED test_pid, SameMain,
         \/ BrkCleanup(p) \/ BrkAbort(p) \/ BrkKill(p) \/ CleanupReturns(p) \/ Report(p)
         \/ TestBrk(p) \/ SafeFork(p) \/ SafeWait(p) \/ SetTimeout(p) \/ BodyReturns(p)
         \/ Crash(p) \/ Stick(p) \/ Taint(p) \/ SigkillDelivered(p)
  PROVE Sound(p) /\ Others(p)
<1>0. NoLoop /\ MainAt(p) /\ context \in ContextType
  BY Zenon, MainNoLoop DEF MainInv, TypeInv, TypeOK, ContextType
<1> USE <1>0
<1>1. UNCHANGED calls
  BY Zenon DEF BrkCleanup, BrkAbort, BrkKill, CleanupReturns, Report, TestBrk, SafeFork,
    SafeWait, SetTimeout, BodyReturns, Crash, Stick, Taint, SigkillDelivered
<1> USE <1>1
<1>2. CASE BrkCleanup(p)
  <2>1. /\ Others(p) /\ proc[p].pc = "brk" /\ UNCHANGED <<context, results, reported>>
        /\ \/ Acts(p, "cleanup", proc[p].cont)
           \/ Dies(p, "ok")
           \/ proc[p].cont # "exit" /\ Acts(p, "abort", "none")
    BY Zenon, <1>2, BrkCleanupMoves DEF BrkCleanup, shared
  <2> QED BY Zenon, <2>1, SaidGrows, SameGrown
        DEF SaidAt, Breaking, BeforeTests, Young, InHb, Acts, Dies, Sound, SharedSaid, Enough
<1>3. CASE BrkAbort(p)
  <2>1. /\ Others(p) /\ proc[p].pc = "abort" /\ UNCHANGED <<results, reported>>
        /\ Acts(p, "kill", proc[p].cont) \/ Dies(p, "ok")
    BY Zenon, <1>3, BrkAbortMoves DEF BrkAbort
  <2>2. Broken /\ Said
    BY Zenon, <2>1, BrokenSays DEF SaidAt, Breaking
  <2> QED BY Zenon, <2>1, <2>2, SaidGrows, SameGrown
        DEF SaidAt, Breaking, BeforeTests, Young, InHb, Acts, Dies, Sound, SharedSaid, Enough
<1>4. CASE BrkKill(p)
  <2>1. /\ Others(p) /\ proc[p].pc = "kill" /\ UNCHANGED <<context, results, reported>>
        /\ Dies(p, "ok")
    BY Zenon, <1>4, BrkKillMoves DEF BrkKill, shared
  <2> QED BY Zenon, <2>1, SaidGrows, SameGrown, BrokenSays
        DEF SaidAt, Breaking, BeforeTests, Young, InHb, Dies, Sound, SharedSaid, Enough
<1>5. CASE CleanupReturns(p)
  <2>1. /\ Others(p) /\ proc[p].pc = "cleanup" /\ UNCHANGED <<context, results, reported>>
        /\ \/ Dies(p, "ok")
           \/ proc[p].cont # "exit" /\ Acts(p, "abort", "none")
    BY Zenon, <1>5, CleanupReturnsMoves DEF CleanupReturns, shared
  <2> QED BY Zenon, <2>1, SaidGrows, SameGrown
        DEF SaidAt, Breaking, BeforeTests, Young, InHb, Acts, Dies, Sound, SharedSaid
<1>6. CASE Report(p) \/ Taint(p) \/ SafeWait(p)
  <2>1. Others(p) /\ Acts(p, proc[p].pc, proc[p].cont) /\ UNCHANGED context
    BY Zenon, <1>6, ReportMoves, SafeWaitMoves DEF Report, Taint, SafeWait, shared
  <2>2. Grown /\ (reported' => Said')
    <3>1. UNCHANGED <<results, reported>> \/ \E t \in Ttype : Update(t)
      BY Zenon, <1>6 DEF Report, Taint, SafeWait, shared
    <3> QED BY <3>1, SaidGrows, SameGrown, UpdateSays DEF SharedSaid
  <2> QED BY ZenonT(60), <2>1, <2>2, SaidGrows, SameGrown
        DEF SaidAt, Breaking, BeforeTests, Young, InHb, Acts, Sound, SharedSaid
<1>7. CASE Stick(p) \/ Crash(p) \/ SigkillDelivered(p)
  <2>1. /\ Others(p) /\ UNCHANGED <<context, results, reported>>
        /\ \/ Acts(p, "stuck", proc[p].cont)
           \/ Dies(p, "fail") \/ Dies(p, "signal") \/ Dies(p, "kill")
    BY Zenon, <1>7, StickMoves, CrashMoves, SigkillDeliveredMoves
      DEF Stick, Crash, SigkillDelivered, shared
  <2> QED BY Zenon, <2>1, SaidGrows, SameGrown
        DEF SaidAt, Breaking, BeforeTests, Young, InHb, Acts, Dies, Sound, SharedSaid
<1>8. ASSUME NEW t \in {"TFAIL", "TCONF", "TBROK"}, Update(t), UNCHANGED context, Others(p),
             Acts(p, "brk", IF t = "TBROK" THEN "abort" ELSE "exit")
      PROVE Sound(p)
  <2>1. Grown /\ Said' /\ (t = "TBROK" => Broken')
    BY Zenon, <1>8, UpdateSays
  <2> QED BY Zenon, <1>8, <2>1, SaidGrows, SameGrown
        DEF SaidAt, Breaking, BeforeTests, Young, InHb, Acts, Sound, SharedSaid
<1>9. CASE TestBrk(p)
  BY Zenon, <1>8, <1>9, TestBrkMoves DEF TestBrk
<1>10. CASE SafeFork(p)
  <2>1. /\ Others(p) /\ UNCHANGED context
        /\ \/ Acts(p, proc[p].pc, proc[p].cont) /\ UNCHANGED <<results, reported>>
           \/ Acts(p, "brk", "abort") /\ Update("TBROK")
    BY Zenon, <1>10, SafeForkMoves DEF SafeFork
  <2>2. CASE Acts(p, proc[p].pc, proc[p].cont) /\ UNCHANGED <<results, reported>>
    BY ZenonT(60), <2>1, <2>2, SaidGrows, SameGrown
      DEF SaidAt, Breaking, BeforeTests, Young, InHb, Acts, Sound, SharedSaid
  <2> QED BY Zenon, <1>8, <2>1, <2>2
<1>11. CASE SetTimeout(p)
  <2>1. Others(p) /\ Acts(p, "hb", proc[p].pc) /\ proc[p].pc \in Body
        /\ UNCHANGED <<results, reported>>
    BY Zenon, <1>11, SetTimeoutMoves DEF SetTimeout
  <2>2. context'.abort_flag = context.abort_flag /\ context'.main_pid = context.main_pid
    BY Zenon, <1>11 DEF SetTimeout, ContextType
  <2> QED BY Zenon, <2>1, <2>2, SaidGrows, SameGrown
        DEF SaidAt, Breaking, BeforeTests, Young, InHb, Acts, Sound, SharedSaid, Body
<1>12. CASE BodyReturns(p)
  <2>1. /\ Others(p) /\ UNCHANGED context
        /\ \/ /\ proc[p].pc = "setup" /\ p = context.main_pid
              /\ Acts(p, "loop", proc[p].cont) /\ UNCHANGED <<results, reported>>
           \/ Acts(p, "brk", "abort") /\ Update("TBROK")
           \/ Acts(p, "reap", proc[p].cont) /\ UNCHANGED <<results, reported>>
           \/ /\ proc[p].pc = "test" /\ p # context.main_pid
              /\ Dies(p, "ok") /\ UNCHANGED <<results, reported>>
    BY Zenon, <1>12, BodyReturnsMoves DEF BodyReturns
  <2>2. CASE proc[p].pc = "test" /\ p # context.main_pid
             /\ Dies(p, "ok") /\ UNCHANGED <<results, reported>>
    <3>1. p # test_pid
      BY Zenon, <2>2 DEF MainAt, Young, InHb, Running, Body
    <3> QED BY ZenonT(60), <2>1, <2>2, <3>1, SaidGrows, SameGrown
          DEF SaidAt, Breaking, BeforeTests, Young, InHb, Dies, Sound, SharedSaid
  <2>3. CASE UNCHANGED <<results, reported>> /\ Acts(p, "reap", proc[p].cont)
    BY Zenon, <2>1, <2>3, SaidGrows, SameGrown
      DEF SaidAt, Breaking, BeforeTests, Young, InHb, Acts, Sound, SharedSaid
  <2>4. CASE /\ proc[p].pc = "setup" /\ p = context.main_pid
             /\ Acts(p, "loop", proc[p].cont) /\ UNCHANGED <<results, reported>>
    <3>1. calls' = 0
      BY Zenon, <2>4 DEF SaidAt, BeforeTests
    <3>2. ~(calls' > 0)
      BY ONLY <3>1
    <3> QED BY ZenonT(60), <2>1, <2>4, <3>2, SaidGrows, SameGrown
        DEF SaidAt, Breaking, BeforeTests, Young, InHb, Acts, Sound, SharedSaid
  <2> QED BY ZenonT(60), <1>8, <2>1, <2>2, <2>3, <2>4
<1> QED BY ZenonT(60), <1>2, <1>3, <1>4, <1>5, <1>6, <1>7, <1>9, <1>10, <1>11, <1>12

\* The processes that do not take the step.
LEMMA SaidQuiet ==
  ASSUME TypeInv, MainInv, NEW p \in Pid, NEW q \in Pid \ {p}, SaidAt(q), Quiet(q, proc'[q]),
         UNCHANGED test_pid, Grown,
         UNCHANGED calls \/ Looping(proc[p]),
         context'.main_pid \in {context.main_pid, p}
  PROVE SaidAt(q)'
<1>0. MainAt(p) /\ MainAt(q) /\ (q = context.main_pid => q \in mains)
  BY Zenon, PidAssumption DEF MainInv
<1>1. CASE Still(q, proc'[q])
  <2>1. BeforeTests(q)' => BeforeTests(q)
    BY Zenon, <1>1 DEF BeforeTests, Still, Young, InHb
  <2>2. BeforeTests(q) \/ proc[q].pc = "loop" => UNCHANGED calls
    <3>1. Looping(proc[p]) => p = test_pid /\ p = context.main_pid
      BY Zenon, <1>0 DEF MainAt, IsMain, Awaited
    <3>2. proc[q].pc = "loop" \/ Young(proc[q]) => q = test_pid
      BY Zenon, <1>0 DEF MainAt, IsMain, Awaited, Looping
    <3> QED BY Zenon, <3>1, <3>2 DEF BeforeTests
  <2> QED BY Zenon, <1>1, <2>1, <2>2, SaidGrows DEF SaidAt, Still, Breaking, InHb
<1>2. CASE Ended(q, proc'[q])
  BY Zenon, <1>2 DEF Ended, SaidAt, Breaking, BeforeTests, Young, InHb
<1>3. CASE Born(q, proc'[q])
  <2>1. q # context'.main_pid
    BY Zenon, <1>0, <1>3 DEF MainAt, Born
  <2> QED BY Zenon, <1>3, <2>1 DEF Born, SaidAt, Breaking, BeforeTests, Young, InHb, Body
<1> QED BY Zenon, <1>1, <1>2, <1>3 DEF Quiet

\* The library's part, when the library does not move.
LEMMA LibSame ==
  ASSUME LibSaid, Grown, UNCHANGED <<lpc, test_pid, code, badend, tst_test>>,
         lpc \in {"reaped", "judge"} =>
           proc'[test_pid].pc = "gone" /\ proc'[test_pid].cont = proc[test_pid].cont
  PROVE LibSaid'
<1>1. "TPASS" \in results => "TPASS" \in results'
  BY Zenon DEF Grown
<1> QED BY Zenon, <1>1, SaidGrows DEF LibSaid

\* Every step of a test process keeps the account of what was said.
LEMMA SaidProcess ==
  ASSUME TypeInv, MainInv, SaidInv, NEW p \in Pid,
         Process(p) \/ SigkillDelivered(p) \/ Crash(p) \/ Stick(p) \/ Taint(p)
  PROVE SaidInv'
<1>1. UNCHANGED <<lpc, test_pid, code, badend, tst_test>>
  BY Zenon, ProcessFrame
<1>2. context'.main_pid \in {context.main_pid, p}
  <2>1. CASE DoTestSetup(p)
    BY Zenon, <2>1 DEF DoTestSetup, TypeInv, TypeOK
  <2> QED BY Zenon, <2>1, ActorMain DEF SameMain
<1>3. SharedSaid /\ SaidAt(p)
  BY Zenon DEF SaidInv
<1>4. Sound(p) /\ Others(p)
  BY Zenon, <1>1, <1>3, ActorMain, SoundMain, SoundBody DEF Process
<1>5. /\ Grown /\ SaidAt(p)' /\ SharedSaid'
      /\ UNCHANGED calls \/ Looping(proc[p])
  BY Zenon, <1>4 DEF Sound
<1>6. ASSUME NEW q \in Pid PROVE SaidAt(q)'
  BY ZenonT(60), <1>1, <1>2, <1>4, <1>5, SaidQuiet DEF Others, SaidInv
<1>7. proc[p].pc \in Running
  BY Zenon DEF Process, SetPgid, DoTestSetup, Heartbeat, Beat, TestrunLoop, ReapChildren,
    BrkCleanup, BrkAbort, BrkKill, CleanupReturns, Report, TestBrk, SafeFork, SafeWait,
    SetTimeout, BodyReturns, Crash, Stick, Taint, SigkillDelivered, Live, Running, Body
<1>8. lpc \in {"reaped", "judge"} =>
        proc'[test_pid].pc = "gone" /\ proc'[test_pid].cont = proc[test_pid].cont
  <2> SUFFICES ASSUME lpc \in {"reaped", "judge"}
               PROVE proc'[test_pid].pc = "gone" /\ proc'[test_pid].cont = proc[test_pid].cont
    OBVIOUS
  <2>1. proc[test_pid].pc = "gone" /\ test_pid \in Pid
    BY Zenon DEF SaidInv, LibSaid, TypeInv, Control
  <2>2. test_pid # p
    BY Zenon, <1>7, <2>1 DEF Running, Body
  <2>3. Quiet(test_pid, proc'[test_pid])
    BY Zenon, <1>4, <2>1, <2>2 DEF Others
  <2> QED BY Zenon, <2>1, <2>3 DEF Quiet, Still, Ended, Born, Running, Body
<1>9. LibSaid'
  BY Zenon, <1>1, <1>5, <1>8, LibSame DEF SaidInv
<1> QED BY Zenon, <1>5, <1>6, <1>9 DEF SaidInv

\* The test processes, when the library takes a step.
LEMMA SaidOverseen ==
  ASSUME NEW q \in Pid, SaidAt(q), Overseen(q), Grown,
         context'.main_pid = context.main_pid, UNCHANGED calls \/ calls' = 0,
         UNCHANGED test_pid \/ proc'[test_pid'].pc = "start",
         proc'[q].pc = "start" => proc[q].pc = "start" \/ calls' = 0
  PROVE SaidAt(q)'
<1>1. CASE proc'[q].pc = proc[q].pc /\ proc'[q].cont = proc[q].cont
  <2>1. BeforeTests(q)' => BeforeTests(q)
    BY Zenon, <1>1 DEF BeforeTests, Young, InHb
  <2>2. calls' > 0 => calls > 0
    OBVIOUS
  <2> QED BY Zenon, <1>1, <2>1, <2>2, SaidGrows DEF SaidAt, Breaking, InHb
<1>2. CASE proc'[q].pc = "gone"
  BY Zenon, <1>2 DEF SaidAt, Breaking, BeforeTests, Young, InHb
<1>3. CASE proc[q].pc = "none" /\ proc'[q].pc = "start"
  BY Zenon, <1>3 DEF SaidAt, Breaking, BeforeTests, Young, InHb
<1> QED BY Zenon, <1>1, <1>2, <1>3 DEF Overseen

\* So does every step of the library process.
LEMMA SaidLibrary ==
  ASSUME TypeInv, SaidInv,
         Library \/ AlarmHandler \/ LibKilled \/ SigintHandler \/ UNCHANGED vars
  PROVE SaidInv'
<1>0. context \in ContextType /\ proc \in Table /\ SharedSaid /\ LibSaid
  BY Zenon DEF TypeInv, TypeOK, ContextType, SaidInv
<1> USE <1>0
<1>1. \A q \in Pid : Overseen(q)
  BY Zenon, LibraryStep
<1>2. context'.main_pid = context.main_pid /\ context'.abort_flag = context.abort_flag
  <2>1. context' = context \/ \E b \in BOOLEAN : context' = [context EXCEPT !.mounted = b]
    BY Zenon DEF Library, RunTcaseOnFs, Arm, ForkTestrun, WaitTest, CheckTaint, Judge,
      NextRun, DoExit, AlarmHandler, LibKilled, SigintHandler, vars, shared
  <2> QED BY Zenon, <2>1 DEF ContextType
<1>3. Grown /\ (reported' => Said')
  <2>1. UNCHANGED <<results, reported>> \/ \E t \in {"TCONF", "TBROK", "TFAIL"} : Update(t)
    BY Zenon DEF Library, RunTcaseOnFs, Arm, ForkTestrun, WaitTest, CheckTaint, Judge,
      NextRun, DoExit, AlarmHandler, LibKilled, SigintHandler, vars, shared, LibBrk
  <2> QED BY SMTT(60), <2>1, SaidGrows, SameGrown, UpdateSays DEF SharedSaid
<1> USE <1>3
<1>4. SharedSaid'
  BY Zenon, <1>2, SaidGrows, SameGrown DEF SharedSaid
<1>5. \/ /\ UNCHANGED <<test_pid, calls>>
         /\ \A q \in Pid : proc'[q].pc = "start" => proc[q].pc = "start"
      \/ calls' = 0 /\ (UNCHANGED test_pid \/ proc'[test_pid'].pc = "start")
  <2>1. ASSUME NEW p \in Free, test_pid' = p, proc' = [proc EXCEPT ![p] = [NoProc EXCEPT
                 !.pc = "start", !.parent = LibPid, !.grp = LibPid]]
        PROVE proc'[test_pid'].pc = "start"
    BY Zenon, <2>1 DEF Free, Table, NoProc
  <2>2. CASE ForkTestrun
    BY Zenon, <2>1, <2>2, FreshFree DEF ForkTestrun
  <2>3. CASE ~ForkTestrun
    <3>1. UNCHANGED <<test_pid, calls>>
      BY Zenon, <2>3 DEF Library, RunTcaseOnFs, Arm, WaitTest, CheckTaint, Judge,
        NextRun, DoExit, AlarmHandler, LibKilled, SigintHandler, vars, lib
    <3>2. \A q \in Pid : proc'[q].pc = "start" => proc[q].pc = "start"
      BY Zenon, <1>1, <2>3 DEF Overseen
    <3> QED BY Zenon, <3>1, <3>2
  <2> QED BY Zenon, <2>2, <2>3
<1>6. ASSUME NEW q \in Pid PROVE SaidAt(q)'
  BY Zenon, <1>1, <1>2, <1>5, SaidOverseen DEF SaidInv
<1>7. lpc \in {"reaped", "judge"} /\ UNCHANGED test_pid =>
        proc'[test_pid].pc = "gone" /\ proc'[test_pid].cont = proc[test_pid].cont
  BY Zenon, <1>1 DEF Overseen, LibSaid, TypeInv, Control
<1>8. LibSaid'
  <2> USE SaidGrows, SameGrown
  <2>1. CASE UNCHANGED vars \/ SigintHandler
    BY Zenon, <1>7, <2>1, LibSame DEF vars, lib, hist, env, SigintHandler
  <2>10. CASE Arm
    BY Zenon, <2>10 DEF Arm, shared, hist, env, LibSaid
  <2>2. CASE NextRun
    BY <2>2 DEF NextRun, LibSaid, hist, env
  <2>11. CASE RunTcaseOnFs
    <3>1. UNCHANGED badend /\ lpc = "loop"
      BY Zenon, <2>11 DEF RunTcaseOnFs, hist
    <3>2. \/ lpc' \in {"next", "exit"} /\ \E t \in {"TCONF", "TBROK"} : Update(t)
          \/ lpc' = "arm"
      BY Zenon, <2>11 DEF RunTcaseOnFs, LibBrk
    <3>3. CASE \E t \in {"TCONF", "TBROK"} : Update(t)
      <4>1. Said'
        BY <3>3, UpdateSays
      <4> QED BY Zenon, <3>1, <3>2, <4>1 DEF LibSaid, Enough
    <3> QED BY Zenon, <3>1, <3>2, <3>3 DEF LibSaid
  <2>3. CASE ForkTestrun
    BY Zenon, <2>3, UpdateSays DEF ForkTestrun, LibBrk, LibSaid, hist, env, Enough
  <2>4. CASE WaitTest
    <3>1. test_pid \in Pid /\ proc[test_pid].pc = "zombie" /\ SaidAt(test_pid)
      BY Zenon, <2>4 DEF WaitTest, TypeInv, Control, SaidInv
    <3>2. proc'[test_pid].pc = "gone" /\ proc'[test_pid].cont = proc[test_pid].cont
      BY Zenon, <2>4, <3>1 DEF WaitTest, Table, Entry, ProcRecord
    <3> QED BY Zenon, <2>4, <3>1, <3>2 DEF WaitTest, LibSaid, SaidAt, shared, hist, env
  <2>5. CASE CheckTaint
    <3>1. UNCHANGED <<test_pid, code, badend, tst_test>> /\ lpc = "reaped"
      BY Zenon, <2>5 DEF CheckTaint, hist, env
    <3>2. CASE Update("TFAIL") /\ lpc' = "next"
      <4>1. Said' /\ Failed'
        BY <3>2, UpdateSays
      <4> QED BY Zenon, <3>1, <3>2, <4>1 DEF LibSaid, Enough
    <3>3. CASE lpc' = "judge" /\ UNCHANGED <<results, reported>>
      BY Zenon, <1>7, <3>1, <3>3 DEF LibSaid
    <3> QED BY Zenon, <2>5, <3>2, <3>3 DEF CheckTaint
  <2>6. CASE Judge
    BY Zenon, <2>6, UpdateSays, BrokenSays
      DEF Judge, LibBrk, LibSaid, SharedSaid, Enough, hist, env
  <2>7. CASE DoExit
    <3>1. code' = {} => results \cap {"TFAIL", "TWARN", "TBROK"} = {}
      BY Zenon, <2>7 DEF DoExit
    <3>2. code' = {} => "TPASS" \in results \/ "TCONF" \notin results
      BY Zenon, <2>7 DEF DoExit
    <3>3. code' = {} => ~Failed /\ ("TPASS" \in results \/ ~Said)
      BY ZenonT(60), <3>1, <3>2 DEF Failed, Said, TypeInv, TypeOK, Ttype
    <3> QED BY Zenon, <2>7, <3>3 DEF DoExit, LibSaid, Enough, hist, env
  <2>8. CASE AlarmHandler
    BY Zenon, <1>7, <2>8 DEF AlarmHandler, LibSaid, shared, hist, env
  <2>9. CASE LibKilled
    BY Zenon, <2>9 DEF LibKilled, LibSaid, hist, env
  <2> QED BY ZenonT(60), <2>1, <2>2, <2>3, <2>4, <2>5, <2>6, <2>7, <2>8, <2>9,
             <2>10, <2>11 DEF Library
<1> QED BY Zenon, <1>4, <1>6, <1>8 DEF SaidInv

\* do_exit() never reports success for a run that went wrong, for any number of
\* processes, variants, iterations and faults: with exit status 0 no main
\* process was reaped with a failure and something passed, unless -i 0 asked for
\* nothing.  A test all of whose filesystems are skipped reports TCONF.
THEOREM ExitStatusTruthful == Spec => []ExitTruthful
<1>1. Init => SaidInv
  <2> SUFFICES ASSUME Init PROVE SaidInv
    OBVIOUS
  <2>1. ASSUME NEW p \in Pid PROVE SaidAt(p)
    BY Zenon, PidAssumption DEF Init, NoProc, SaidAt, Breaking, BeforeTests, Young, InHb
  <2>2. SharedSaid
    BY Zenon DEF Init, SharedSaid
  <2>3. LibSaid
    BY Zenon DEF Init, LibSaid
  <2> QED BY Zenon, <2>1, <2>2, <2>3 DEF SaidInv
<1>2. TypeInv /\ MainInv /\ SaidInv /\ [Next]_vars => SaidInv'
  BY Zenon, SaidProcess, SaidLibrary DEF Next, Fault
<1>3. SaidInv => ExitTruthful
  BY Zenon DEF SaidInv, LibSaid, ExitTruthful
<1> QED BY <1>1, <1>2, <1>3, TypeInvariant, MainInvariant, PTL DEF Spec

=============================================================================
