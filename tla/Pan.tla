-------------------------------- MODULE Pan ---------------------------------
(* ltp-pan, the driver that runs a command file: it keeps a number of test     *)
(* process groups running, waits for their leaders, looks after the groups     *)
(* leaders leave behind, and passes on the signals it gets, whenever it gets   *)
(* them.  The zoo file (module Zoo) is here the number of entries per process.  *)
EXTENDS Integers, FiniteSets

CONSTANTS
  KeepActive,   \* -x: slots
  Pids,         \* process ids, used again when they are free
  Calls         \* ways to call pan, and what it meets

None == 0
Statuses == {"ok", "conf", "fail", "e130", "sig", "noexec"}

ASSUME PanAssumption ==
  /\ KeepActive \in Nat \ {0} /\ Pids \subseteq Nat \ {None}
  /\ \A c \in Calls :
       /\ c.ncmds \in Nat \ {0}                       \* commands in the command file
       /\ c.missing \subseteq 1 .. c.ncmds            \* the ones that cannot be executed
       /\ c.starts \in Nat \cup {-1}                  \* -s (-1: not given)
       /\ {c.timed, c.sequential} \subseteq BOOLEAN   \* -t, -S
       /\ {c.brakes, c.track, c.road} \subseteq BOOLEAN /\ (c.brakes => c.track)   \* -A, -e, -y
       /\ c.exits \subseteq Statuses \ {"sig", "noexec"}   \* how a test may end by itself
       \* whether a leader may leave processes of its group behind
       /\ c.leaves \subseteq BOOLEAN /\ c.leaves # {}
       \* signals from outside, and how many (-1: for ever); whether one may come while a
       \* child is on its way to exec(); how often fork() and the calls of the zoo fail
       /\ c.signals \subseteq {"USR1", "USR2", "INT", "TERM", "HUP", "ALRM"}
       /\ c.nsig \in Nat \cup {-1}
       /\ c.slow \in BOOLEAN /\ c.forks \in Nat /\ c.zoofails \in Nat

VARIABLES
  opt,                  \* how pan was called
  pc, cmd,              \* where pan is; the index of the next command
  running,              \* slots: the process group, and whether it was told to stop
  num_active, starts, stop, go_idle, road, exit_stat,
  rec, send, last,      \* rec_signal, send_signal, wait_handler()'s lastsent
  orphans,              \* how often a group is in the list of orphans
  zoo,                  \* how often a process is in the zoo
  slot, child, k, back, \* run_child()'s slot and child, loop index, whence propagate_signal()
  err, intr,            \* check_pids()'s result; the system call was interrupted
  kid,                  \* per process id: the leader of the group, the rest of it
  sigs, forks,          \* signals and failures of fork() still to come
  zoofails,             \* failures of zoo_mark_cmdline() and zoo_clear() still to come
  failed                \* (history) a test failed

own == <<running, num_active, starts, stop, go_idle, road, exit_stat, cmd>>
sig == <<rec, send, last>>
loc == <<slot, child, k, back>>
env == <<sigs, forks, zoofails>>
vars == <<opt, pc, own, sig, orphans, zoo, loc, err, intr, kid, env, failed>>

Slots == 1 .. KeepActive
NoKid == [lead |-> "none", rest |-> FALSE, st |-> "ok", missing |-> FALSE]
Empty == [pgrp |-> None, stopping |-> FALSE]

\* The number of tests to start.
StartsOf ==
  CASE opt.timed /\ opt.starts = -1 -> -1
    [] ~opt.timed /\ opt.starts = -1 -> IF opt.sequential THEN opt.ncmds ELSE 1
    [] opt.starts = 0 -> -1
    [] OTHER -> IF opt.starts < KeepActive THEN KeepActive ELSE opt.starts

Init ==
  /\ opt \in Calls
  /\ pc = "sched" /\ cmd = 1
  /\ running = [i \in Slots |-> Empty]
  /\ num_active = 0 /\ starts = StartsOf
  /\ stop = FALSE /\ go_idle = FALSE /\ road = opt.road /\ exit_stat = 0
  /\ rec = "0" /\ send = "0" /\ last = "0"
  /\ orphans = [p \in Pids |-> 0] /\ zoo = [p \in Pids |-> 0]
  /\ slot = 0 /\ child = None /\ k = 0 /\ back = "check"
  /\ err = FALSE /\ intr = FALSE
  /\ kid = [p \in Pids |-> NoKid]
  /\ sigs = opt.nsig /\ forks = opt.forks /\ zoofails = opt.zoofails /\ failed = FALSE
-----------------------------------------------------------------------------
(* Processes and signals.                                                      *)

Alive(p) == kid[p].lead # "none" \/ kid[p].rest
Unused(p) == ~Alive(p)

\* What a signal makes of a process group.
Outcomes(g, s) ==
  CASE s = "0" -> {g}
    [] s = "KILL" -> {[g EXCEPT !.lead = IF @ = "run" THEN "zombie" ELSE @, !.rest = FALSE,
                                !.st = IF g.lead = "run" THEN "sig" ELSE @]}
    [] OTHER -> {g} \cup {[g EXCEPT !.rest = FALSE]} \cup
                (IF g.lead = "run"
                 THEN {[g EXCEPT !.lead = "zombie", !.st = x, !.rest = r] :
                         x \in {"sig"} \cup (IF s = "INT" THEN {"e130"} ELSE {}), r \in {g.rest} \cup opt.leaves}
                 ELSE {})

\* What wait_handler() makes of send_signal: the ratchet.
RatchetNoKill(s) ==   \* (Mutant.)  The last notch is missing.
  CASE last = "0" -> s
    [] last = "USR1" -> "INT"
    [] last = s /\ last # "USR1" -> "TERM"
    [] last = "TERM" /\ s # "TERM" -> "HUP"
    [] OTHER -> send
Ratchet(s) ==
  CASE last = "0" -> s
    [] last = "USR1" -> "INT"
    [] last = s /\ last # "USR1" -> "TERM"
    [] last = "TERM" /\ s # "TERM" -> "HUP"
    [] last = "HUP" /\ s # "HUP" -> "KILL"
    [] OTHER -> send
Handler(s) ==
  /\ rec' = s
  /\ IF s = "USR2" THEN UNCHANGED <<send, last>>
     ELSE send' = Ratchet(s) /\ last' = Ratchet(s)

\* A signal arrives, at any point; a system call it finds pan in is interrupted.  In
\* "wait" it may also come just before the call.
Signal(s) ==
  /\ sigs # 0 /\ pc \notin {"exit", "died", "crashed"}
  /\ sigs' = IF sigs > 0 THEN sigs - 1 ELSE sigs
  /\ Handler(s)
  /\ intr' \in IF pc = "wait" \/ (opt.slow /\ pc \in {"exec", "reap"}) THEN {intr, TRUE} ELSE {intr}
  /\ UNCHANGED <<opt, pc, own, orphans, zoo, loc, err, kid, forks, zoofails, failed>>

Exec(p) ==
  /\ kid[p].lead = "fork"
  /\ kid' = [kid EXCEPT ![p].lead = IF kid[p].missing THEN "wrote" ELSE "run"]
  /\ UNCHANGED <<opt, pc, own, sig, orphans, zoo, loc, err, intr, env, failed>>
NoExec(p) ==
  /\ kid[p].lead = "wrote"
  /\ kid' = [kid EXCEPT ![p].lead = "zombie", ![p].st = "noexec"]
  /\ UNCHANGED <<opt, pc, own, sig, orphans, zoo, loc, err, intr, env, failed>>
KidExit(p) ==
  /\ kid[p].lead = "run"
  /\ \E x \in opt.exits, r \in opt.leaves : kid' = [kid EXCEPT ![p].lead = "zombie", ![p].st = x, ![p].rest = r]
  /\ UNCHANGED <<opt, pc, own, sig, orphans, zoo, loc, err, intr, env, failed>>
RestEnds(p) ==
  /\ kid[p].rest
  /\ kid' = [kid EXCEPT ![p].rest = FALSE]
  /\ UNCHANGED <<opt, pc, own, sig, orphans, zoo, loc, err, intr, env, failed>>
-----------------------------------------------------------------------------
(* Starting tests.                                                             *)

Wanted == num_active < KeepActive /\ starts # 0 /\ ~stop /\ rec = "0" /\ ~go_idle
NextCmd == IF opt.sequential THEN cmd' = (cmd % opt.ncmds) + 1 ELSE UNCHANGED cmd
Tried == starts' = IF starts > 0 THEN starts - 1 ELSE starts

\* The command to run, and the first free slot.
Commands == IF opt.sequential THEN {cmd} ELSE 1 .. opt.ncmds
FreeSlot(i) == running[i].pgrp = None /\ \A j \in 1 .. i - 1 : running[j].pgrp # None

\* run_child() up to fork().
Fork ==
  /\ pc = "sched" /\ Wanted
  /\ \E c \in Commands, i \in Slots, p \in Pids :
       /\ FreeSlot(i)
       /\ Unused(p) /\ \A q \in Pids : q < p => ~Unused(q)
       /\ kid' = [kid EXCEPT ![p] = [NoKid EXCEPT !.lead = "fork", !.missing = c \in opt.missing]]
       /\ slot' = i /\ child' = p
  /\ pc' = "exec"
  /\ UNCHANGED <<opt, own, sig, orphans, zoo, k, back, err, intr, env, failed>>
ForkFails ==
  /\ pc = "sched" /\ Wanted /\ forks > 0
  /\ \E i \in Slots : running[i].pgrp = None
  /\ forks' = forks - 1
  /\ NextCmd /\ (IF opt.sequential THEN Tried ELSE UNCHANGED starts)
  /\ UNCHANGED <<pc, running, num_active, stop, go_idle, road, exit_stat>>
  /\ UNCHANGED <<opt, sig, orphans, zoo, loc, err, intr, kid, sigs, zoofails, failed>>
\* Nothing (more) to start now.  A slot is missing: "Aborting".
NoMore ==
  /\ pc = "sched" /\ (Wanted => \A i \in Slots : running[i].pgrp # None)
  /\ IF Wanted THEN Handler("INT") /\ exit_stat' = (exit_stat + 1) % 256
               ELSE UNCHANGED <<rec, send, last, exit_stat>>
  /\ pc' = "tail"
  /\ UNCHANGED <<running, num_active, starts, stop, go_idle, road, cmd>>
  /\ UNCHANGED <<opt, orphans, zoo, loc, err, intr, kid, env, failed>>

\* A call of the zoo fails and pan exits with status 1, whatever is still running.
Dies == zoofails > 0 /\ zoofails' = zoofails - 1 /\ pc' = "died"

\* read() from the child's pipe returns 0: it is running.
Started ==
  /\ pc = "exec" /\ kid[child].lead \in {"run", "zombie"} /\ kid[child].st # "noexec"
  /\ running' = [running EXCEPT ![slot] = [pgrp |-> child, stopping |-> FALSE]]
  /\ zoo' = [zoo EXCEPT ![child] = @ + 1]
  /\ num_active' = num_active + 1
  /\ NextCmd /\ Tried
  /\ pc' = "sched" /\ slot' = 0 /\ child' = None /\ intr' = FALSE
  /\ UNCHANGED <<opt, stop, go_idle, road, exit_stat, sig, orphans, k, back, err, kid, env, failed>>
StartedDies ==
  /\ pc = "exec" /\ kid[child].lead \in {"run", "zombie"} /\ kid[child].st # "noexec"
  /\ Dies
  /\ UNCHANGED <<opt, own, sig, orphans, zoo, loc, err, intr, kid, sigs, forks, failed>>
\* It returns something else: the message of a child that could not exec(), or -1, and
\* then the length of the message is whatever was on the stack: writing the '\0' after
\* it may be the end of pan.
NotStarted ==
  /\ pc = "exec"
  /\ kid[child].lead = "wrote" \/ kid[child].st = "noexec" \/ intr
  /\ pc' \in {"reap"} \cup (IF intr THEN {"crashed"} ELSE {})
  /\ intr' = FALSE
  /\ UNCHANGED <<opt, own, sig, orphans, zoo, loc, err, kid, env, failed>>
\* waitpid() for that child, and back to the scheduler.
Reap ==
  /\ pc = "reap"
  /\ \/ /\ kid[child].lead = "zombie"
        /\ kid' = [kid EXCEPT ![child] = [NoKid EXCEPT !.rest = kid[child].rest]]
        /\ failed' = (failed \/ kid[child].st \notin {"ok", "conf"})
     \/ intr /\ UNCHANGED <<kid, failed>>
  /\ NextCmd /\ (IF opt.sequential THEN Tried ELSE UNCHANGED starts)
  /\ pc' = "sched" /\ slot' = 0 /\ child' = None /\ intr' = FALSE
  /\ UNCHANGED <<opt, running, num_active, stop, go_idle, road, exit_stat, sig, orphans, zoo, k, back, err, env>>
-----------------------------------------------------------------------------
(* The rest of the main loop.                                                  *)

\* All started, or the stop file is there.
Tail ==
  /\ pc = "tail"
  /\ stop' \in (CASE starts = 0 -> {TRUE} [] starts = -1 -> {stop, TRUE} [] OTHER -> {stop})
  /\ pc' = "sig"
  /\ UNCHANGED <<running, num_active, starts, go_idle, road, exit_stat, cmd>>
  /\ UNCHANGED <<opt, sig, orphans, zoo, loc, err, intr, kid, env, failed>>

\* if (rec_signal)
Signalled ==
  /\ pc = "sig"
  /\ IF rec \in {"0", "USR2"}
     THEN pc' = (IF rec = "0" THEN "check" ELSE "zero") /\ UNCHANGED <<road, k>>
     ELSE pc' = "prop" /\ k' = 1 /\ road' = (road /\ rec # "USR1")
  /\ back' = "check"
  /\ UNCHANGED <<running, num_active, starts, stop, go_idle, exit_stat, cmd, rec, send, last>>
  /\ UNCHANGED <<opt, orphans, zoo, slot, child, err, intr, kid, env, failed>>

\* propagate_signal(): to the group in the next slot...
Propagate ==
  /\ pc = "prop"
  /\ \/ /\ k <= KeepActive /\ k' = k + 1 /\ UNCHANGED pc
        /\ IF running[k].pgrp = None THEN UNCHANGED <<running, kid>>
           ELSE /\ running' = [running EXCEPT ![k].stopping = TRUE]
                /\ \E g \in Outcomes(kid[running[k].pgrp], send) : kid' = [kid EXCEPT ![running[k].pgrp] = g]
     \/ k > KeepActive /\ k' = 0 /\ pc' = "orphs" /\ UNCHANGED <<running, kid>>
  /\ UNCHANGED <<num_active, starts, stop, go_idle, road, exit_stat, cmd>>
  /\ UNCHANGED <<opt, sig, orphans, zoo, slot, child, back, err, intr, env, failed>>
\* ... check_orphans(): a group that is there gets the signal, one that is not is off
\* the list and out of the zoo, unless zoo_clear() fails.
CheckOrphans(s) ==
  LET gone == {p \in Pids : orphans[p] > 0 /\ Unused(p)}
  IN  /\ \E f \in [Pids -> UNION {Outcomes(kid[p], s) : p \in Pids}] :
           /\ \A p \in Pids : f[p] \in IF orphans[p] > 0 THEN Outcomes(kid[p], s) ELSE {kid[p]}
           /\ kid' = f
      /\ \E kept \in SUBSET gone :
           /\ Cardinality(kept) <= zoofails /\ zoofails' = zoofails - Cardinality(kept)
           /\ zoo' = [p \in Pids |-> IF p \notin gone THEN zoo[p]
                                    ELSE zoo[p] - orphans[p] + (IF p \in kept THEN 1 ELSE 0)]
      /\ orphans' = [p \in Pids |-> IF p \in gone THEN 0 ELSE orphans[p]]
SignalOrphans ==
  /\ pc = "orphs" /\ CheckOrphans(send) /\ pc' = "zero"
  /\ UNCHANGED <<opt, own, sig, loc, err, intr, sigs, forks, failed>>
\* ... and whatever has been received by now is forgotten.
ZeroOnly ==   \* (Mutant.)  The scheduler is not stopped.
  /\ pc = "zero"
  /\ rec' = "0" /\ send' = "0"
  /\ pc' = back
  /\ UNCHANGED <<opt, own, last, orphans, zoo, loc, err, intr, kid, env, failed>>
Zero ==
  /\ pc = "zero"
  /\ rec' = "0" /\ send' = "0"
  /\ IF back = "orphloop" THEN UNCHANGED <<stop, go_idle>>
     ELSE go_idle' = (go_idle \/ road) /\ stop' = (stop \/ ~road)
  /\ pc' = back
  /\ UNCHANGED <<running, num_active, starts, road, exit_stat, cmd, last>>
  /\ UNCHANGED <<opt, orphans, zoo, loc, err, intr, kid, env, failed>>

\* check_pids()
Check ==
  /\ pc = "check" /\ CheckOrphans("0") /\ pc' = "wait"
  /\ UNCHANGED <<opt, own, sig, loc, err, intr, sigs, forks, failed>>
WaitNone ==
  /\ pc = "wait"
  /\ intr \/ \A p \in Pids : kid[p].lead = "none"
  /\ intr' = FALSE /\ err' = FALSE /\ pc' = "after"
  /\ UNCHANGED <<opt, own, sig, orphans, zoo, loc, kid, env, failed>>

SlotOf(p) == {i \in Slots : running[i].pgrp = p}
\* What check_pids() returns of a child.
Err(p) ==
  CASE kid[p].st \in {"fail", "noexec"} -> TRUE
    [] kid[p].st = "e130" -> ~\E i \in SlotOf(p) : running[i].stopping
    [] kid[p].st = "sig" -> \E i \in SlotOf(p) : ~running[i].stopping
    [] OTHER -> FALSE
\* The leader is reaped and its slot free; a group with processes left is an orphan,
\* and gets a SIGTERM.
OrphanNoZoo(p) ==   \* (Mutant.)  The orphan is not entered in the zoo.
  IF kid[p].rest /\ SlotOf(p) # {}
  THEN /\ orphans' = [orphans EXCEPT ![p] = @ + 1]
       /\ zoo' = [zoo EXCEPT ![p] = @ - 1]
       /\ \E r \in BOOLEAN : kid' = [kid EXCEPT ![p] = [NoKid EXCEPT !.rest = r]]
  ELSE /\ zoo' = [zoo EXCEPT ![p] = @ - Cardinality(SlotOf(p))]
       /\ kid' = [kid EXCEPT ![p] = [NoKid EXCEPT !.rest = kid[p].rest]]
       /\ UNCHANGED orphans
Orphan(p) ==
  IF kid[p].rest /\ SlotOf(p) # {}
  THEN /\ orphans' = [orphans EXCEPT ![p] = @ + 1]
       /\ \E r \in BOOLEAN : kid' = [kid EXCEPT ![p] = [NoKid EXCEPT !.rest = r]]
       /\ UNCHANGED zoo
  ELSE /\ zoo' = [zoo EXCEPT ![p] = @ - Cardinality(SlotOf(p))]
       /\ kid' = [kid EXCEPT ![p] = [NoKid EXCEPT !.rest = kid[p].rest]]
       /\ UNCHANGED orphans
Freed(p) == running' = [i \in Slots |-> IF i \in SlotOf(p) THEN Empty ELSE running[i]]
\* (History.)  The test failed, and not because pan told it to stop.
Fails(p) == /\ kid[p].st \notin {"ok", "conf"}
            /\ kid[p].st \in {"e130", "sig"} => \A i \in SlotOf(p) : ~running[i].stopping
Wait(p) ==
  /\ pc = "wait" /\ kid[p].lead = "zombie"
  /\ num_active' = num_active - 1
  /\ err' = Err(p) /\ failed' = (failed \/ Fails(p))
  /\ Freed(p)
  /\ Orphan(p)
  /\ intr' = FALSE /\ pc' = "after"
  /\ UNCHANGED <<opt, starts, stop, go_idle, road, exit_stat, cmd, sig, loc, env>>
\* zoo_clear() of the leader, or zoo_mark_cmdline() of the orphan, fails.
WaitDies(p) ==
  /\ pc = "wait" /\ kid[p].lead = "zombie" /\ SlotOf(p) # {}
  /\ kid' = [kid EXCEPT ![p] = [NoKid EXCEPT !.rest = kid[p].rest]]
  /\ Dies
  /\ UNCHANGED <<opt, own, sig, orphans, zoo, loc, err, intr, sigs, forks, failed>>

\* An error, and the end of the loop.  Idle: the ratchet is reset.
After ==
  /\ pc = "after"
  /\ exit_stat' = IF err /\ opt.track THEN (exit_stat + 1) % 256 ELSE exit_stat
  /\ LET idle == go_idle \/ (err /\ road)
         over == stop /\ num_active = 0
         resume == ~over /\ idle /\ num_active = 0
         sent == IF err /\ opt.brakes THEN Ratchet("INT") ELSE send
     IN  /\ go_idle' = (idle /\ ~resume)
         /\ rec' = IF err /\ opt.brakes THEN "INT" ELSE rec
         /\ send' = sent
         /\ last' = CASE resume -> "0" [] ~resume /\ err /\ opt.brakes -> sent [] OTHER -> last
         /\ pc' = IF over THEN "orphloop" ELSE "sched"
  /\ err' = FALSE
  /\ UNCHANGED <<running, num_active, starts, stop, road, cmd>>
  /\ UNCHANGED <<opt, orphans, zoo, loc, intr, kid, env, failed>>

\* Wait for orphans: every 5 seconds one more notch of the ratchet.  At last pan takes
\* itself out of the zoo.
OrphLoopNot ==   \* (Mutant.)  pan does not wait for orphans.
  /\ pc = "orphloop" /\ pc' = "exit"
  /\ UNCHANGED <<opt, own, sig, orphans, zoo, loc, err, intr, kid, env, failed>>
OrphLoop ==
  /\ pc = "orphloop"
  /\ IF \A p \in Pids : orphans[p] = 0
     THEN /\ pc' = "exit" /\ UNCHANGED <<sig, k, back>>
          /\ \/ UNCHANGED <<exit_stat, zoofails>>
             \/ zoofails > 0 /\ zoofails' = zoofails - 1 /\ exit_stat' = (exit_stat + 1) % 256
     ELSE /\ pc' = "prop" /\ k' = 1 /\ back' = "orphloop" /\ UNCHANGED <<exit_stat, zoofails>>
          /\ IF rec = "0" THEN Handler("INT") ELSE UNCHANGED <<rec, send, last>>
  /\ UNCHANGED <<running, num_active, starts, stop, go_idle, road, cmd>>
  /\ UNCHANGED <<opt, orphans, zoo, slot, child, err, intr, kid, sigs, forks, failed>>

Step ==
  \/ Fork \/ ForkFails \/ NoMore \/ Started \/ NotStarted \/ Reap \/ Tail \/ Signalled \/ Propagate
  \/ SignalOrphans \/ Zero \/ Check \/ WaitNone \/ (\E p \in Pids : Wait(p)) \/ After \/ OrphLoop
  \/ StartedDies \/ (\E p \in Pids : WaitDies(p))
KidStep(p) == Exec(p) \/ NoExec(p)
Done == pc \in {"exit", "died", "crashed"} /\ UNCHANGED vars
Next ==
  \/ Step \/ (\E s \in opt.signals : Signal(s))
  \/ (\E p \in Pids : KidStep(p) \/ KidExit(p) \/ RestEnds(p)) \/ Done

\* pan and its children are scheduled.  Nothing says that a test ends, by itself or when
\* it is told to.
Spec == Init /\ [][Next]_vars
FairSpec == Spec /\ WF_vars(Step) /\ \A p \in Pids : WF_vars(KidStep(p))
-----------------------------------------------------------------------------
\* The types; the count of running tests is between 0 and the number of slots (but for
\* a child that a signal on its way to exec() has lost: it is counted down, not up).
TypeOK ==
  /\ num_active \in (IF opt.slow THEN -KeepActive ELSE 0) .. KeepActive /\ starts \in Nat \cup {-1} /\ cmd \in 1 .. opt.ncmds
  /\ running \in [Slots -> [pgrp : Pids \cup {None}, stopping : BOOLEAN]]
  /\ exit_stat \in 0 .. 255
  /\ \A p \in Pids : orphans[p] \in Nat /\ zoo[p] \in Nat
  /\ pc = "sched" /\ Wanted => \E i \in Slots : running[i].pgrp = None

SlotsAgree == ~opt.slow =>
  /\ num_active = Cardinality({i \in Slots : running[i].pgrp # None})
  /\ \A p \in Pids \ {child} : Cardinality(SlotOf(p)) = (IF kid[p].lead = "none" THEN 0 ELSE 1)

ZooAgrees ==
  \A p \in Pids : zoo[p] - Cardinality(SlotOf(p)) - orphans[p] \in 0 .. opt.zoofails - zoofails

\* The count, the slots and the children agree: every child that is not reaped is in
\* one slot, every slot has one, and num_active is how many there are, whatever
\* signals come (main(), run_child(), check_pids()), unless one interrupts run_child()
\* while it reads from a child on its way to exec() (see NoneLost).  The zoo has one
\* entry for every running test and one for every orphaned group, also when a process id
\* is used again, and besides only what a failed zoo_clear() of check_orphans() left: the
\* clears of check_pids() never miss an entry, which would end pan.
BooksAgree == TypeOK /\ (pc # "died" => SlotsAgree /\ ZooAgrees)

\* run_child(): "if the child couldn't go through with the exec, clean up the mess, note
\* it, and move on" (and otherwise enter it in its slot): when it is over, every child
\* that is not reaped is in a slot.
NoneLost == \A p \in Pids \ {child} : kid[p].lead # "none" => SlotOf(p) # {}

\* When pan exits no process of any test is left, nor (if no call of the zoo failed) an
\* entry of it in the zoo; and "exit non-zero if any test exits non-zero", and only then
\* (main() with -e; with a test that cannot be executed nothing is said, as it does not
\* count).  Left out: a pan that lost a child because a signal interrupted run_child()
\* (see NoneLost), and one that a call of the zoo ended.  That is for fewer than 256
\* failures: the status is their number, of which exit() keeps eight bits.
AtExit ==
  pc = "exit" /\ ~opt.slow =>
    /\ \A p \in Pids : ~Alive(p) /\ (zoofails = opt.zoofails => zoo[p] = 0)
    /\ opt.track /\ opt.missing = {} => /\ failed => exit_stat # 0
                                        /\ exit_stat # 0 /\ zoofails = opt.zoofails => failed

\* A SIGTERM comes again and again: wait_handler() keeps sending SIGTERM then, and the
\* loop that waits for orphans never gets to SIGKILL.
Pestered == []<><<Signal("TERM")>>_vars
Over == pc \in {"exit", "died"}

\* pan ends, however stubborn the processes that tests leave behind, unless a test runs
\* for ever or SIGTERMs come for ever: if it is not to start tests for ever, (without -S)
\* they can be executed, and no signal interrupts run_child().
Terminates ==
  StartsOf # -1 /\ (opt.sequential \/ opt.missing = {}) /\ ~opt.slow =>
    <>Over \/ Pestered \/ \E p \in Pids : <>[](kid[p].lead = "run")

\* A signal that main() begins to pass on, the end of the time of -t among them, ends pan,
\* also when it would start tests for ever (without -y): no test is started after it, and
\* all that run are told to stop, so that only one that goes on in spite of that can keep
\* pan from ending.  Nothing is said of signals that main() does not get to see: one that
\* is handled between the test of rec_signal and wait() waits until a test ends, and one
\* that comes while another is passed on, or before a SIGUSR2, is forgotten.
Seen == pc = "prop" /\ back = "check" /\ k = 1 /\ send # "0"
Told(p) == kid[p].lead = "run" /\ \E i \in SlotOf(p) : running[i].stopping
StopsOnSignal ==
  ~opt.road /\ ~opt.slow => (Seen ~> Over) \/ Pestered \/ \E p \in Pids : <>[]Told(p)
=============================================================================
