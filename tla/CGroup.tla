------------------------------- MODULE CGroup -------------------------------
(* Control groups: tests that run in parallel share the groups ltp and       *)
(* ltp/drain of a hierarchy and have a group of their own below ltp.  A C     *)
(* test calls tst_cg_require() and tst_cg_cleanup() in its library process;   *)
(* a script has tst_cgctl call them in two processes and carries the          *)
(* configuration from the first to the second.                               *)
EXTENDS Integers, Sequences, FiniteSets

CONSTANTS
  Tests,      \* the tests
  Scenes      \* what they are like and what happens to them

ASSUME CGroupAssumption ==
  /\ Tests \cap {"ltp", "drain", "admin"} = {}   \* the names of the tests are their own
  /\ \A s \in Scenes :
       /\ s.kind \in [Tests -> {"lib", "script", "absent"}]
       /\ s.ctrls \in [Tests -> Nat \ {0}]   \* how many controllers a test requires
       /\ s.premade \in BOOLEAN              \* the administrator has made the ltp group
       \* the C tests with a killed child that may outlive the test process
       /\ s.linger \subseteq {p \in Tests : s.kind[p] = "lib"}
       /\ s.faults \in Nat                   \* how many of the calls that set a group up fail

VARIABLES
  scene,
  groups,   \* every group ever made: its name, its parent, who made it
  alive,    \* those that have not been removed
  member,   \* the group of a test's process, Gone once it has exited
  pc,       \* what a test does next, and with which of its directories
  phase,    \* "require", "run", "load" (tst_cgctl cleanup) or "cleanup"
  left,     \* the controllers still to be required
  named,    \* the directories whose dir_name is set
  fd,       \* their dir_fd
  made,     \* ltp_dir.we_created_it
  conf,     \* a script's _cgroup_state: unset, or ltp_dir.we_created_it in it
  todo,     \* what is left of pid_list in cgroup_drain()
  broken,   \* (history) the tests that called tst_brk()
  faults

tree == <<groups, alive>>
lib == <<named, fd, made>>
vars == <<scene, groups, alive, member, pc, phase, left, named, fd, made, conf, todo, broken, faults>>

Root == 0
NoFd == -1   \* dir_fd is 0 then, which is no directory
Gone == -2
Dirs == {"ltp", "drain", "test"}

\* (Mutant.) The groups of the tests all have the same name.
NameFixed(p, d) == d
Name(p, d) == IF d = "test" THEN p ELSE d
Up(p, d) == IF d = "ltp" THEN Root ELSE fd[p].ltp

\* The kernel's view: removed groups are no directories any more.
IsDir(g) == g = Root \/ g \in alive
Lookup(up, name) == {g \in alive : groups[g].up = up /\ groups[g].name = name}
Members(g) == {q \in Tests : member[q] = g}
Children(g) == {h \in alive : groups[h].up = g}

Init ==
  /\ scene \in Scenes
  /\ groups = IF scene.premade THEN <<[name |-> "ltp", up |-> Root, by |-> "admin"]>> ELSE <<>>
  /\ alive = 1 .. Len(groups)
  /\ member = [p \in Tests |-> IF scene.kind[p] = "absent" THEN Gone ELSE Root]
  /\ pc = [p \in Tests |-> IF scene.kind[p] = "absent" THEN <<"done", "">> ELSE <<"require", "ltp">>]
  /\ phase = [p \in Tests |-> "require"]
  /\ left = scene.ctrls
  /\ named = [p \in Tests |-> {}]
  /\ fd = [p \in Tests |-> [d \in Dirs |-> NoFd]]
  /\ made = [p \in Tests |-> FALSE]
  /\ conf = [p \in Tests |-> "unset"]
  /\ todo = [p \in Tests |-> {}]
  /\ broken = {}
  /\ faults = scene.faults
-----------------------------------------------------------------------------
At(p, op, d) == pc[p] = <<op, d>>
Goto(p, op, d) == pc' = [pc EXCEPT ![p] = <<op, d>>]
Fault == faults > 0 /\ faults' = faults - 1

\* (Mutant of Brk.)  tst_cgctl, too, cleans up again.
BrkRetries(p) ==
  /\ broken' = broken \cup {p}
  /\ Goto(p, "c_read", "test") /\ phase' = [phase EXCEPT ![p] = "cleanup"]
  /\ UNCHANGED <<member, left, conf, todo>>

\* tst_brk(): the library process enters do_cleanup() and tst_cg_cleanup() (again),
\* tst_cgctl exits, and the script with it.
Brk(p) ==
  /\ broken' = broken \cup {p}
  /\ IF scene.kind[p] = "lib"
     THEN /\ Goto(p, "c_read", "test") /\ phase' = [phase EXCEPT ![p] = "cleanup"]
          /\ UNCHANGED conf
     ELSE Goto(p, "done", "") /\ conf' = [conf EXCEPT ![p] = "unset"] /\ UNCHANGED phase
  /\ UNCHANGED <<member, left, todo>>
Continue(p, op, d) == Goto(p, op, d) /\ UNCHANGED <<phase, left, conf, broken>>

\* The next controller, in a process of its own if a script requires it.
Require(p) ==
  /\ At(p, "require", "ltp")
  /\ \/ /\ IF fd[p].ltp = NoFd THEN Continue(p, "mk", "ltp") ELSE Continue(p, "enable", "ltp")
        /\ UNCHANGED <<member, todo, faults>>
     \/ Fault /\ Brk(p)    \* the controller is not available, in the right version
  /\ UNCHANGED <<scene, tree, lib>>

\* dir_name is set before the directory is made, we_created_it of ltp after.
Names(p, d) == named' = [named EXCEPT ![p] = @ \cup {d}]
CreatesAny(p, d, new) ==   \* (Mutant.)  EEXIST counts as created.
  made' = IF d = "ltp" THEN [made EXCEPT ![p] = TRUE] ELSE made
Creates(p, d, new) == made' = IF d = "ltp" THEN [made EXCEPT ![p] = new] ELSE made

\* cgroup_dir_mk(): mkdirat(), which may find the directory there or fail, ...
MkDir(p, d) ==
  /\ At(p, "mk", d)
  /\ Names(p, d)
  /\ LET there == Lookup(Up(p, d), Name(p, d)) # {}
     IN  \/ /\ IsDir(Up(p, d)) /\ ~there
            /\ groups' = Append(groups, [name |-> Name(p, d), up |-> Up(p, d), by |-> p])
            /\ alive' = alive \cup {Len(groups')}
            /\ Creates(p, d, TRUE)
            /\ Continue(p, "open", d) /\ UNCHANGED <<member, todo, faults>>
         \/ /\ IsDir(Up(p, d)) /\ there
            /\ Creates(p, d, FALSE)
            /\ Continue(p, "open", d) /\ UNCHANGED <<tree, member, todo, faults>>
         \/ /\ (~there /\ Fault) \/ (~IsDir(Up(p, d)) /\ UNCHANGED faults)
            /\ Creates(p, d, FALSE)
            /\ Brk(p) /\ UNCHANGED tree
  /\ UNCHANGED <<scene, fd>>

\* ... and SAFE_OPENAT().
After(p, d) ==
  CASE d = "ltp" -> IF phase[p] = "load" THEN <<"mk", "drain">> ELSE <<"enable", "ltp">>
    [] d = "drain" -> <<"mk", "test">>
    [] d = "test" -> IF phase[p] = "load" THEN <<"c_read", "test">> ELSE <<"required", "ltp">>
OpenDir(p, d) ==
  /\ At(p, "open", d)
  /\ LET found == Lookup(Up(p, d), Name(p, d))
     IN  \/ /\ found # {}
            /\ fd' = [fd EXCEPT ![p][d] = CHOOSE g \in found : TRUE]
            /\ Continue(p, After(p, d)[1], After(p, d)[2])
            /\ made' = IF phase[p] = "load" /\ d = "drain" /\ conf[p] = "made"
                       THEN [made EXCEPT ![p] = TRUE] ELSE made
            /\ UNCHANGED <<member, todo>>
         \/ found = {} /\ Brk(p) /\ UNCHANGED <<fd, made>>
  /\ UNCHANGED <<scene, tree, named, faults>>

\* The controller is enabled in ltp (V1: clone_children and the cpuset are set).
Enable(p) ==
  /\ At(p, "enable", "ltp")
  /\ \/ IsDir(fd[p].ltp) /\ Continue(p, "mk", "drain") /\ UNCHANGED <<member, todo, faults>>
     \/ (Fault \/ (~IsDir(fd[p].ltp) /\ UNCHANGED faults)) /\ Brk(p)
  /\ UNCHANGED <<scene, tree, lib>>

\* tst_cg_print_config(): a line with ltp_dir.we_created_it.
Printed(p) == IF made[p] THEN "made" ELSE "found"

\* tst_cg_require() returns; tst_cgctl prints the configuration and exits.
Required(p) ==
  /\ At(p, "required", "ltp")
  /\ left' = [left EXCEPT ![p] = @ - 1]
  /\ IF left'[p] > 0 THEN Goto(p, "require", "ltp") /\ UNCHANGED phase
     ELSE Goto(p, "run", "") /\ phase' = [phase EXCEPT ![p] = "run"]
  /\ IF scene.kind[p] = "lib" THEN UNCHANGED <<lib, conf>>
     ELSE /\ conf' = [conf EXCEPT ![p] = Printed(p)]
          /\ fd' = [fd EXCEPT ![p] = [d \in Dirs |-> NoFd]]
          /\ named' = [named EXCEPT ![p] = {}]
          /\ made' = [made EXCEPT ![p] = FALSE]
  /\ UNCHANGED <<scene, tree, member, todo, broken, faults>>

\* SAFE_CG_PRINTF() to cgroup.procs: the test moves its process to its own group,
\* a C test also to the drain; it ends if the group is not there.
JoinTargets(p, d) ==
  IF scene.kind[p] = "lib" THEN {fd[p][d]} \cap alive
  ELSE {g \in alive : groups[g].name = p /\ groups[g].up \in alive}
Join(p, d) ==
  /\ At(p, "run", "")
  /\ d = "drain" => scene.kind[p] = "lib"
  /\ \E g \in JoinTargets(p, d) : member' = [member EXCEPT ![p] = g]
  /\ UNCHANGED <<scene, tree, lib, pc, phase, left, conf, todo, broken, faults>>

\* The test ends, by itself, by a failed move or by a timeout.  The processes of a
\* C test are gone when the library process cleans up, but for a killed child the
\* kernel has not got to yet; a script is there still when it runs tst_cgctl.
End(p) ==
  /\ At(p, "run", "")
  /\ IF scene.kind[p] = "lib"
     THEN /\ Goto(p, "c_read", "test") /\ phase' = [phase EXCEPT ![p] = "cleanup"]
          /\ \/ member' = [member EXCEPT ![p] = Gone]
             \/ p \in scene.linger /\ UNCHANGED member
     ELSE /\ Goto(p, "mk", "ltp") /\ phase' = [phase EXCEPT ![p] = "load"]
          /\ UNCHANGED member
  /\ \/ UNCHANGED broken
     \/ /\ \E d \in {"test", "drain"} : (d = "drain" => scene.kind[p] = "lib") /\ JoinTargets(p, d) = {}
        /\ broken' = broken \cup {p}
  /\ UNCHANGED <<scene, tree, lib, left, conf, todo, faults>>

\* What is left of the test exits: a script's process after the clean-up, the
\* killed child at any time.
Exit(p) ==
  /\ At(p, "done", "") \/ phase[p] = "cleanup"
  /\ member[p] # Gone
  /\ member' = [member EXCEPT ![p] = Gone]
  /\ UNCHANGED <<scene, tree, lib, pc, phase, left, conf, todo, broken, faults>>
-----------------------------------------------------------------------------
(* tst_cg_cleanup().                                                        *)

\* What there is to remove: the test's group, and ltp if the test created it.
HasTestDirMade(p) == "test" \in named[p] /\ made[p]   \* (Mutant.)
HasTestDir(p) == "test" \in named[p]
OwnsLtpAny(p) == TRUE   \* (Mutant.)  The shared groups are removed by everyone.
OwnsLtp(p) == made[p]

\* cgroup_drain() reads the processes of the test's group (if there is one) or,
\* after that, of the drain (if the test made ltp).
DrainRead(p, d) ==
  /\ At(p, "c_read", d)
  /\ \/ /\ d = "test" /\ ~HasTestDir(p)
        /\ Continue(p, "c_read", "drain") /\ UNCHANGED <<member, todo>>
     \/ d = "drain" /\ ~OwnsLtp(p) /\ Continue(p, "clear", "") /\ UNCHANGED <<member, todo>>
     \/ /\ IF d = "test" THEN HasTestDir(p) ELSE d = "drain" /\ OwnsLtp(p)
        /\ IF IsDir(fd[p][d])
           THEN /\ todo' = [todo EXCEPT ![p] = Members(fd[p][d])]
                /\ Continue(p, "c_move", d) /\ UNCHANGED member
           ELSE Brk(p)
  /\ UNCHANGED <<scene, tree, lib, faults>>

\* It moves them one by one, to the drain or to the root.  The write fails if the
\* process has exited or the group has been removed.
DrainMove(p, d) ==
  /\ At(p, "c_move", d)
  /\ LET dest == IF d = "test" THEN fd[p].drain ELSE Root
     IN  \/ ~IsDir(dest) /\ Brk(p)
         \/ /\ IsDir(dest) /\ todo[p] = {}
            /\ Continue(p, "c_rm", d) /\ UNCHANGED <<member, todo>>
         \/ /\ IsDir(dest)
            /\ \E q \in todo[p] :
                 IF member[q] = Gone THEN Brk(p)
                 ELSE /\ member' = [member EXCEPT ![q] = dest]
                      /\ todo' = [todo EXCEPT ![p] = @ \ {q}]
                      /\ UNCHANGED <<pc, phase, left, conf, broken>>
  /\ UNCHANGED <<scene, tree, lib, faults>>

\* SAFE_UNLINKAT(): by name, and only an empty leaf.
Remove(p, d) ==
  /\ At(p, "c_rm", d)
  /\ LET found == {g \in Lookup(Up(p, d), Name(p, d)) : Members(g) = {} /\ Children(g) = {}}
         next == CASE d = "test" -> <<"c_read", "drain">>
                   [] d = "drain" -> <<"c_rm", "ltp">>
                   [] d = "ltp" -> <<"clear", "">>
     IN  \/ /\ d \in named[p] /\ found # {} /\ alive' = alive \ found
            /\ Continue(p, next[1], next[2]) /\ UNCHANGED <<member, todo>>
         \/ d \in named[p] /\ found = {} /\ Brk(p) /\ UNCHANGED alive
  /\ UNCHANGED <<scene, groups, lib, faults>>

\* The data are cleared, in any case.
Clear(p) ==
  /\ At(p, "clear", "")
  /\ Goto(p, "done", "")
  /\ fd' = [fd EXCEPT ![p] = [d \in Dirs |-> NoFd]]
  /\ named' = [named EXCEPT ![p] = {}]
  /\ made' = [made EXCEPT ![p] = FALSE]
  /\ UNCHANGED <<scene, tree, member, phase, left, conf, todo, broken, faults>>

Step(p) ==
  \/ Require(p) \/ Enable(p) \/ Required(p) \/ End(p) \/ Exit(p) \/ Clear(p)
  \/ \E d \in Dirs : \/ MkDir(p, d) \/ OpenDir(p, d) \/ DrainRead(p, d) \/ DrainMove(p, d)
                     \/ Remove(p, d)
Joins(p) == \E d \in {"test", "drain"} : Join(p, d)
AllDone == \A p \in Tests : At(p, "done", "") /\ member[p] = Gone
Next == (\E p \in Tests : Step(p) \/ Joins(p)) \/ (AllDone /\ UNCHANGED vars)

\* Every test is a process of its own, and the scheduler is fair; a test need
\* not use its group.
Spec == Init /\ [][Next]_vars
FairSpec == Spec /\ \A p \in Tests : WF_vars(Step(p))
-----------------------------------------------------------------------------
\* The types; a directory that is open has its name (tst_cg_cleanup() goes by the
\* name); the live groups are a tree without two of a name, and processes are in
\* live groups.
TypeOK ==
  /\ \A g \in 1 .. Len(groups) : groups[g].up \in 0 .. g - 1
  /\ alive \subseteq 1 .. Len(groups)
  /\ member \in [Tests -> {Root, Gone} \cup 1 .. Len(groups)]
  /\ fd \in [Tests -> [Dirs -> {NoFd} \cup 1 .. Len(groups)]]
  /\ named \in [Tests -> SUBSET Dirs]
  /\ made \in [Tests -> BOOLEAN]
  /\ conf \in [Tests -> {"unset", "made", "found"}]
  /\ todo \in [Tests -> SUBSET Tests]
  /\ left \in [Tests -> Nat]
  /\ broken \subseteq Tests
  /\ faults \in 0 .. scene.faults
  /\ \A p \in Tests, d \in Dirs : fd[p][d] # NoFd => d \in named[p]
  /\ \A g \in alive : IsDir(groups[g].up) /\ Lookup(groups[g].up, groups[g].name) = {g}
  /\ \A p \in Tests : member[p] = Gone \/ IsDir(member[p])

Running(p) == At(p, "run", "")

OwnGroupKept ==
  \A p \in Tests : Running(p) =>
    \E g \in alive : /\ groups[g] = [name |-> Name(p, "test"), up |-> groups[g].up, by |-> p]
                     /\ groups[g].up \in alive /\ groups[groups[g].up].name = "ltp"
                     /\ scene.kind[p] = "lib" => g = fd[p].test

\* While a test runs its own group is there, below ltp, whatever the tests next to
\* it set up and remove (tst_cg_require() gives it to the test, tst_cg_cleanup() of
\* another test does not get past the unlinkat() of ltp); the groups are a tree
\* without two of a name, and processes are in live groups.
GroupsConsistent == TypeOK /\ OwnGroupKept

\* The group of a test is removed when tst_cg_cleanup() is over ("We should at least
\* remove these unique per test CGroups"), also of a C test that broke half way.
\* When every test is done, none broke and none found an ltp group of the
\* administrator's, the shared groups are gone, too (we_created_it decides who removes
\* them; for a script the configuration carries it, of its last tst_cgctl require: a
\* script that requires a second controller forgets that it made ltp).
KeepsConf == \A p \in Tests : scene.kind[p] = "script" => scene.ctrls[p] = 1
GroupsRemoved ==
  /\ \A p \in Tests : At(p, "done", "") /\ (scene.kind[p] = "lib" \/ p \notin broken) =>
       \A g \in alive : groups[g].name # p
  /\ AllDone /\ broken = {} /\ ~scene.premade /\ KeepsConf => alive = {}

\* With an ltp group made in advance no test breaks another: nothing fails in
\* tst_cg_require() and tst_cg_cleanup() of any of them (unless a call is made to, or
\* a process of the test is still on its way out).
Calm == scene.premade /\ scene.faults = 0 /\ scene.linger = {}
NoneBroken == Calm => broken = {}

\* tst_cg_cleanup() takes no group from a test that works below somebody else's ltp:
\* what it removes is the test's own group, or the test made the ltp that it removes or
\* whose drain it removes.  unlinkat() goes by name and we_created_it is one bit, which a
\* script carries from one process to the next, while others remove and make ltp anew.
RemovesBelowOwn ==
  [][\A p \in Tests, d \in Dirs : Remove(p, d) =>
       \A g \in alive \ alive' :
         \E h \in {g, groups[g].up} \ {Root} : groups[h].by = p]_vars

\* lib/tst_cgroup.c on tst_cg_cleanup(): "This will never remove CGroups we did not
\* create to allow tests to be run in parallel."
RemovesOwn ==
  [][\A p \in Tests, d \in Dirs : Remove(p, d) =>
       \A g \in alive \ alive' : groups[g].by = p]_vars

\* "Finally we clear any data we have collected on CGroups. This will happen
\* regardless of whether anything was removed": every tst_cg_cleanup() comes to an end
\* (with an ltp group made in advance, and unless a call that set a group up failed).
\* A script always ends: tst_cgctl has no library process to clean up again when a
\* clean-up fails.
CleanupEnds ==
  \A p \in Tests :
    /\ scene.premade => <>(At(p, "done", "") \/ faults # scene.faults)
    /\ scene.kind[p] = "script" => <>At(p, "done", "")
=============================================================================
