---------------------------- MODULE CGroupProofs ----------------------------
(* What tests that share control groups can rely on, for any number of tests,  *)
(* of controllers they require and of calls that fail.                         *)
EXTENDS CGroup, TLAPS

\* What a test does, and with which directory.
Op(p) == pc[p][1]
Dr(p) == pc[p][2]

Ops == {"require", "mk", "open", "enable", "required", "run", "c_read", "c_move", "c_rm", "clear",
        "done"}
Records == [name : {"ltp", "drain"} \cup Tests, up : Nat, by : Tests \cup {"admin"}]

Types ==
  /\ scene \in Scenes
  /\ pc \in [Tests -> Ops \X (Dirs \cup {""})]
  /\ phase \in [Tests -> {"require", "run", "load", "cleanup"}]
  /\ left \in [Tests -> Nat]
  /\ named \in [Tests -> SUBSET Dirs]
  /\ made \in [Tests -> BOOLEAN]
  /\ conf \in [Tests -> {"unset", "made", "found"}]
  /\ todo \in [Tests -> SUBSET Tests]
  /\ broken \subseteq Tests
  /\ faults \in 0 .. scene.faults

\* The groups: ltp is below the root, everything else below an ltp; the groups of
\* a test are made by it, and no two that are there have the same path.
Tree ==
  /\ groups \in Seq(Records) /\ alive \subseteq 1 .. Len(groups)
  /\ \A g \in 1 .. Len(groups) :
       /\ groups[g].up < g
       /\ groups[g].up = Root <=> groups[g].name = "ltp"
       /\ groups[g].up # Root => groups[groups[g].up].name = "ltp"
       /\ groups[g].name \in Tests => groups[g].by = groups[g].name
  /\ \A g \in alive : IsDir(groups[g].up)
  /\ \A g, h \in alive :
       groups[g].up = groups[h].up /\ groups[g].name = groups[h].name => g = h

\* The processes are in live groups, and in that of a test its own only.
Membership ==
  /\ member \in [Tests -> {Root, Gone} \cup 1 .. Len(groups)]
  /\ \A p \in Tests : member[p] = Gone \/ IsDir(member[p])
  /\ \A p \in Tests : member[p] \in alive /\ groups[member[p]].name \in Tests =>
                        groups[member[p]].name = p

GroupsOf(n) == {g \in alive : groups[g].name = n}

\* The descriptors are of the directories whose names they go by.
Descriptors(p) ==
  /\ \A d \in Dirs : fd[p][d] # NoFd =>
       d \in named[p] /\ groups[fd[p][d]].name = Name(p, d) /\ groups[fd[p][d]].up = Up(p, d)
  /\ fd[p].ltp # NoFd => \A g \in GroupsOf(p) : groups[g].up = fd[p].ltp
  /\ Op(p) = "open" => Dr(p) \in named[p]
  /\ Op(p) \in {"mk", "open"} /\ Dr(p) = "ltp" => fd[p].ltp = NoFd
  /\ Op(p) = "run" /\ scene.kind[p] # "lib" => fd[p].ltp = NoFd

\* What is done in which phase.
Control(p) ==
  /\ scene.kind[p] = "absent" => Op(p) = "done" /\ phase[p] = "require"
  /\ phase[p] = "load" => scene.kind[p] = "script"
  /\ phase[p] = "cleanup" => scene.kind[p] = "lib"
  /\ phase[p] = "require" => left[p] > 0
  /\ Op(p) \in {"require", "enable", "required"} => phase[p] = "require"
  /\ Op(p) \in {"mk", "open"} => phase[p] \in {"require", "load"}
  /\ Op(p) = "run" => phase[p] = "run"
  /\ Op(p) \in {"c_read", "c_move", "c_rm", "clear"} => phase[p] \in {"load", "cleanup"}
  /\ Op(p) \in {"c_read", "c_move"} => Dr(p) # "ltp"

\* Where a test has its group, and where it has none any more.
Within(p) == Op(p) \in {"required", "run"} \/ (phase[p] = "load" /\ Op(p) \in {"mk", "open"})
Past(p) == Op(p) \in {"clear", "done"} \/ (Op(p) \in {"c_read", "c_move"} /\ Dr(p) = "drain")
           \/ (Op(p) = "c_rm" /\ Dr(p) # "test")

Owned(p) ==
  /\ Within(p) => GroupsOf(p) # {}
  /\ scene.kind[p] = "lib" /\ Op(p) \in {"required", "run"} => fd[p].test \in alive
  /\ scene.kind[p] = "lib" /\ GroupsOf(p) # {} => "test" \in named[p]
  /\ phase[p] = "load" /\ Dr(p) = "test" /\ Op(p) # "mk" => "test" \in named[p]
  /\ Past(p) /\ (scene.kind[p] = "lib" \/ p \notin broken) => GroupsOf(p) = {}

\* A test that has made the ltp that is there knows it, or its configuration does.
Before(p) == Op(p) \in {"mk", "open"} /\ Dr(p) # "test"
Knows(p) ==
  IF scene.kind[p] = "lib" THEN made[p]
  ELSE CASE phase[p] = "require" -> made[p]
         [] phase[p] = "run" -> conf[p] = "made"
         [] OTHER -> IF Before(p) THEN conf[p] = "made" ELSE made[p]
Made(p) == \E g \in GroupsOf("ltp") : groups[g].by = p
Maker(p) ==
  /\ scene.kind[p] = "script" /\ scene.ctrls[p] = 1 /\ phase[p] = "require" => left[p] = 1
  /\ Made(p) /\ p \notin broken /\ (scene.kind[p] = "script" => scene.ctrls[p] = 1) =>
       /\ Knows(p)
       /\ Op(p) \notin {"clear", "done"}
       /\ Op(p) = "mk" /\ Dr(p) = "ltp" => phase[p] = "load"
       /\ Op(p) = "require" => fd[p].ltp # NoFd

\* With an ltp made in advance nobody takes itself for its maker.
NoMaker(p) == /\ ~made[p] /\ conf[p] # "made"
              /\ Op(p) \in {"c_move", "c_rm"} => Dr(p) = "test"
Premade ==
  /\ ~scene.premade => \A g \in alive : groups[g].by \in Tests
  /\ scene.premade =>
       /\ GroupsOf("ltp") # {} /\ \A g \in GroupsOf("ltp") : groups[g].by = "admin"
       /\ \A p \in Tests : NoMaker(p)

\* And then, if nothing fails, nothing breaks.
Found(p, d) == \E g \in GroupsOf(Name(p, d)) : groups[g].up = Up(p, d)
Smooth(p) ==
  /\ \A d \in {"ltp", "drain"} : fd[p][d] # NoFd => fd[p][d] \in alive
  /\ Op(p) = "open" => Found(p, Dr(p))
  /\ Op(p) = "enable" => fd[p].ltp # NoFd
  /\ Op(p) \in {"mk", "open"} /\ Dr(p) # "ltp" => fd[p].ltp # NoFd
  /\ Op(p) \in {"mk", "open"} /\ Dr(p) = "test" => fd[p].drain # NoFd
  /\ Op(p) = "required" \/ (Op(p) = "run" /\ scene.kind[p] = "lib") => fd[p].drain # NoFd
  /\ Op(p) \in {"c_read", "c_move", "c_rm"} /\ Dr(p) = "test" =>
       fd[p].test \in alive /\ fd[p].drain # NoFd
  /\ phase[p] = "cleanup" => member[p] = Gone
  /\ scene.kind[p] = "script" /\ Op(p) # "done" => member[p] # Gone
  /\ Op(p) = "c_move" => todo[p] \subseteq {p} /\ (todo[p] # {} => phase[p] = "load")
                         /\ Members(fd[p].test) \subseteq todo[p]
  /\ Op(p) = "c_rm" => Members(fd[p].test) = {}
Calmness == Calm => broken = {} /\ \A p \in Tests : Smooth(p)

Fds == fd \in [Tests -> [Dirs -> {NoFd} \cup 1 .. Len(groups)]]

\* The invariant: what always holds, what holds with an ltp made in advance, and
\* what holds if, besides, nothing fails.
Own(p) == Descriptors(p) /\ Control(p) /\ Owned(p) /\ Maker(p)
Core == Types /\ Tree /\ Membership /\ Fds /\ \A p \in Tests : Own(p)
Inv == Core /\ Premade /\ Calmness

-----------------------------------------------------------------------------
(* What a step does, in terms of what the test does next.                   *)

Phases == {"require", "run", "load", "cleanup"}
Confs == {"unset", "made", "found"}

\* A step of a test changes nothing of another's but the group its process is in.
Frame(p) ==
  /\ scene' = scene
  /\ \A q \in Tests \ {p} :
       /\ Op(q)' = Op(q) /\ Dr(q)' = Dr(q) /\ phase'[q] = phase[q] /\ left'[q] = left[q]
       /\ named'[q] = named[q] /\ fd'[q] = fd[q] /\ made'[q] = made[q] /\ conf'[q] = conf[q]
       /\ todo'[q] = todo[q] /\ (q \in broken' <=> q \in broken)

\* What it changes besides the control.
Locals(p) ==
  /\ scene' = scene /\ faults' \in 0 .. scene.faults
  /\ named' \in [Tests -> SUBSET Dirs] /\ made' \in [Tests -> BOOLEAN]
  /\ todo' \in [Tests -> SUBSET Tests]
  /\ \A q \in Tests \ {p} : /\ named'[q] = named[q] /\ fd'[q] = fd[q]
                            /\ made'[q] = made[q] /\ todo'[q] = todo[q]

\* The test goes on, or breaks: a C test begins its clean-up (again), a script ends.
Went(p, op, d) == Op(p)' = op /\ Dr(p)' = d /\ UNCHANGED <<phase, left, conf, broken>>
Broke(p) ==
  /\ p \in broken' /\ UNCHANGED <<member, left, todo>>
  /\ scene.kind[p] = "lib" => Op(p)' = "c_read" /\ Dr(p)' = "test" /\ phase'[p] = "cleanup"
  /\ scene.kind[p] # "lib" => Op(p)' = "done" /\ Dr(p)' = "" /\ phase'[p] = phase[p]
  /\ conf'[p] = "made" => conf[p] = "made"

\* The program counter of a test, taken apart.
LEMMA AtFacts ==
  ASSUME NEW p \in Tests, NEW op, NEW d, At(p, op, d)
  PROVE  Op(p) = op /\ Dr(p) = d
BY DEF At, Op, Dr

\* What a test does next.
LEMMA GotoFacts ==
  ASSUME Types, NEW p \in Tests, NEW op \in Ops, NEW d \in Dirs \cup {""}, Goto(p, op, d)
  PROVE  /\ pc' \in [Tests -> Ops \X (Dirs \cup {""})]
         /\ Op(p)' = op /\ Dr(p)' = d
         /\ \A q \in Tests \ {p} : Op(q)' = Op(q) /\ Dr(q)' = Dr(q)
<1>1. pc \in [Tests -> Ops \X (Dirs \cup {""})]
  BY Zenon DEF Types
<1>2. QED
  BY Zenon, <1>1 DEF Goto, Op, Dr

\* A test that goes on.
LEMMA Going ==
  ASSUME Types, NEW p \in Tests, NEW op \in Ops, NEW d \in Dirs \cup {""}, Continue(p, op, d),
         Locals(p)
  PROVE  Types' /\ Frame(p) /\ Went(p, op, d)
<1>1. Goto(p, op, d) /\ UNCHANGED <<phase, left, conf, broken>>
  BY Zenon DEF Continue
<1>2. QED
  BY Zenon, <1>1, GotoFacts DEF Types, Locals, Frame, Went

\* A test that breaks.
LEMMA Breaking ==
  ASSUME Types, NEW p \in Tests, Brk(p), Locals(p)
  PROVE  Types' /\ Frame(p) /\ Broke(p)
<1> USE DEF Ops, Dirs
<1>1. CASE scene.kind[p] = "lib"
  <2>1. /\ Goto(p, "c_read", "test") /\ phase' = [phase EXCEPT ![p] = "cleanup"]
        /\ conf' = conf /\ broken' = broken \cup {p} /\ UNCHANGED <<member, left, todo>>
    BY Zenon, <1>1 DEF Brk
  <2>2. /\ phase' \in [Tests -> Phases] /\ phase'[p] = "cleanup"
        /\ \A q \in Tests \ {p} : phase'[q] = phase[q]
    BY Zenon, <2>1 DEF Types, Phases
  <2>3. /\ pc' \in [Tests -> Ops \X (Dirs \cup {""})]
        /\ Op(p)' = "c_read" /\ Dr(p)' = "test"
        /\ \A q \in Tests \ {p} : Op(q)' = Op(q) /\ Dr(q)' = Dr(q)
    BY Zenon, <2>1, GotoFacts
  <2>4. Types'
    BY ZenonT(60), <2>1, <2>2, <2>3 DEF Types, Phases, Locals
  <2>5. Frame(p)
    BY Zenon, <2>1, <2>2, <2>3 DEF Locals, Frame
  <2>6. QED
    BY Zenon, <1>1, <2>1, <2>2, <2>3, <2>4, <2>5 DEF Broke
<1>2. CASE scene.kind[p] # "lib"
  <2>1. /\ Goto(p, "done", "") /\ phase' = phase
        /\ conf' = [conf EXCEPT ![p] = "unset"] /\ broken' = broken \cup {p}
        /\ UNCHANGED <<member, left, todo>>
    BY Zenon, <1>2 DEF Brk
  <2>2. /\ conf' \in [Tests -> Confs] /\ conf'[p] = "unset"
        /\ \A q \in Tests \ {p} : conf'[q] = conf[q]
    BY Zenon, <2>1 DEF Types, Confs
  <2>3. /\ pc' \in [Tests -> Ops \X (Dirs \cup {""})]
        /\ Op(p)' = "done" /\ Dr(p)' = ""
        /\ \A q \in Tests \ {p} : Op(q)' = Op(q) /\ Dr(q)' = Dr(q)
    BY Zenon, <2>1, GotoFacts
  <2>4. Types'
    BY ZenonT(60), <2>1, <2>2, <2>3 DEF Types, Confs, Locals
  <2>5. Frame(p)
    BY Zenon, <2>1, <2>2, <2>3 DEF Locals, Frame
  <2>6. QED
    BY Zenon, <1>2, <2>1, <2>2, <2>3, <2>4, <2>5 DEF Broke
<1>3. QED
  BY Zenon, <1>1, <1>2

\* A step that changes only the control, but for a call that is made to fail.
LEMMA Plain ==
  ASSUME Types, NEW p \in Tests, UNCHANGED <<scene, named, made, fd, todo>>,
         Fault \/ UNCHANGED faults
  PROVE  Locals(p)
<1>1. scene.faults \in Nat /\ faults \in 0 .. scene.faults
  BY Zenon, CGroupAssumption DEF Types
<1>2. faults' \in 0 .. scene.faults
  BY <1>1 DEF Fault
<1>3. QED
  BY Zenon, <1>2 DEF Types, Locals

\* A fault that happens was possible.
LEMMA FaultFacts == ASSUME Types, Fault PROVE scene.faults # 0
<1>1. scene.faults \in Nat /\ faults \in 0 .. scene.faults
  BY Zenon, CGroupAssumption DEF Types
<1>2. QED
  BY <1>1 DEF Fault

RequireDoes(p) ==
  /\ Op(p) = "require" /\ UNCHANGED <<tree, member, lib>>
  /\ \/ fd[p].ltp = NoFd /\ Went(p, "mk", "ltp")
     \/ fd[p].ltp # NoFd /\ Went(p, "enable", "ltp")
     \/ scene.faults # 0 /\ Broke(p)

\* The next controller.
LEMMA RequireStep ==
  ASSUME Types, NEW p \in Tests, Require(p)
  PROVE  Types' /\ Frame(p) /\ RequireDoes(p)
<1> USE DEF Ops, Dirs
<1>1. /\ At(p, "require", "ltp") /\ UNCHANGED <<scene, tree, lib>>
      /\ \/ /\ UNCHANGED <<member, todo, faults>>
            /\ \/ fd[p].ltp = NoFd /\ Continue(p, "mk", "ltp")
               \/ fd[p].ltp # NoFd /\ Continue(p, "enable", "ltp")
         \/ Fault /\ Brk(p)
  BY Zenon DEF Require
<1>2. UNCHANGED todo /\ UNCHANGED member
  BY Zenon, <1>1 DEF Brk
<1>3. Locals(p)
  BY Zenon, <1>1, <1>2, Plain DEF lib
<1>4. QED
  BY Zenon, <1>1, <1>2, <1>3, AtFacts, Going, Breaking, FaultFacts DEF RequireDoes

EnableDoes(p) ==
  /\ Op(p) = "enable" /\ UNCHANGED <<tree, member, lib>>
  /\ \/ IsDir(fd[p].ltp) /\ Went(p, "mk", "drain")
     \/ (scene.faults # 0 \/ ~IsDir(fd[p].ltp)) /\ Broke(p)

\* The controller is enabled.
LEMMA EnableStep ==
  ASSUME Types, NEW p \in Tests, Enable(p)
  PROVE  Types' /\ Frame(p) /\ EnableDoes(p)
<1> USE DEF Ops, Dirs
<1>1. /\ At(p, "enable", "ltp") /\ UNCHANGED <<scene, tree, lib>>
      /\ \/ IsDir(fd[p].ltp) /\ Continue(p, "mk", "drain") /\ UNCHANGED <<member, todo, faults>>
         \/ (Fault \/ (~IsDir(fd[p].ltp) /\ UNCHANGED faults)) /\ Brk(p)
  BY Zenon DEF Enable
<1>2. UNCHANGED todo /\ UNCHANGED member
  BY Zenon, <1>1 DEF Brk
<1>3. Locals(p)
  BY Zenon, <1>1, <1>2, Plain DEF lib
<1>4. QED
  BY Zenon, <1>1, <1>2, <1>3, AtFacts, Going, Breaking, FaultFacts DEF EnableDoes

\* The variables of tst_cg_cleanup() are cleared.
Cleared(p) == named'[p] = {} /\ made'[p] = FALSE /\ \A d \in Dirs : fd'[p][d] = NoFd

\* Clearing leaves those of other tests alone.
LEMMA Clearing ==
  ASSUME Types, Fds, NEW p \in Tests, UNCHANGED <<scene, todo, faults>>,
         fd' = [fd EXCEPT ![p] = [d \in Dirs |-> NoFd]],
         named' = [named EXCEPT ![p] = {}], made' = [made EXCEPT ![p] = FALSE]
  PROVE  Locals(p) /\ Cleared(p)
<1>1. /\ named' \in [Tests -> SUBSET Dirs] /\ named'[p] = {}
      /\ \A q \in Tests \ {p} : named'[q] = named[q]
  BY Zenon DEF Types
<1>2. /\ made' \in [Tests -> BOOLEAN] /\ made'[p] = FALSE
      /\ \A q \in Tests \ {p} : made'[q] = made[q]
  BY Zenon DEF Types
<1>3. /\ \A d \in Dirs : fd'[p][d] = NoFd
      /\ \A q \in Tests \ {p} : fd'[q] = fd[q]
  BY Zenon DEF Fds
<1>4. QED
  BY Zenon, <1>1, <1>2, <1>3 DEF Types, Locals, Cleared

RequiredDoes(p) ==
  /\ Op(p) = "required" /\ UNCHANGED <<tree, member>>
  /\ broken' = broken /\ left'[p] = left[p] - 1
  /\ \/ Op(p)' = "require" /\ Dr(p)' = "ltp" /\ phase'[p] = phase[p] /\ left'[p] > 0
     \/ Op(p)' = "run" /\ Dr(p)' = "" /\ phase'[p] = "run"
  /\ \/ scene.kind[p] = "lib" /\ UNCHANGED lib
     \/ /\ scene.kind[p] # "lib" /\ Cleared(p)
        /\ conf'[p] = "made" <=> made[p]

\* The controller is required.
LEMMA RequiredStep ==
  ASSUME Types, Fds, NEW p \in Tests, Control(p), Required(p)
  PROVE  Types' /\ Frame(p) /\ RequiredDoes(p)
<1> USE DEF Ops, Dirs
<1>1. /\ At(p, "required", "ltp") /\ left' = [left EXCEPT ![p] = @ - 1]
      /\ \/ Goto(p, "require", "ltp") /\ UNCHANGED phase /\ left'[p] > 0
         \/ Goto(p, "run", "") /\ phase' = [phase EXCEPT ![p] = "run"]
      /\ \/ scene.kind[p] = "lib" /\ UNCHANGED <<lib, conf>>
         \/ /\ scene.kind[p] # "lib"
            /\ conf' = [conf EXCEPT ![p] = Printed(p)]
            /\ fd' = [fd EXCEPT ![p] = [d \in Dirs |-> NoFd]]
            /\ named' = [named EXCEPT ![p] = {}]
            /\ made' = [made EXCEPT ![p] = FALSE]
      /\ UNCHANGED <<scene, tree, member, todo, broken, faults>>
  BY Zenon DEF Required
<1>2. left \in [Tests -> Nat] /\ left[p] > 0
  BY Zenon, <1>1, AtFacts DEF Types, Control
<1>3. /\ left' \in [Tests -> Nat] /\ left'[p] = left[p] - 1
      /\ \A q \in Tests \ {p} : left'[q] = left[q]
  <2>1. left' = [left EXCEPT ![p] = left[p] - 1]
    BY Zenon, <1>1
  <2>2. QED
    BY <1>2, <2>1
<1>4. /\ phase' \in [Tests -> Phases] /\ \A q \in Tests \ {p} : phase'[q] = phase[q]
      /\ Op(p)' = "run" => phase'[p] = "run"
      /\ Op(p)' # "run" => phase'[p] = phase[p]
  <2>1. CASE Goto(p, "require", "ltp") /\ UNCHANGED phase
    BY Zenon, <2>1, GotoFacts DEF Types, Phases
  <2>2. CASE Goto(p, "run", "") /\ phase' = [phase EXCEPT ![p] = "run"]
    BY Zenon, <2>2, GotoFacts DEF Types, Phases
  <2>3. QED
    BY Zenon, <1>1, <2>1, <2>2
<1>5. /\ pc' \in [Tests -> Ops \X (Dirs \cup {""})]
      /\ \A q \in Tests \ {p} : Op(q)' = Op(q) /\ Dr(q)' = Dr(q)
      /\ \/ Op(p)' = "require" /\ Dr(p)' = "ltp" /\ left'[p] > 0
         \/ Op(p)' = "run" /\ Dr(p)' = ""
  BY Zenon, <1>1, GotoFacts
<1>6. CASE scene.kind[p] = "lib" /\ UNCHANGED <<lib, conf>>
  <2>1. Locals(p)
    BY Zenon, <1>1, <1>6, Plain DEF lib
  <2>2. QED
    BY Zenon, <1>1, <1>3, <1>4, <1>5, <1>6, <2>1, AtFacts
      DEF Types, Phases, Locals, Frame, RequiredDoes
<1>7. CASE /\ scene.kind[p] # "lib"
           /\ conf' = [conf EXCEPT ![p] = Printed(p)]
           /\ fd' = [fd EXCEPT ![p] = [d \in Dirs |-> NoFd]]
           /\ named' = [named EXCEPT ![p] = {}]
           /\ made' = [made EXCEPT ![p] = FALSE]
  <2>1. Locals(p) /\ Cleared(p)
    BY Zenon, <1>1, <1>7, Clearing
  <2>2. /\ conf' \in [Tests -> Confs] /\ (conf'[p] = "made" <=> made[p])
        /\ \A q \in Tests \ {p} : conf'[q] = conf[q]
    BY Zenon, <1>7 DEF Types, Printed, Confs
  <2>3. Types'
    BY ZenonT(60), <1>1, <1>3, <1>4, <1>5, <2>1, <2>2 DEF Types, Phases, Confs, Locals
  <2>4. Frame(p)
    BY Zenon, <1>1, <1>3, <1>4, <1>5, <2>1, <2>2 DEF Locals, Frame
  <2>5. RequiredDoes(p)
    BY Zenon, <1>1, <1>3, <1>4, <1>5, <1>7, <2>1, <2>2, AtFacts DEF RequiredDoes
  <2>6. QED
    BY Zenon, <2>3, <2>4, <2>5
<1>8. QED
  BY Zenon, <1>1, <1>6, <1>7

EndDoes(p) ==
  /\ Op(p) = "run" /\ UNCHANGED <<tree, lib, left, conf>>
  /\ \/ /\ scene.kind[p] = "lib"
        /\ Op(p)' = "c_read" /\ Dr(p)' = "test" /\ phase'[p] = "cleanup"
        /\ \/ member' = [member EXCEPT ![p] = Gone]
           \/ p \in scene.linger /\ UNCHANGED member
     \/ /\ scene.kind[p] # "lib"
        /\ Op(p)' = "mk" /\ Dr(p)' = "ltp" /\ phase'[p] = "load" /\ UNCHANGED member
  /\ p \in broken => p \in broken'
  /\ broken' # broken => \E d \in {"test", "drain"} :
                           (d = "drain" => scene.kind[p] = "lib") /\ JoinTargets(p, d) = {}

\* The test ends.
LEMMA EndStep ==
  ASSUME Types, NEW p \in Tests, End(p)
  PROVE  Types' /\ Frame(p) /\ EndDoes(p)
<1> USE DEF Ops, Dirs
<1>1. At(p, "run", "") /\ UNCHANGED <<scene, tree, lib, left, conf, todo, faults>>
  BY Zenon DEF End
<1>2. /\ phase' \in [Tests -> Phases] /\ \A q \in Tests \ {p} : phase'[q] = phase[q]
      /\ pc' \in [Tests -> Ops \X (Dirs \cup {""})]
      /\ \A q \in Tests \ {p} : Op(q)' = Op(q) /\ Dr(q)' = Dr(q)
      /\ scene.kind[p] = "lib" => Op(p)' = "c_read" /\ Dr(p)' = "test" /\ phase'[p] = "cleanup"
      /\ scene.kind[p] # "lib" => Op(p)' = "mk" /\ Dr(p)' = "ltp" /\ phase'[p] = "load"
  <2>1. CASE /\ scene.kind[p] = "lib" /\ Goto(p, "c_read", "test")
             /\ phase' = [phase EXCEPT ![p] = "cleanup"]
    BY Zenon, <2>1, GotoFacts DEF Types, Phases
  <2>2. CASE /\ scene.kind[p] # "lib" /\ Goto(p, "mk", "ltp")
             /\ phase' = [phase EXCEPT ![p] = "load"]
    BY Zenon, <2>2, GotoFacts DEF Types, Phases
  <2>3. QED
    BY Zenon, <2>1, <2>2 DEF End
<1>3. /\ broken' \subseteq Tests /\ (p \in broken => p \in broken')
      /\ \A q \in Tests \ {p} : q \in broken' <=> q \in broken
      /\ broken' # broken => \E d \in {"test", "drain"} :
                               (d = "drain" => scene.kind[p] = "lib") /\ JoinTargets(p, d) = {}
  BY Zenon DEF End, Types
<1>4. /\ scene.kind[p] = "lib" => \/ member' = [member EXCEPT ![p] = Gone]
                                  \/ p \in scene.linger /\ UNCHANGED member
      /\ scene.kind[p] # "lib" => UNCHANGED member
  BY Zenon DEF End
<1>5. Locals(p)
  BY Zenon, <1>1, Plain DEF lib
<1>6. QED
  BY Zenon, <1>1, <1>2, <1>3, <1>4, <1>5, AtFacts DEF Types, Phases, Locals, Frame, EndDoes

\* Nothing but the group of a process changes.
Same(p) == /\ UNCHANGED <<tree, lib, pc, phase, left, conf, broken, todo>>
           /\ Op(p)' = Op(p) /\ Dr(p)' = Dr(p)

\* A process enters a group, or exits.
LEMMA ExitStep ==
  ASSUME Types, NEW p \in Tests, Exit(p) \/ Joins(p)
  PROVE  Types' /\ Frame(p) /\ Same(p)
<1>1. UNCHANGED <<scene, tree, lib, pc, phase, left, conf, todo, broken, faults>>
  BY Zenon DEF Exit, Joins, Join
<1>2. QED
  BY Zenon, <1>1 DEF Types, Frame, Same, Op, Dr, lib

ClearDoes(p) ==
  /\ Op(p) = "clear" /\ UNCHANGED <<tree, member, phase, left, conf, broken>>
  /\ Op(p)' = "done" /\ Dr(p)' = "" /\ Cleared(p)

\* The clean-up is over.
LEMMA ClearStep ==
  ASSUME Types, Fds, NEW p \in Tests, Clear(p)
  PROVE  Types' /\ Frame(p) /\ ClearDoes(p)
<1> USE DEF Ops, Dirs
<1>1. /\ At(p, "clear", "") /\ Goto(p, "done", "")
      /\ UNCHANGED <<scene, tree, member, phase, left, conf, todo, broken, faults>>
  BY Zenon DEF Clear
<1>2. Locals(p) /\ Cleared(p)
  BY Zenon, <1>1, Clearing DEF Clear
<1>3. QED
  BY ZenonT(60), <1>1, <1>2, AtFacts, GotoFacts DEF Types, Locals, Frame, ClearDoes

MkDirDoes(p, d) ==
  /\ Op(p) = "mk" /\ Dr(p) = d /\ named'[p] = named[p] \cup {d} /\ UNCHANGED <<member, fd>>
  /\ \/ /\ IsDir(Up(p, d)) /\ Lookup(Up(p, d), Name(p, d)) = {}
        /\ groups' = Append(groups, [name |-> Name(p, d), up |-> Up(p, d), by |-> p])
        /\ alive' = alive \cup {Len(groups')}
        /\ made'[p] = (IF d = "ltp" THEN TRUE ELSE made[p]) /\ Went(p, "open", d)
     \/ /\ Lookup(Up(p, d), Name(p, d)) # {} /\ UNCHANGED tree
        /\ made'[p] = (IF d = "ltp" THEN FALSE ELSE made[p]) /\ Went(p, "open", d)
     \/ /\ scene.faults # 0 \/ ~IsDir(Up(p, d))
        /\ UNCHANGED tree
        /\ made'[p] = (IF d = "ltp" THEN FALSE ELSE made[p]) /\ Broke(p)

\* A directory is made, or found.
LEMMA MkDirStep ==
  ASSUME Types, NEW p \in Tests, NEW d \in Dirs, MkDir(p, d)
  PROVE  Types' /\ Frame(p) /\ MkDirDoes(p, d)
<1> USE DEF Ops
<1>1. /\ At(p, "mk", d) /\ Names(p, d) /\ UNCHANGED <<scene, fd>>
      /\ \/ /\ IsDir(Up(p, d)) /\ Lookup(Up(p, d), Name(p, d)) = {}
            /\ groups' = Append(groups, [name |-> Name(p, d), up |-> Up(p, d), by |-> p])
            /\ alive' = alive \cup {Len(groups')}
            /\ Creates(p, d, TRUE)
            /\ Continue(p, "open", d) /\ UNCHANGED <<member, todo, faults>>
         \/ /\ Lookup(Up(p, d), Name(p, d)) # {}
            /\ Creates(p, d, FALSE)
            /\ Continue(p, "open", d) /\ UNCHANGED <<tree, member, todo, faults>>
         \/ /\ Fault \/ (~IsDir(Up(p, d)) /\ UNCHANGED faults)
            /\ Creates(p, d, FALSE)
            /\ Brk(p) /\ UNCHANGED tree
  BY Zenon DEF MkDir
<1>2. UNCHANGED <<member, todo>> /\ (Fault \/ UNCHANGED faults)
  BY Zenon, <1>1 DEF Brk
<1>3. /\ named' \in [Tests -> SUBSET Dirs] /\ named'[p] = named[p] \cup {d}
      /\ \A q \in Tests \ {p} : named'[q] = named[q]
  BY Zenon, <1>1 DEF Names, Types
<1>4. ASSUME NEW b \in BOOLEAN, Creates(p, d, b)
      PROVE  /\ made' \in [Tests -> BOOLEAN] /\ made'[p] = (IF d = "ltp" THEN b ELSE made[p])
             /\ \A q \in Tests \ {p} : made'[q] = made[q]
  BY Zenon, <1>4 DEF Creates, Types
<1>5. Locals(p)
  <2>1. scene.faults \in Nat /\ faults \in 0 .. scene.faults
    BY Zenon, CGroupAssumption DEF Types
  <2>2. faults' \in 0 .. scene.faults
    BY <1>2, <2>1 DEF Fault
  <2>3. /\ made' \in [Tests -> BOOLEAN]
        /\ \A q \in Tests \ {p} : made'[q] = made[q]
    BY Zenon, <1>1, <1>4
  <2>4. QED
    BY Zenon, <1>1, <1>2, <1>3, <2>2, <2>3 DEF Types, Locals
<1>6. Op(p) = "mk" /\ Dr(p) = d
  BY Zenon, <1>1, AtFacts
<1>7. CASE /\ IsDir(Up(p, d)) /\ Lookup(Up(p, d), Name(p, d)) = {}
           /\ groups' = Append(groups, [name |-> Name(p, d), up |-> Up(p, d), by |-> p])
           /\ alive' = alive \cup {Len(groups')}
           /\ Creates(p, d, TRUE) /\ Continue(p, "open", d)
  <2>1. Types' /\ Frame(p) /\ Went(p, "open", d)
    BY Zenon, <1>5, <1>7, Going
  <2>2. made'[p] = (IF d = "ltp" THEN TRUE ELSE made[p])
    BY Zenon, <1>4, <1>7
  <2>3. QED
    BY Zenon, <1>1, <1>2, <1>3, <1>6, <1>7, <2>1, <2>2 DEF MkDirDoes
<1>8. CASE /\ Lookup(Up(p, d), Name(p, d)) # {} /\ UNCHANGED tree
           /\ Creates(p, d, FALSE) /\ Continue(p, "open", d)
  <2>1. Types' /\ Frame(p) /\ Went(p, "open", d)
    BY Zenon, <1>5, <1>8, Going
  <2>2. made'[p] = (IF d = "ltp" THEN FALSE ELSE made[p])
    BY Zenon, <1>4, <1>8
  <2>3. QED
    BY Zenon, <1>1, <1>2, <1>3, <1>6, <1>8, <2>1, <2>2 DEF MkDirDoes
<1>9. CASE /\ Fault \/ ~IsDir(Up(p, d))
           /\ Creates(p, d, FALSE) /\ Brk(p) /\ UNCHANGED tree
  <2>1. Types' /\ Frame(p) /\ Broke(p)
    BY Zenon, <1>5, <1>9, Breaking
  <2>2. made'[p] = (IF d = "ltp" THEN FALSE ELSE made[p])
    BY Zenon, <1>4, <1>9
  <2>3. QED
    BY Zenon, <1>1, <1>2, <1>3, <1>6, <1>9, <2>1, <2>2, FaultFacts DEF MkDirDoes
<1>10. QED
  BY Zenon, <1>1, <1>7, <1>8, <1>9

\* The components of a pair.
LEMMA Pair == ASSUME NEW a, NEW b, NEW t, t = <<a, b>> PROVE t[1] = a /\ t[2] = b
OBVIOUS

\* Where tst_cg_require() and the loading of a configuration go on.
LEMMA AfterFacts ==
  ASSUME NEW p \in Tests, NEW d \in Dirs
  PROVE  /\ d = "ltp" /\ phase[p] = "load" => After(p, d)[1] = "mk" /\ After(p, d)[2] = "drain"
         /\ d = "ltp" /\ phase[p] # "load" => After(p, d)[1] = "enable" /\ After(p, d)[2] = "ltp"
         /\ d = "drain" => After(p, d)[1] = "mk" /\ After(p, d)[2] = "test"
         /\ d = "test" /\ phase[p] = "load" =>
              After(p, d)[1] = "c_read" /\ After(p, d)[2] = "test"
         /\ d = "test" /\ phase[p] # "load" =>
              After(p, d)[1] = "required" /\ After(p, d)[2] = "ltp"
         /\ After(p, d)[1] \in Ops /\ After(p, d)[2] \in Dirs
<1>1. /\ d = "ltp" /\ phase[p] = "load" => After(p, d) = <<"mk", "drain">>
      /\ d = "ltp" /\ phase[p] # "load" => After(p, d) = <<"enable", "ltp">>
      /\ d = "drain" => After(p, d) = <<"mk", "test">>
      /\ d = "test" /\ phase[p] = "load" => After(p, d) = <<"c_read", "test">>
      /\ d = "test" /\ phase[p] # "load" => After(p, d) = <<"required", "ltp">>
  BY Zenon DEF After, Dirs
<1>2. QED
  BY <1>1 DEF Ops, Dirs

OpenDirDoes(p, d) ==
  /\ Op(p) = "open" /\ Dr(p) = d /\ UNCHANGED <<tree, member, named>>
  /\ \/ /\ fd'[p][d] \in Lookup(Up(p, d), Name(p, d))
        /\ \A e \in Dirs \ {d} : fd'[p][e] = fd[p][e]
        /\ Went(p, After(p, d)[1], After(p, d)[2])
        /\ made'[p] = (made[p] \/ (phase[p] = "load" /\ d = "drain" /\ conf[p] = "made"))
     \/ Lookup(Up(p, d), Name(p, d)) = {} /\ Broke(p) /\ UNCHANGED <<fd, made>>

\* A directory is opened.
LEMMA OpenDirStep ==
  ASSUME Types, Fds, NEW p \in Tests, NEW d \in Dirs, OpenDir(p, d)
  PROVE  Types' /\ Frame(p) /\ OpenDirDoes(p, d)
<1> DEFINE found == Lookup(Up(p, d), Name(p, d))
           now == phase[p] = "load" /\ d = "drain" /\ conf[p] = "made"
<1>1. At(p, "open", d) /\ UNCHANGED <<scene, tree, named, faults>>
  BY Zenon DEF OpenDir
<1>2. Op(p) = "open" /\ Dr(p) = d
  BY Zenon, <1>1, AtFacts
<1>3. CASE /\ found # {}
           /\ fd' = [fd EXCEPT ![p][d] = CHOOSE g \in found : TRUE]
           /\ Continue(p, After(p, d)[1], After(p, d)[2])
           /\ made' = IF now THEN [made EXCEPT ![p] = TRUE] ELSE made
           /\ UNCHANGED <<member, todo>>
  <2>1. /\ made' \in [Tests -> BOOLEAN] /\ made'[p] = (made[p] \/ now)
        /\ \A q \in Tests \ {p} : made'[q] = made[q]
    BY Zenon, <1>3 DEF Types
  <2>2. /\ fd'[p][d] \in found /\ \A e \in Dirs \ {d} : fd'[p][e] = fd[p][e]
        /\ \A q \in Tests \ {p} : fd'[q] = fd[q]
    <3>1. PICK x \in found : x = CHOOSE g \in found : TRUE
      BY Zenon, <1>3
    <3>2. fd' = [fd EXCEPT ![p] = [fd[p] EXCEPT ![d] = x]]
      BY Zenon, <1>3, <3>1
    <3>3. QED
      BY Zenon, <3>1, <3>2 DEF Fds
  <2>3. Locals(p)
    BY Zenon, <1>1, <1>3, <2>1, <2>2 DEF Types, Locals
  <2>4. Types' /\ Frame(p) /\ Went(p, After(p, d)[1], After(p, d)[2])
    BY Zenon, <1>3, <2>3, AfterFacts, Going
  <2>5. QED
    BY Zenon, <1>1, <1>2, <1>3, <2>1, <2>2, <2>4 DEF OpenDirDoes
<1>4. CASE found = {} /\ Brk(p) /\ UNCHANGED <<fd, made>>
  <2>1. UNCHANGED <<member, todo>>
    BY Zenon, <1>4 DEF Brk
  <2>2. Locals(p)
    BY Zenon, <1>1, <1>4, <2>1, Plain
  <2>3. Types' /\ Frame(p) /\ Broke(p)
    BY Zenon, <1>4, <2>2, Breaking
  <2>4. QED
    BY Zenon, <1>1, <1>2, <1>4, <2>1, <2>3 DEF OpenDirDoes
<1>5. QED
  BY Zenon, <1>3, <1>4 DEF OpenDir

DrainReadDoes(p, d) ==
  /\ Op(p) = "c_read" /\ Dr(p) = d /\ UNCHANGED <<tree, member, lib>>
  /\ \/ d = "test" /\ "test" \notin named[p] /\ Went(p, "c_read", "drain")
     \/ d = "drain" /\ ~made[p] /\ Went(p, "clear", "")
     \/ /\ IsDir(fd[p][d]) /\ (d = "drain" => made[p]) /\ d # "ltp"
        /\ todo'[p] = Members(fd[p][d]) /\ Went(p, "c_move", d)
     \/ ~IsDir(fd[p][d]) /\ (d = "drain" => made[p]) /\ Broke(p)

\* The processes of a group are read.
LEMMA DrainReadStep ==
  ASSUME Types, NEW p \in Tests, NEW d \in Dirs, DrainRead(p, d)
  PROVE  Types' /\ Frame(p) /\ DrainReadDoes(p, d)
<1> USE DEF Ops
<1>1. At(p, "c_read", d) /\ UNCHANGED <<scene, tree, lib, faults>>
  BY Zenon DEF DrainRead
<1>2. Op(p) = "c_read" /\ Dr(p) = d
  BY Zenon, <1>1, AtFacts
<1>3. CASE /\ UNCHANGED <<member, todo>>
           /\ \/ d = "test" /\ "test" \notin named[p] /\ Continue(p, "c_read", "drain")
              \/ d = "drain" /\ ~made[p] /\ Continue(p, "clear", "")
  <2>1. Locals(p)
    BY Zenon, <1>1, <1>3, Plain DEF lib
  <2>2. QED
    BY Zenon, <1>1, <1>2, <1>3, <2>1, Going DEF DrainReadDoes, Dirs
<1>4. CASE /\ d # "ltp" /\ (d = "drain" => made[p]) /\ IsDir(fd[p][d])
           /\ todo' = [todo EXCEPT ![p] = Members(fd[p][d])]
           /\ Continue(p, "c_move", d) /\ UNCHANGED member
  <2>1. /\ todo' \in [Tests -> SUBSET Tests] /\ todo'[p] = Members(fd[p][d])
        /\ \A q \in Tests \ {p} : todo'[q] = todo[q]
    <3>1. Members(fd[p][d]) \in SUBSET Tests
      BY Zenon DEF Members
    <3>2. QED
      BY Zenon, <1>4, <3>1 DEF Types
  <2>2. Locals(p)
    BY Zenon, <1>1, <2>1 DEF Types, Locals, lib
  <2>3. QED
    BY Zenon, <1>1, <1>2, <1>4, <2>1, <2>2, Going DEF DrainReadDoes
<1>5. CASE (d = "drain" => made[p]) /\ ~IsDir(fd[p][d]) /\ Brk(p)
  <2>1. UNCHANGED <<member, todo>>
    BY Zenon, <1>5 DEF Brk
  <2>2. Locals(p)
    BY Zenon, <1>1, <2>1, Plain DEF lib
  <2>3. QED
    BY Zenon, <1>1, <1>2, <1>5, <2>1, <2>2, Breaking DEF DrainReadDoes
<1>6. QED
  BY Zenon, <1>3, <1>4, <1>5 DEF DrainRead, HasTestDir, OwnsLtp

Dest(p, d) == IF d = "test" THEN fd[p].drain ELSE Root
DrainMoveDoes(p, d) ==
  /\ Op(p) = "c_move" /\ Dr(p) = d /\ UNCHANGED <<tree, lib>>
  /\ \/ ~IsDir(Dest(p, d)) /\ Broke(p)
     \/ IsDir(Dest(p, d)) /\ todo[p] = {} /\ Went(p, "c_rm", d) /\ UNCHANGED <<member, todo>>
     \/ Broke(p) /\ \E q \in todo[p] : member[q] = Gone
     \/ /\ IsDir(Dest(p, d)) /\ Went(p, "c_move", d)
        /\ \E q \in todo[p] : /\ member[q] # Gone
                              /\ member' = [member EXCEPT ![q] = Dest(p, d)]
                              /\ todo'[p] = todo[p] \ {q}

\* The processes are moved one by one.
LEMMA DrainMoveStep ==
  ASSUME Types, NEW p \in Tests, NEW d \in Dirs, DrainMove(p, d)
  PROVE  Types' /\ Frame(p) /\ DrainMoveDoes(p, d)
<1> USE DEF Ops
<1>1. At(p, "c_move", d) /\ UNCHANGED <<scene, tree, lib, faults>>
  BY Zenon DEF DrainMove
<1>2. Op(p) = "c_move" /\ Dr(p) = d
  BY Zenon, <1>1, AtFacts
<1>3. CASE Brk(p) /\ (~IsDir(Dest(p, d)) \/ \E q \in todo[p] : member[q] = Gone)
  <2>1. UNCHANGED <<member, todo>>
    BY Zenon, <1>3 DEF Brk
  <2>2. Locals(p)
    BY Zenon, <1>1, <2>1, Plain DEF lib
  <2>3. QED
    BY Zenon, <1>1, <1>2, <1>3, <2>1, <2>2, Breaking DEF DrainMoveDoes
<1>4. CASE /\ IsDir(Dest(p, d)) /\ todo[p] = {}
           /\ Continue(p, "c_rm", d) /\ UNCHANGED <<member, todo>>
  <2>1. Locals(p)
    BY Zenon, <1>1, <1>4, Plain DEF lib
  <2>2. QED
    BY Zenon, <1>1, <1>2, <1>4, <2>1, Going DEF DrainMoveDoes
<1>5. ASSUME NEW q \in todo[p], IsDir(Dest(p, d)), member[q] # Gone,
             member' = [member EXCEPT ![q] = Dest(p, d)],
             todo' = [todo EXCEPT ![p] = @ \ {q}],
             UNCHANGED <<pc, phase, left, conf, broken>>
      PROVE  Types' /\ Frame(p) /\ DrainMoveDoes(p, d)
  <2>1. /\ todo' \in [Tests -> SUBSET Tests] /\ todo'[p] = todo[p] \ {q}
        /\ \A r \in Tests \ {p} : todo'[r] = todo[r]
    BY Zenon, <1>5 DEF Types
  <2>2. \A r \in Tests : Op(r)' = Op(r) /\ Dr(r)' = Dr(r)
    BY Zenon, <1>5 DEF Op, Dr
  <2>3. Went(p, "c_move", d)
    BY Zenon, <1>2, <1>5, <2>2 DEF Went
  <2>4. Types'
    BY Zenon, <1>1, <1>5, <2>1 DEF Types, lib
  <2>5. Frame(p)
    BY Zenon, <1>1, <1>5, <2>1, <2>2 DEF Frame, lib
  <2>6. QED
    BY Zenon, <1>1, <1>2, <1>5, <2>1, <2>3, <2>4, <2>5 DEF DrainMoveDoes
<1>6. QED
  BY Zenon, <1>3, <1>4, <1>5 DEF DrainMove, Dest

Removable(p, d) == {g \in Lookup(Up(p, d), Name(p, d)) : Members(g) = {} /\ Children(g) = {}}
RemoveDoes(p, d) ==
  /\ Op(p) = "c_rm" /\ Dr(p) = d /\ UNCHANGED <<groups, member, lib>>
  /\ \/ /\ Removable(p, d) # {} /\ alive' = alive \ Removable(p, d)
        /\ d = "test" => Went(p, "c_read", "drain")
        /\ d = "drain" => Went(p, "c_rm", "ltp")
        /\ d = "ltp" => Went(p, "clear", "")
     \/ Removable(p, d) = {} /\ Broke(p) /\ UNCHANGED alive

\* A group is removed.
LEMMA RemoveStep ==
  ASSUME Types, NEW p \in Tests, NEW d \in Dirs, Remove(p, d)
  PROVE  Types' /\ Frame(p) /\ RemoveDoes(p, d)
<1> DEFINE onto == CASE d = "test" -> <<"c_read", "drain">>
                     [] d = "drain" -> <<"c_rm", "ltp">>
                     [] d = "ltp" -> <<"clear", "">>
<1>1. At(p, "c_rm", d) /\ UNCHANGED <<scene, groups, lib, faults>>
  BY Zenon DEF Remove
<1>2. Op(p) = "c_rm" /\ Dr(p) = d
  BY Zenon, <1>1, AtFacts
<1>3. CASE /\ Removable(p, d) # {} /\ alive' = alive \ Removable(p, d)
           /\ Continue(p, onto[1], onto[2]) /\ UNCHANGED <<member, todo>>
  <2>1. /\ d = "test" => onto = <<"c_read", "drain">>
        /\ d = "drain" => onto = <<"c_rm", "ltp">>
        /\ d = "ltp" => onto = <<"clear", "">>
    BY Zenon
  <2>2. PICK t : t = onto
    BY Zenon
  <2> HIDE DEF onto
  <2>3. /\ d = "test" => t[1] = "c_read" /\ t[2] = "drain"
        /\ d = "drain" => t[1] = "c_rm" /\ t[2] = "ltp"
        /\ d = "ltp" => t[1] = "clear" /\ t[2] = ""
    <3>1. \A x, y : t = <<x, y>> => t[1] = x /\ t[2] = y
      BY Pair
    <3>2. QED
      BY Zenon, <2>1, <2>2, <3>1
  <2>4. t[1] \in Ops /\ t[2] \in Dirs \cup {""} /\ Continue(p, t[1], t[2])
    BY Zenon, <1>3, <2>2, <2>3 DEF Ops, Dirs
  <2>5. Locals(p)
    BY Zenon, <1>1, <1>3, Plain DEF lib
  <2>6. Types' /\ Frame(p) /\ Went(p, t[1], t[2])
    BY Zenon, <2>4, <2>5, Going
  <2>7. QED
    BY Zenon, <1>1, <1>2, <1>3, <2>3, <2>6 DEF RemoveDoes
<1>4. CASE Removable(p, d) = {} /\ Brk(p) /\ UNCHANGED alive
  <2>1. UNCHANGED <<member, todo>>
    BY Zenon, <1>4 DEF Brk
  <2>2. Locals(p)
    BY Zenon, <1>1, <2>1, Plain DEF lib
  <2>3. QED
    BY Zenon, <1>1, <1>2, <1>4, <2>1, <2>2, Breaking DEF RemoveDoes
<1>5. QED
  BY Zenon, <1>3, <1>4 DEF Remove, Removable
-----------------------------------------------------------------------------
(* The groups and who is in them.                                           *)

\* A step of a test makes and removes only shared groups and its own, and removes
\* none that a process is in.
Rel(p) ==
  /\ \A g \in 1 .. Len(groups) : g \in 1 .. Len(groups') /\ groups'[g] = groups[g]
  /\ \A g \in alive \ alive' : groups[g].name \in {p, "drain", "ltp"} /\ Members(g) = {}
  /\ \A g \in alive' \ alive : /\ g \notin 1 .. Len(groups)
                               /\ groups'[g].name \in {p, "drain", "ltp"} /\ groups'[g].by = p

\* The numbers that are no groups.
LEMMA Numbers ==
  /\ Root \in Nat /\ NoFd \notin Nat /\ Gone \notin Nat
  /\ \A n \in Nat : Root \notin 1 .. n /\ NoFd \notin 1 .. n /\ Gone \notin 1 .. n
BY DEF Root, NoFd, Gone

\* A sequence and one element more.
LEMMA Appended ==
  ASSUME NEW S, NEW s \in Seq(S), NEW e \in S, NEW t, t = Append(s, e)
  PROVE  /\ t \in Seq(S) /\ Len(s) \in Nat /\ Len(t) = Len(s) + 1 /\ t[Len(s) + 1] = e
         /\ \A k \in 1 .. Len(s) : t[k] = s[k]
OBVIOUS

\* The descriptors, one by one.
LEMMA FdFacts ==
  ASSUME Fds, NEW p \in Tests
  PROVE  /\ \A d \in Dirs : fd[p][d] = NoFd \/ fd[p][d] \in 1 .. Len(groups)
         /\ fd[p].ltp = NoFd \/ fd[p].ltp \in 1 .. Len(groups)
         /\ fd[p].drain = NoFd \/ fd[p].drain \in 1 .. Len(groups)
         /\ fd[p].test = NoFd \/ fd[p].test \in 1 .. Len(groups)
         /\ Descriptors(p) =>
              /\ fd[p].ltp # NoFd => groups[fd[p].ltp].name = "ltp"
              /\ fd[p].drain # NoFd => /\ groups[fd[p].drain].name = "drain"
                                       /\ groups[fd[p].drain].up = fd[p].ltp
              /\ fd[p].test # NoFd => /\ groups[fd[p].test].name = p
                                      /\ groups[fd[p].test].up = fd[p].ltp
<1>1. \A d \in Dirs : fd[p][d] = NoFd \/ fd[p][d] \in 1 .. Len(groups)
  BY Zenon DEF Fds
<1>2. /\ fd[p].ltp = fd[p]["ltp"] /\ fd[p].drain = fd[p]["drain"] /\ fd[p].test = fd[p]["test"]
      /\ "ltp" \in Dirs /\ "drain" \in Dirs /\ "test" \in Dirs
  BY DEF Dirs
<1>3. QED
  BY Zenon, <1>1, <1>2 DEF Descriptors, Name, Up

\* The names of directories, and what they are in.
LEMMA NameFacts ==
  ASSUME Tree, Fds, NEW p \in Tests, Descriptors(p), NEW d \in Dirs
  PROVE  /\ Name(p, d) \in {"ltp", "drain"} \cup Tests
         /\ Name(p, d) \in {p, "drain", "ltp"}
         /\ p # "ltp" /\ p # "drain"
         /\ Name(p, d) = "ltp" <=> d = "ltp"
         /\ Name(p, d) \in Tests => Name(p, d) = p
         /\ d = "ltp" => Up(p, d) = Root
         /\ d # "ltp" /\ Up(p, d) # NoFd =>
              /\ Up(p, d) \in 1 .. Len(groups) /\ Up(p, d) # Root
              /\ groups[Up(p, d)].name = "ltp"
<1>1. /\ p # "ltp" /\ p # "drain"
      /\ "ltp" \notin Tests /\ "drain" \notin Tests
  BY Zenon, CGroupAssumption
<1>2. d \in {"ltp", "drain", "test"}
  BY Zenon DEF Dirs
<1>3. Len(groups) \in Nat
  BY DEF Tree
<1>4. fd[p].ltp # NoFd => /\ fd[p].ltp \in 1 .. Len(groups) /\ fd[p].ltp # Root
                          /\ groups[fd[p].ltp].name = "ltp"
  BY ZenonT(60), <1>3, Numbers, FdFacts DEF Name
<1>5. QED
  BY Zenon, <1>1, <1>2, <1>4 DEF Name, Up

\* The entries of the table of groups.
LEMMA GroupFacts ==
  ASSUME Tree
  PROVE  /\ Len(groups) \in Nat
         /\ \A g \in 1 .. Len(groups) : groups[g] \in Records
         /\ \A g \in 1 .. Len(groups) : /\ groups[g].up \in Nat
                                        /\ groups[g].by \in Tests \cup {"admin"}
<1>1. groups \in Seq(Records)
  BY Zenon DEF Tree
<1>2. Len(groups) \in Nat /\ \A g \in 1 .. Len(groups) : groups[g] \in Records
  BY <1>1
<1>3. \A r \in Records : r.up \in Nat /\ r.by \in Tests \cup {"admin"}
  BY DEF Records
<1>4. QED
  BY Zenon, <1>2, <1>3

\* What a group is in comes before a new one.
LEMMA Below ==
  ASSUME NEW n \in Nat, NEW A \in SUBSET (1 .. n), NEW u, u = Root \/ u \in A
  PROVE  u \in Nat /\ u < n + 1 /\ (u # Root => u \in 1 .. n)
<1>1. CASE u = Root
  BY <1>1 DEF Root
<1>2. CASE u \in A
  <2>1. u \in 1 .. n
    BY Zenon, <1>2
  <2>2. QED
    BY <2>1 DEF Root
<1>3. QED
  BY Zenon, <1>1, <1>2

\* mkdirat() adds a group.
LEMMA Making ==
  ASSUME Tree, Fds, NEW p \in Tests, Descriptors(p), NEW d \in Dirs,
         IsDir(Up(p, d)), Lookup(Up(p, d), Name(p, d)) = {},
         groups' = Append(groups, [name |-> Name(p, d), up |-> Up(p, d), by |-> p]),
         alive' = alive \cup {Len(groups')}
  PROVE  /\ Tree' /\ Rel(p)
         /\ \E n : /\ alive' = alive \cup {n} /\ n \in Nat
                   /\ n \notin alive /\ n \notin 1 .. Len(groups)
                   /\ groups'[n].name = Name(p, d) /\ groups'[n].up = Up(p, d)
                   /\ groups'[n].by = p
<1> DEFINE e == [name |-> Name(p, d), up |-> Up(p, d), by |-> p]
           n == Len(groups) + 1
<1>1. Len(groups) \in Nat /\ alive \subseteq 1 .. Len(groups)
  BY Zenon, GroupFacts DEF Tree
<1>2. Up(p, d) \in Nat /\ (Up(p, d) = Root \/ Up(p, d) \in alive) /\ Up(p, d) < n
  BY Zenon, <1>1, Below DEF IsDir
<1>3. e \in Records /\ e.name = Name(p, d) /\ e.up = Up(p, d) /\ e.by = p
  BY Zenon, <1>2, NameFacts DEF Records
<1> HIDE DEF e
<1>4. groups' = Append(groups, e)
  BY DEF e
<1>5. /\ groups' \in Seq(Records) /\ Len(groups') = n /\ groups'[n] = e
      /\ \A g \in 1 .. Len(groups) : groups'[g] = groups[g]
  <2>1. groups \in Seq(Records)
    BY Zenon DEF Tree
  <2>2. QED
    BY <1>3, <1>4, <2>1, Appended
<1>6. /\ n \in Nat /\ n \notin 1 .. Len(groups) /\ n \notin alive /\ n # Root
      /\ 1 .. Len(groups') = 1 .. Len(groups) \cup {n}
  BY <1>1, <1>5 DEF Root
<1> HIDE DEF n
<1>7. /\ groups'[n].name = Name(p, d) /\ groups'[n].up = Up(p, d) /\ groups'[n].by = p
      /\ alive' = alive \cup {n} /\ alive' \subseteq 1 .. Len(groups')
  BY Zenon, <1>1, <1>3, <1>5, <1>6
<1>8. ASSUME NEW g \in 1 .. Len(groups')
      PROVE  /\ groups'[g].up < g
             /\ groups'[g].up = Root <=> groups'[g].name = "ltp"
             /\ groups'[g].up # Root => groups'[groups'[g].up].name = "ltp"
             /\ groups'[g].name \in Tests => groups'[g].by = groups'[g].name
  <2>1. CASE g = n
    <3>1. Up(p, d) # Root => Up(p, d) # NoFd /\ Up(p, d) \in 1 .. Len(groups)
      BY Zenon, <1>1, <1>2, Numbers
    <3>2. Up(p, d) = Root <=> Name(p, d) = "ltp"
      BY Zenon, <1>2, <3>1, NameFacts, Numbers
    <3>3. Up(p, d) # Root => groups'[Up(p, d)].name = "ltp"
      <4>1. Up(p, d) # Root => groups'[Up(p, d)] = groups[Up(p, d)]
        BY Zenon, <1>5, <3>1
      <4>2. Up(p, d) # Root => groups[Up(p, d)].name = "ltp"
        BY Zenon, <3>1, NameFacts
      <4>3. QED
        BY Zenon, <4>1, <4>2
    <3>4. Name(p, d) \in Tests => p = Name(p, d)
      BY Zenon, NameFacts
    <3>5. QED
      BY Zenon, <1>2, <1>7, <2>1, <3>2, <3>3, <3>4
  <2>2. CASE g \in 1 .. Len(groups)
    <3>1. groups'[g] = groups[g]
      BY Zenon, <1>5, <2>2
    <3>2. /\ groups[g].up < g
          /\ groups[g].up = Root <=> groups[g].name = "ltp"
          /\ groups[g].up # Root => groups[groups[g].up].name = "ltp"
          /\ groups[g].name \in Tests => groups[g].by = groups[g].name
          /\ groups[g].up \in Nat
      BY Zenon, <2>2, GroupFacts DEF Tree
    <3>3. groups[g].up # Root => groups[g].up \in 1 .. Len(groups)
      BY <1>1, <2>2, <3>2 DEF Root
    <3>4. QED
      BY Zenon, <1>5, <3>1, <3>2, <3>3
  <2>3. QED
    BY Zenon, <1>6, <2>1, <2>2
<1>9. \A g \in alive : g \in 1 .. Len(groups) /\ groups'[g] = groups[g]
  BY Zenon, <1>1, <1>5
<1>10. ASSUME NEW g \in alive' PROVE groups'[g].up = Root \/ groups'[g].up \in alive'
  BY Zenon, <1>2, <1>7, <1>9 DEF Tree, IsDir
<1>11. ASSUME NEW g \in alive', NEW h \in alive', groups'[g].up = groups'[h].up,
              groups'[g].name = groups'[h].name
       PROVE  g = h
  <2>1. CASE g \in alive /\ h \in alive
    <3>1. groups'[g] = groups[g] /\ groups'[h] = groups[h]
      BY Zenon, <1>9, <2>1
    <3>2. groups[g].up = groups[h].up /\ groups[g].name = groups[h].name
      BY Zenon, <1>11, <3>1
    <3>3. QED
      BY Zenon, <2>1, <3>2 DEF Tree
  <2>2. \A x \in alive : ~(groups'[x].name = Name(p, d) /\ groups'[x].up = Up(p, d))
    BY Zenon, <1>9 DEF Lookup
  <2>3. QED
    BY Zenon, <1>7, <1>11, <2>1, <2>2
<1>12. Tree'
  BY Zenon, <1>5, <1>7, <1>8, <1>10, <1>11 DEF Tree, IsDir
<1>13. Rel(p)
  <2>1. \A g \in 1 .. Len(groups) : g \in 1 .. Len(groups') /\ groups'[g] = groups[g]
    BY Zenon, <1>5, <1>6
  <2>2. \A g \in alive : g \in alive'
    BY Zenon, <1>7
  <2>3. \A g \in alive' \ alive : g = n
    BY Zenon, <1>7
  <2>4. Name(p, d) \in {p, "drain", "ltp"}
    BY Zenon, NameFacts
  <2>5. QED
    BY Zenon, <1>6, <1>7, <2>1, <2>2, <2>3, <2>4 DEF Rel
<1>14. QED
  BY Zenon, <1>6, <1>7, <1>12, <1>13

\* unlinkat() removes groups without members and children.
LEMMA Removing ==
  ASSUME Tree, Fds, NEW p \in Tests, Descriptors(p), NEW d \in Dirs,
         groups' = groups, alive' = alive \ Removable(p, d)
  PROVE  /\ Tree' /\ Rel(p)
         /\ \A g \in alive \ alive' : groups[g].name = Name(p, d) /\ groups[g].up = Up(p, d)
<1>1. \A g \in Removable(p, d) : /\ groups[g].name = Name(p, d) /\ groups[g].up = Up(p, d)
                                 /\ Members(g) = {} /\ Children(g) = {}
  BY Zenon DEF Removable, Lookup
<1>2. ASSUME NEW g \in alive' PROVE groups[g].up = Root \/ groups[g].up \in alive'
  <2>1. g \in alive /\ IsDir(groups[g].up) /\ g \in Children(groups[g].up)
    BY Zenon DEF Tree, Children
  <2>2. groups[g].up \notin Removable(p, d)
    BY Zenon, <1>1, <2>1
  <2>3. QED
    BY Zenon, <2>1, <2>2 DEF IsDir
<1>3. Tree'
  BY Zenon, <1>2 DEF Tree, IsDir
<1>4. Rel(p)
  <2>1. \A g \in alive \ alive' : g \in Removable(p, d)
    BY Zenon
  <2>2. Name(p, d) \in {p, "drain", "ltp"}
    BY Zenon, NameFacts
  <2>3. QED
    BY Zenon, <1>1, <2>1, <2>2 DEF Rel
<1>5. QED
  BY Zenon, <1>1, <1>3, <1>4

\* A step that leaves the groups alone.
LEMMA Leaving ==
  ASSUME Tree, UNCHANGED tree, NEW p \in Tests
  PROVE  Tree' /\ Rel(p)
BY Zenon DEF Tree, Rel, tree, IsDir

\* The groups of a test are its own business.
LEMMA Kept ==
  ASSUME Tree, NEW p \in Tests, Rel(p), NEW q \in Tests, q # p
  PROVE  GroupsOf(q)' = GroupsOf(q) /\ \A g \in GroupsOf(q) : groups'[g] = groups[g]
<1>1. alive \subseteq 1 .. Len(groups) /\ q # "ltp" /\ q # "drain"
  BY Zenon, CGroupAssumption DEF Tree
<1>2. \A g \in alive : groups'[g] = groups[g] /\ (groups[g].name = q => g \in alive')
  BY Zenon, <1>1 DEF Rel
<1>3. \A g \in alive' : groups'[g].name = q => g \in alive
  BY Zenon, <1>1 DEF Rel
<1>4. \A g : g \in GroupsOf(q)' <=> g \in GroupsOf(q)
  BY Zenon, <1>2, <1>3 DEF GroupsOf
<1>5. QED
  BY Zenon, <1>2, <1>4 DEF GroupsOf

\* Processes that stay where they are stay in live groups.
LEMMA Staying ==
  ASSUME Tree, Tree', Membership, NEW p \in Tests, Rel(p), member' = member
  PROVE  Membership'
<1>1. alive \subseteq 1 .. Len(groups)
  BY Zenon DEF Tree
<1>2. /\ \A g \in 1 .. Len(groups) : g \in 1 .. Len(groups') /\ groups'[g] = groups[g]
      /\ \A g \in alive \ alive' : Members(g) = {}
      /\ \A g \in alive' \ alive : g \notin 1 .. Len(groups)
  BY Zenon DEF Rel
<1>3. member' \in [Tests -> {Root, Gone} \cup 1 .. Len(groups')]
  <2>1. {Root, Gone} \cup 1 .. Len(groups) \subseteq {Root, Gone} \cup 1 .. Len(groups')
    BY Zenon, <1>2
  <2>2. QED
    BY Zenon, <2>1 DEF Membership
<1>4. ASSUME NEW q \in Tests, member[q] \in alive
      PROVE  member[q] \in alive' /\ groups'[member[q]] = groups[member[q]]
  <2>1. q \in Members(member[q])
    BY Zenon DEF Members
  <2>2. QED
    BY Zenon, <1>1, <1>2, <1>4, <2>1
<1>5. \A q \in Tests : member[q] = Gone \/ member[q] = Root \/ member[q] \in alive
  BY Zenon DEF Membership, IsDir
<1>6. \A q \in Tests : member'[q] = Gone \/ member'[q] = Root \/ member'[q] \in alive'
  BY Zenon, <1>4, <1>5
<1>7. ASSUME NEW q \in Tests, member'[q] \in alive', groups'[member'[q]].name \in Tests
      PROVE  groups'[member'[q]].name = q
  <2>1. member[q] \in alive
    <3>1. Len(groups') \in Nat /\ alive' \subseteq 1 .. Len(groups')
      <4>1. groups' \in Seq(Records) /\ alive' \subseteq 1 .. Len(groups')
        BY Zenon DEF Tree
      <4>2. QED
        BY <4>1
    <3>2. Root \notin alive' /\ Gone \notin alive'
      BY Zenon, <3>1, Numbers
    <3>3. QED
      BY Zenon, <1>5, <1>7, <3>2
  <2>2. QED
    BY Zenon, <1>4, <1>7, <2>1 DEF Membership
<1>8. QED
  BY Zenon, <1>3, <1>6, <1>7 DEF Membership, IsDir

\* A process is moved, or exits.
LEMMA Moving ==
  ASSUME Tree, Membership, UNCHANGED tree, NEW q \in Tests, NEW g,
         member' = [member EXCEPT ![q] = g],
         \/ g = Gone \/ g = Root
         \/ g \in alive /\ (groups[g].name \in Tests => groups[g].name = q)
  PROVE  Membership' /\ member'[q] = g /\ \A r \in Tests \ {q} : member'[r] = member[r]
<1>1. groups' = groups /\ alive' = alive
  BY Zenon DEF tree
<1>2. /\ member \in [Tests -> {Root, Gone} \cup 1 .. Len(groups)]
      /\ g \in {Root, Gone} \cup 1 .. Len(groups)
  BY Zenon DEF Membership, Tree
<1>3. /\ member' \in [Tests -> {Root, Gone} \cup 1 .. Len(groups)] /\ member'[q] = g
      /\ \A r \in Tests \ {q} : member'[r] = member[r]
  BY Zenon, <1>2
<1>4. Len(groups) \in Nat /\ Root \notin alive /\ Gone \notin alive
  BY Zenon, GroupFacts, Numbers DEF Tree
<1>5. \A r \in Tests : /\ member'[r] = Gone \/ member'[r] = Root \/ member'[r] \in alive
                       /\ member'[r] \in alive /\ groups[member'[r]].name \in Tests =>
                            groups[member'[r]].name = r
  <2>1. ASSUME NEW r \in Tests \ {q}
        PROVE  /\ member'[r] = Gone \/ member'[r] = Root \/ member'[r] \in alive
               /\ member'[r] \in alive /\ groups[member'[r]].name \in Tests =>
                    groups[member'[r]].name = r
    BY Zenon, <1>3 DEF Membership, IsDir
  <2>2. QED
    BY Zenon, <1>3, <1>4, <2>1
<1>6. QED
  BY Zenon, <1>1, <1>3, <1>5 DEF Membership, IsDir

\* A step that changes neither groups nor members nor descriptors.
LEMMA Idle ==
  ASSUME Tree, Membership, Fds, UNCHANGED <<tree, member, fd>>, NEW p \in Tests
  PROVE  Tree' /\ Rel(p) /\ Membership' /\ Fds'
<1>1. Tree' /\ Rel(p)
  BY Zenon, Leaving
<1>2. Membership'
  BY Zenon, <1>1, Staying
<1>3. QED
  BY Zenon, <1>1, <1>2 DEF Fds, tree

\* Descriptors that are kept.
LEMMA FdsKept ==
  ASSUME Fds, NEW p \in Tests, Rel(p), fd' = fd
  PROVE  Fds'
<1>1. {NoFd} \cup 1 .. Len(groups) \subseteq {NoFd} \cup 1 .. Len(groups')
  BY Zenon DEF Rel
<1>2. \A q \in Tests : /\ fd[q] \in [Dirs -> {NoFd} \cup 1 .. Len(groups)]
                       /\ fd[q] \in [Dirs -> {NoFd} \cup 1 .. Len(groups')]
  BY Zenon, <1>1 DEF Fds
<1>3. QED
  BY Zenon, <1>2 DEF Fds

\* All of a test's.
LEMMA FdsSet ==
  ASSUME Fds, groups' = groups, NEW p \in Tests, NEW f \in [Dirs -> {NoFd} \cup 1 .. Len(groups)],
         fd' = [fd EXCEPT ![p] = f]
  PROVE  Fds'
BY Zenon DEF Fds

\* One of a test's.
LEMMA FdsOpened ==
  ASSUME Tree, Fds, UNCHANGED tree, NEW p \in Tests, NEW d \in Dirs, OpenDir(p, d)
  PROVE  Fds'
<1>1. groups' = groups /\ alive \subseteq 1 .. Len(groups)
  BY Zenon DEF Tree, tree
<1>2. CASE fd' = fd
  BY Zenon, <1>1, <1>2 DEF Fds
<1>3. CASE /\ Lookup(Up(p, d), Name(p, d)) # {}
           /\ fd' = [fd EXCEPT ![p][d] = CHOOSE g \in Lookup(Up(p, d), Name(p, d)) : TRUE]
  <2>1. PICK x \in Lookup(Up(p, d), Name(p, d)) :
               x = CHOOSE g \in Lookup(Up(p, d), Name(p, d)) : TRUE
    BY Zenon, <1>3
  <2>2. fd' = [fd EXCEPT ![p] = [fd[p] EXCEPT ![d] = x]]
    BY Zenon, <1>3, <2>1
  <2>3. x \in 1 .. Len(groups)
    BY Zenon, <1>1 DEF Lookup
  <2>4. [fd[p] EXCEPT ![d] = x] \in [Dirs -> {NoFd} \cup 1 .. Len(groups)]
    BY Zenon, <2>3 DEF Fds
  <2>5. QED
    BY Zenon, <1>1, <2>2, <2>4, FdsSet
<1>4. QED
  BY Zenon, <1>2, <1>3 DEF OpenDir
-----------------------------------------------------------------------------
(* What a test has and knows.                                               *)

\* A step of another test does not change it.
LEMMA Others ==
  ASSUME Types, Tree, Fds, NEW p \in Tests, Frame(p), Rel(p), NEW q \in Tests, q # p, Own(q)
  PROVE  Own(q)'
<1>1. /\ scene' = scene /\ Op(q)' = Op(q) /\ Dr(q)' = Dr(q) /\ phase'[q] = phase[q]
      /\ left'[q] = left[q] /\ named'[q] = named[q] /\ fd'[q] = fd[q] /\ made'[q] = made[q]
      /\ conf'[q] = conf[q] /\ (q \in broken' <=> q \in broken)
  BY Zenon DEF Frame
<1>2. /\ GroupsOf(q)' = GroupsOf(q) /\ \A g \in GroupsOf(q) : groups'[g] = groups[g]
      /\ \A g \in 1 .. Len(groups) : groups'[g] = groups[g]
  BY Zenon, Kept DEF Rel
<1>3. Descriptors(q)'
  <2>1. Descriptors(q)
    BY Zenon DEF Own
  <2>2. ASSUME NEW d \in Dirs, fd'[q][d] # NoFd
        PROVE  /\ d \in named'[q] /\ groups'[fd'[q][d]].name = Name(q, d)
               /\ groups'[fd'[q][d]].up = Up(q, d)'
    <3>1. fd[q][d] # NoFd /\ fd[q][d] \in 1 .. Len(groups)
      <4>1. fd[q][d] = NoFd \/ fd[q][d] \in 1 .. Len(groups)
        BY Zenon DEF Fds
      <4>2. QED
        BY Zenon, <1>1, <2>2, <4>1
    <3>2. Up(q, d)' = Up(q, d)
      BY Zenon, <1>1 DEF Up
    <3>3. QED
      BY Zenon, <1>1, <1>2, <2>1, <3>1, <3>2 DEF Descriptors
  <2>3. fd'[q].ltp # NoFd => \A g \in GroupsOf(q)' : groups'[g].up = fd'[q].ltp
    BY Zenon, <1>1, <1>2, <2>1 DEF Descriptors
  <2>4. QED
    BY Zenon, <1>1, <2>1, <2>2, <2>3 DEF Descriptors, Name
<1>4. Control(q)'
  BY Zenon, <1>1 DEF Control, Own
<1>5. Owned(q)'
  <2>1. Owned(q)
    BY Zenon DEF Own
  <2>2. (Within(q)' <=> Within(q)) /\ (Past(q)' <=> Past(q))
    BY Zenon, <1>1 DEF Within, Past
  <2>3. scene.kind[q] = "lib" /\ Op(q) \in {"required", "run"} => fd'[q].test \in alive'
    <3>1. ASSUME fd[q].test \in alive PROVE fd[q].test \in alive'
      <4>1. fd[q].test # NoFd
        BY Zenon, <3>1, GroupFacts, Numbers DEF Tree
      <4>2. fd[q].test \in GroupsOf(q)
        BY Zenon, <3>1, <4>1, FdFacts DEF GroupsOf, Own
      <4>3. QED
        BY Zenon, <1>2, <4>2 DEF GroupsOf
    <3>2. QED
      BY Zenon, <1>1, <2>1, <3>1 DEF Owned
  <2>4. QED
    BY Zenon, <1>1, <1>2, <2>1, <2>2, <2>3 DEF Owned
<1>6. Maker(q)'
  <2>1. Maker(q)
    BY Zenon DEF Own
  <2>2. Made(q)' => Made(q)
    <3>1. ASSUME NEW g \in alive', groups'[g].name = "ltp", groups'[g].by = q
          PROVE  g \in alive /\ groups[g].name = "ltp" /\ groups[g].by = q
      <4>1. g \in alive
        BY Zenon, <3>1 DEF Rel
      <4>2. g \in 1 .. Len(groups)
        BY Zenon, <4>1 DEF Tree
      <4>3. groups'[g] = groups[g]
        BY Zenon, <1>2, <4>2
      <4>4. QED
        BY Zenon, <3>1, <4>1, <4>3
    <3>2. QED
      BY Zenon, <3>1 DEF Made, GroupsOf
  <2>3. Knows(q)' <=> Knows(q)
    BY Zenon, <1>1 DEF Knows, Before
  <2>4. QED
    BY Zenon, <1>1, <2>1, <2>2, <2>3 DEF Maker
<1>7. QED
  BY Zenon, <1>3, <1>4, <1>5, <1>6 DEF Own

\* Groups that are kept are the groups of a test as before.
LEMMA SameGroups ==
  ASSUME UNCHANGED tree
  PROVE  groups' = groups /\ alive' = alive /\ \A n : GroupsOf(n)' = GroupsOf(n)
BY Zenon DEF tree, GroupsOf

\* Where a test breaks.
LEMMA BrokeSelf ==
  ASSUME Types, NEW p \in Tests, Own(p), Op(p) # "done", scene' = scene, Broke(p), UNCHANGED tree,
         fd' = fd, named[p] \subseteq named'[p]
  PROVE  Own(p)'
<1>1. groups' = groups /\ alive' = alive /\ \A n : GroupsOf(n)' = GroupsOf(n)
  BY Zenon, SameGroups
<1>2. /\ p \in broken' /\ left' = left
      /\ scene.kind[p] = "lib" => Op(p)' = "c_read" /\ Dr(p)' = "test" /\ phase'[p] = "cleanup"
      /\ scene.kind[p] # "lib" => Op(p)' = "done" /\ Dr(p)' = "" /\ phase'[p] = phase[p]
  BY Zenon DEF Broke
<1>3. Descriptors(p)'
  <2>1. \A d : Up(p, d)' = Up(p, d)
    BY Zenon DEF Up
  <2>2. Op(p)' \in {"c_read", "done"}
    BY Zenon, <1>2
  <2>3. QED
    BY Zenon, <1>1, <2>1, <2>2 DEF Own, Descriptors, Name
<1>4. Control(p)'
  BY Zenon, <1>2 DEF Own, Control
<1>5. Owned(p)'
  BY Zenon, <1>1, <1>2 DEF Own, Owned, Within, Past
<1>6. Maker(p)'
  BY Zenon, <1>2 DEF Own, Maker
<1>7. QED
  BY Zenon, <1>3, <1>4, <1>5, <1>6 DEF Own

\* A test that goes on with the same descriptors and groups.
LEMMA SameDescriptors ==
  ASSUME Types, NEW p \in Tests, Descriptors(p), UNCHANGED tree, fd' = fd, scene' = scene,
         named[p] \subseteq named'[p],
         Op(p)' = "open" => Dr(p)' \in named'[p],
         Op(p)' \in {"mk", "open"} /\ Dr(p)' = "ltp" => fd[p].ltp = NoFd,
         Op(p)' = "run" => scene.kind[p] = "lib"
  PROVE  Descriptors(p)'
<1>1. groups' = groups /\ alive' = alive /\ GroupsOf(p)' = GroupsOf(p)
  BY Zenon, SameGroups
<1>2. \A d : Up(p, d)' = Up(p, d)
  BY Zenon DEF Up
<1>3. QED
  BY Zenon, <1>1, <1>2 DEF Descriptors, Name

\* The next controller is required.
LEMMA RequireSelf ==
  ASSUME Types, NEW p \in Tests, Own(p), scene' = scene, RequireDoes(p)
  PROVE  Own(p)'
<1>1. /\ Op(p) = "require" /\ phase[p] = "require" /\ UNCHANGED tree /\ fd' = fd
      /\ named' = named /\ made' = made /\ scene.kind[p] # "absent"
  BY Zenon DEF RequireDoes, Own, Control, lib
<1>2. CASE Broke(p)
  BY Zenon, <1>1, <1>2, BrokeSelf
<1>3. CASE \/ fd[p].ltp = NoFd /\ Went(p, "mk", "ltp")
           \/ fd[p].ltp # NoFd /\ Went(p, "enable", "ltp")
  <2>1. /\ Op(p)' \in {"mk", "enable"} /\ Dr(p)' = "ltp" /\ phase' = phase /\ left' = left
        /\ broken' = broken /\ (Op(p)' = "mk" => fd[p].ltp = NoFd)
    BY Zenon, <1>3 DEF Went
  <2>2. Descriptors(p)'
    BY Zenon, <1>1, <2>1, SameDescriptors DEF Own
  <2>3. Control(p)'
    BY Zenon, <1>1, <2>1 DEF Own, Control
  <2>4. Owned(p)'
    BY Zenon, <1>1, <2>1, SameGroups DEF Own, Owned, Within, Past
  <2>5. Maker(p)'
    <3>1. Made(p)' => Made(p)
      BY Zenon, <1>1, SameGroups DEF Made
    <3>2. Knows(p) => Knows(p)'
      BY Zenon, <1>1, <2>1 DEF Knows
    <3>3. QED
      BY Zenon, <1>1, <2>1, <3>1, <3>2 DEF Own, Maker
  <2>6. QED
    BY Zenon, <2>2, <2>3, <2>4, <2>5 DEF Own
<1>4. QED
  BY Zenon, <1>2, <1>3 DEF RequireDoes

\* It is enabled.
LEMMA EnableSelf ==
  ASSUME Types, NEW p \in Tests, Own(p), scene' = scene, EnableDoes(p)
  PROVE  Own(p)'
<1>1. /\ Op(p) = "enable" /\ phase[p] = "require" /\ UNCHANGED tree /\ fd' = fd
      /\ named' = named /\ made' = made /\ scene.kind[p] # "absent"
  BY Zenon DEF EnableDoes, Own, Control, lib
<1>2. CASE Broke(p)
  BY Zenon, <1>1, <1>2, BrokeSelf
<1>3. CASE Went(p, "mk", "drain")
  <2>1. /\ Op(p)' = "mk" /\ Dr(p)' = "drain" /\ phase' = phase /\ left' = left
        /\ broken' = broken
    BY Zenon, <1>3 DEF Went
  <2>2. Descriptors(p)'
    BY Zenon, <1>1, <2>1, SameDescriptors DEF Own
  <2>3. Control(p)'
    BY Zenon, <1>1, <2>1 DEF Own, Control
  <2>4. Owned(p)'
    BY Zenon, <1>1, <2>1, SameGroups DEF Own, Owned, Within, Past
  <2>5. Maker(p)'
    <3>1. Made(p)' => Made(p)
      BY Zenon, <1>1, SameGroups DEF Made
    <3>2. Knows(p) => Knows(p)'
      BY Zenon, <1>1, <2>1 DEF Knows
    <3>3. QED
      BY Zenon, <1>1, <2>1, <3>1, <3>2 DEF Own, Maker
  <2>6. QED
    BY Zenon, <2>2, <2>3, <2>4, <2>5 DEF Own
<1>4. QED
  BY Zenon, <1>2, <1>3 DEF EnableDoes

\* Nothing is open any more.
LEMMA ClearedDescriptors ==
  ASSUME NEW p \in Tests, Cleared(p), Op(p)' # "open"
  PROVE  Descriptors(p)'
<1>1. fd'[p].ltp = NoFd
  <2>1. fd'[p]["ltp"] = NoFd
    BY Zenon DEF Cleared, Dirs
  <2>2. QED
    BY <2>1
<1>2. QED
  BY Zenon, <1>1 DEF Descriptors, Cleared

\* It is required.
LEMMA RequiredSelf ==
  ASSUME Types, Tree, Fds, NEW p \in Tests, Own(p), scene' = scene, RequiredDoes(p)
  PROVE  Own(p)'
<1>1. /\ Op(p) = "required" /\ phase[p] = "require" /\ UNCHANGED tree /\ broken' = broken
      /\ scene.kind[p] # "absent" /\ left'[p] = left[p] - 1
  BY Zenon DEF RequiredDoes, Own, Control
<1>2. \/ Op(p)' = "require" /\ Dr(p)' = "ltp" /\ phase'[p] = "require" /\ left'[p] > 0
      \/ Op(p)' = "run" /\ Dr(p)' = "" /\ phase'[p] = "run"
  BY Zenon, <1>1 DEF RequiredDoes
<1>3. Control(p)'
  BY Zenon, <1>1, <1>2 DEF Control, Own
<1>4. /\ scene.kind[p] = "script" /\ scene.ctrls[p] = 1 => phase'[p] # "require"
  <2>1. scene.kind[p] = "script" /\ scene.ctrls[p] = 1 => left[p] = 1
    BY Zenon, <1>1 DEF Own, Maker
  <2>2. left[p] = 1 => ~(left'[p] > 0)
    BY <1>1
  <2>3. QED
    BY Zenon, <1>2, <2>1, <2>2
<1>5. Made(p)' => Made(p)
  BY Zenon, <1>1, SameGroups DEF Made
<1>6. CASE scene.kind[p] = "lib" /\ UNCHANGED lib
  <2>1. fd' = fd /\ named' = named /\ made' = made
    BY Zenon, <1>6 DEF lib
  <2>2. Descriptors(p)'
    BY Zenon, <1>1, <1>2, <1>6, <2>1, SameDescriptors DEF Own
  <2>3. Owned(p)'
    BY Zenon, <1>1, <1>2, <1>6, <2>1, SameGroups DEF Own, Owned, Within, Past
  <2>4. fd[p].ltp # NoFd
    <3>1. fd[p].test \in alive
      BY Zenon, <1>1, <1>6 DEF Own, Owned
    <3>2. fd[p].test \in 1 .. Len(groups) /\ fd[p].test # NoFd
      BY Zenon, <3>1, GroupFacts, Numbers DEF Tree
    <3>3. groups[fd[p].test].up = fd[p].ltp
      BY Zenon, <3>2, FdFacts DEF Own
    <3>4. QED
      BY Zenon, <3>2, <3>3, GroupFacts, Numbers
  <2>5. Maker(p)'
    <3>1. Knows(p) => Knows(p)'
      BY Zenon, <1>6, <2>1 DEF Knows
    <3>2. QED
      BY Zenon, <1>1, <1>2, <1>5, <1>6, <2>1, <2>4, <3>1 DEF Own, Maker
  <2>6. QED
    BY Zenon, <1>3, <2>2, <2>3, <2>5 DEF Own
<1>7. CASE scene.kind[p] # "lib" /\ Cleared(p) /\ (conf'[p] = "made" <=> made[p])
  <2>1. Descriptors(p)'
    BY Zenon, <1>2, <1>7, ClearedDescriptors
  <2>2. Owned(p)'
    BY Zenon, <1>1, <1>2, <1>7, SameGroups DEF Own, Owned, Within, Past
  <2>3. scene.kind[p] = "script"
    BY ZenonT(60), <1>1, <1>7, CGroupAssumption DEF Types
  <2>4. Knows(p) /\ phase'[p] = "run" => Knows(p)'
    BY Zenon, <1>1, <1>7 DEF Knows
  <2>5. Maker(p)'
    BY Zenon, <1>1, <1>2, <1>4, <1>5, <2>3, <2>4 DEF Own, Maker
  <2>6. QED
    BY Zenon, <1>3, <2>1, <2>2, <2>5 DEF Own
<1>8. QED
  BY Zenon, <1>6, <1>7 DEF RequiredDoes

\* The test ends.
LEMMA EndSelf ==
  ASSUME Types, NEW p \in Tests, Own(p), scene' = scene, EndDoes(p)
  PROVE  Own(p)'
<1>1. /\ Op(p) = "run" /\ phase[p] = "run" /\ UNCHANGED tree /\ fd' = fd /\ left' = left
      /\ named' = named /\ made' = made /\ scene.kind[p] # "absent" /\ conf' = conf
      /\ p \in broken => p \in broken'
  BY Zenon DEF EndDoes, Own, Control, lib
<1>2. scene.kind[p] = "lib" \/ scene.kind[p] = "script"
  BY Zenon, <1>1, CGroupAssumption DEF Types
<1>3. \/ /\ scene.kind[p] = "lib"
         /\ Op(p)' = "c_read" /\ Dr(p)' = "test" /\ phase'[p] = "cleanup"
      \/ /\ scene.kind[p] # "lib"
         /\ Op(p)' = "mk" /\ Dr(p)' = "ltp" /\ phase'[p] = "load"
  BY Zenon DEF EndDoes
<1>4. Descriptors(p)'
  <2>1. scene.kind[p] # "lib" => fd[p].ltp = NoFd
    BY Zenon, <1>1 DEF Own, Descriptors
  <2>2. QED
    BY Zenon, <1>1, <1>3, <2>1, SameDescriptors DEF Own
<1>5. Control(p)'
  BY Zenon, <1>1, <1>2, <1>3 DEF Own, Control
<1>6. Owned(p)'
  BY Zenon, <1>1, <1>3, SameGroups DEF Own, Owned, Within, Past
<1>7. Maker(p)'
  <2>1. Made(p)' => Made(p)
    BY Zenon, <1>1, SameGroups DEF Made
  <2>2. Knows(p) => Knows(p)'
    BY Zenon, <1>1, <1>3 DEF Knows, Before
  <2>3. QED
    BY Zenon, <1>1, <1>3, <2>1, <2>2 DEF Own, Maker
<1>8. QED
  BY Zenon, <1>4, <1>5, <1>6, <1>7 DEF Own

\* A process enters a group, or exits.
LEMMA ExitSelf ==
  ASSUME Types, NEW p \in Tests, Own(p), scene' = scene, Same(p)
  PROVE  Own(p)'
<1>1. /\ UNCHANGED tree /\ fd' = fd /\ left' = left /\ named' = named /\ made' = made
      /\ conf' = conf /\ broken' = broken /\ phase' = phase
      /\ Op(p)' = Op(p) /\ Dr(p)' = Dr(p)
  BY Zenon DEF Same, lib
<1>2. Descriptors(p)'
  <2>1. groups' = groups /\ GroupsOf(p)' = GroupsOf(p) /\ \A d : Up(p, d)' = Up(p, d)
    BY Zenon, <1>1, SameGroups DEF Up
  <2>2. QED
    BY Zenon, <1>1, <2>1 DEF Own, Descriptors, Name
<1>3. Control(p)'
  BY Zenon, <1>1 DEF Own, Control
<1>4. Owned(p)'
  BY Zenon, <1>1, SameGroups DEF Own, Owned, Within, Past
<1>5. Maker(p)'
  <2>1. Made(p)' => Made(p)
    BY Zenon, <1>1, SameGroups DEF Made
  <2>2. Knows(p) => Knows(p)'
    BY Zenon, <1>1 DEF Knows, Before
  <2>3. QED
    BY Zenon, <1>1, <2>1, <2>2 DEF Own, Maker
<1>6. QED
  BY Zenon, <1>2, <1>3, <1>4, <1>5 DEF Own

\* The clean-up is over.
LEMMA ClearSelf ==
  ASSUME Types, NEW p \in Tests, Own(p), scene' = scene, ClearDoes(p)
  PROVE  Own(p)'
<1>1. /\ Op(p) = "clear" /\ UNCHANGED tree /\ left' = left /\ broken' = broken
      /\ phase' = phase /\ Op(p)' = "done" /\ Dr(p)' = "" /\ Cleared(p)
  BY Zenon DEF ClearDoes
<1>2. Descriptors(p)'
  BY Zenon, <1>1, ClearedDescriptors
<1>3. Control(p)'
  BY Zenon, <1>1 DEF Own, Control
<1>4. Owned(p)'
  BY Zenon, <1>1, SameGroups DEF Own, Owned, Within, Past
<1>5. Maker(p)'
  <2>1. Made(p)' => Made(p)
    BY Zenon, <1>1, SameGroups DEF Made
  <2>2. QED
    BY Zenon, <1>1, <2>1 DEF Own, Maker
<1>6. QED
  BY Zenon, <1>2, <1>3, <1>4, <1>5 DEF Own

\* A test that has a group has an ltp group above it.
LEMMA LtpThere ==
  ASSUME Tree, NEW p \in Tests, GroupsOf(p) # {}
  PROVE  Lookup(Root, "ltp") # {}
<1>1. PICK g \in alive : groups[g].name = p
  BY Zenon DEF GroupsOf
<1>2. p # "ltp" /\ g \in 1 .. Len(groups)
  BY Zenon, CGroupAssumption DEF Tree
<1>3. groups[g].up \in alive /\ groups[groups[g].up].name = "ltp"
  BY Zenon, <1>1, <1>2 DEF Tree, IsDir
<1>4. groups[groups[g].up].up = Root
  BY Zenon, <1>3 DEF Tree
<1>5. QED
  BY Zenon, <1>3, <1>4 DEF Lookup

\* A directory is made, or found.
LEMMA MkDirSelf ==
  ASSUME Types, Tree, Fds, NEW p \in Tests, NEW d \in Dirs, Own(p), scene' = scene,
         MkDirDoes(p, d)
  PROVE  Own(p)'
<1>1. /\ Op(p) = "mk" /\ Dr(p) = d /\ phase[p] \in {"require", "load"} /\ fd' = fd
      /\ scene.kind[p] # "absent" /\ named'[p] = named[p] \cup {d} /\ d # ""
  BY Zenon DEF MkDirDoes, Own, Control, Dirs
<1>2. Descriptors(p) /\ Owned(p) /\ Maker(p) /\ Control(p)
  BY Zenon DEF Own
<1>3. d = "ltp" => fd[p].ltp = NoFd
  BY Zenon, <1>1, <1>2 DEF Descriptors
<1>4. ASSUME Went(p, "open", d)
      PROVE  /\ Op(p)' = "open" /\ Dr(p)' = d /\ phase' = phase /\ left' = left
             /\ broken' = broken /\ conf' = conf /\ Control(p)'
  <2>1. /\ Op(p)' = "open" /\ Dr(p)' = d /\ phase' = phase /\ left' = left
        /\ broken' = broken /\ conf' = conf
    BY Zenon, <1>4 DEF Went
  <2>2. QED
    BY Zenon, <1>1, <1>2, <2>1 DEF Control
<1>5. CASE /\ IsDir(Up(p, d)) /\ Lookup(Up(p, d), Name(p, d)) = {}
           /\ groups' = Append(groups, [name |-> Name(p, d), up |-> Up(p, d), by |-> p])
           /\ alive' = alive \cup {Len(groups')}
           /\ made'[p] = (IF d = "ltp" THEN TRUE ELSE made[p]) /\ Went(p, "open", d)
  <2>1. Tree' /\ Rel(p)
    BY Zenon, <1>2, <1>5, Making
  <2>2. PICK n : /\ alive' = alive \cup {n} /\ n \in Nat
                 /\ n \notin alive /\ n \notin 1 .. Len(groups)
                 /\ groups'[n].name = Name(p, d) /\ groups'[n].up = Up(p, d)
                 /\ groups'[n].by = p
    BY Zenon, <1>2, <1>5, Making
  <2>3. /\ \A g \in 1 .. Len(groups) : groups'[g] = groups[g]
        /\ \A g \in alive : groups'[g] = groups[g]
    BY Zenon, <2>1 DEF Rel, Tree
  <2>4. \A e : Up(p, e)' = Up(p, e)
    BY Zenon, <1>1 DEF Up
  <2>5. Name(p, d) = p <=> d = "test"
    BY Zenon, CGroupAssumption DEF Name, Dirs
  <2>6. \A g \in GroupsOf(p)' : g \in GroupsOf(p) \/ (g = n /\ d = "test")
    BY Zenon, <2>2, <2>3, <2>5 DEF GroupsOf
  <2>7. \A g \in GroupsOf(p) : g \in GroupsOf(p)'
    BY Zenon, <2>2, <2>3 DEF GroupsOf
  <2>8. Descriptors(p)'
    <3>1. ASSUME NEW e \in Dirs, fd[p][e] # NoFd
          PROVE  /\ e \in named'[p] /\ groups'[fd[p][e]].name = Name(p, e)
                 /\ groups'[fd[p][e]].up = Up(p, e)'
      <4>1. fd[p][e] \in 1 .. Len(groups)
        BY Zenon, <3>1 DEF Fds
      <4>2. QED
        BY Zenon, <1>1, <1>2, <2>3, <2>4, <3>1, <4>1 DEF Descriptors
    <3>2. ASSUME fd[p].ltp # NoFd, NEW g \in GroupsOf(p)' PROVE groups'[g].up = fd[p].ltp
      <4>1. CASE g \in GroupsOf(p)
        BY Zenon, <1>2, <2>3, <3>2, <4>1 DEF Descriptors, GroupsOf
      <4>2. CASE g = n /\ d = "test"
        BY Zenon, <2>2, <4>2 DEF Up
      <4>3. QED
        BY Zenon, <2>6, <4>1, <4>2
    <3>3. QED
      BY Zenon, <1>1, <1>3, <1>4, <1>5, <3>1, <3>2 DEF Descriptors, Name
  <2>9. Owned(p)'
    <3>1. Within(p)' => Within(p)
      BY Zenon, <1>1, <1>4, <1>5 DEF Within
    <3>2. GroupsOf(p)' # {} => GroupsOf(p) # {} \/ d = "test"
      BY Zenon, <2>6
    <3>3. GroupsOf(p) # {} => GroupsOf(p)' # {}
      BY Zenon, <2>7
    <3>4. ~Past(p)'
      BY Zenon, <1>4, <1>5 DEF Past
    <3>5. QED
      BY Zenon, <1>1, <1>2, <1>4, <1>5, <3>1, <3>2, <3>3, <3>4 DEF Owned
  <2>10. d = "ltp" => phase[p] = "require"
    <3>1. phase[p] = "load" => GroupsOf(p) # {}
      BY Zenon, <1>1, <1>2 DEF Owned, Within
    <3>2. d = "ltp" => Lookup(Root, "ltp") = {}
      BY Zenon, <1>5 DEF Up, Name
    <3>3. QED
      BY Zenon, <1>1, <3>1, <3>2, LtpThere
  <2>11. Made(p)' => Made(p) \/ d = "ltp"
    <3>1. Name(p, d) = "ltp" => d = "ltp"
      BY Zenon, <1>2, NameFacts
    <3>2. QED
      BY Zenon, <2>2, <2>3, <3>1 DEF Made, GroupsOf
  <2>12. Maker(p)'
    <3>1. CASE d = "ltp"
      <4>1. Knows(p)'
        BY Zenon, <1>4, <1>5, <2>10, <3>1 DEF Knows
      <4>2. QED
        BY Zenon, <1>2, <1>4, <1>5, <4>1 DEF Maker
    <3>2. CASE d # "ltp"
      <4>1. Knows(p) => Knows(p)'
        BY Zenon, <1>1, <1>4, <1>5, <3>2 DEF Knows, Before
      <4>2. QED
        BY Zenon, <1>2, <1>4, <1>5, <2>11, <3>2, <4>1 DEF Maker
    <3>3. QED
      BY Zenon, <3>1, <3>2
  <2>13. QED
    BY Zenon, <1>4, <1>5, <2>8, <2>9, <2>12 DEF Own
<1>6. CASE /\ UNCHANGED tree
           /\ made'[p] = (IF d = "ltp" THEN FALSE ELSE made[p]) /\ Went(p, "open", d)
  <2>1. Descriptors(p)'
    BY Zenon, <1>1, <1>2, <1>3, <1>4, <1>6, SameDescriptors
  <2>2. Owned(p)'
    <3>1. (Within(p)' => Within(p)) /\ ~Past(p)'
      BY Zenon, <1>1, <1>4, <1>6 DEF Within, Past
    <3>2. QED
      BY Zenon, <1>1, <1>2, <1>4, <1>6, <3>1, SameGroups DEF Owned
  <2>3. Made(p)' => Made(p)
    BY Zenon, <1>6, SameGroups DEF Made
  <2>4. d = "ltp" /\ phase[p] = "load" /\ Knows(p) => Knows(p)'
    BY Zenon, <1>1, <1>2, <1>4, <1>6 DEF Knows, Before, Control
  <2>5. d # "ltp" /\ Knows(p) => Knows(p)'
    BY Zenon, <1>1, <1>4, <1>6 DEF Knows, Before
  <2>6. Maker(p)'
    BY Zenon, <1>1, <1>2, <1>4, <1>6, <2>3, <2>4, <2>5 DEF Maker
  <2>7. QED
    BY Zenon, <1>4, <1>6, <2>1, <2>2, <2>6 DEF Own
<1>7. CASE UNCHANGED tree /\ Broke(p)
  BY Zenon, <1>1, <1>7, BrokeSelf
<1>8. QED
  BY Zenon, <1>5, <1>6, <1>7 DEF MkDirDoes

\* A directory is opened.
LEMMA OpenDirSelf ==
  ASSUME Types, Tree, Fds, NEW p \in Tests, NEW d \in Dirs, Own(p), scene' = scene,
         OpenDirDoes(p, d)
  PROVE  Own(p)'
<1>1. /\ Op(p) = "open" /\ Dr(p) = d /\ phase[p] \in {"require", "load"} /\ named' = named
      /\ scene.kind[p] # "absent" /\ UNCHANGED tree
  BY Zenon DEF OpenDirDoes, Own, Control
<1>2. Descriptors(p) /\ Owned(p) /\ Maker(p) /\ Control(p)
  BY Zenon DEF Own
<1>3. groups' = groups /\ alive' = alive /\ \A n : GroupsOf(n)' = GroupsOf(n)
  BY Zenon, <1>1, SameGroups
<1>4. d \in named[p] /\ (d = "ltp" => fd[p].ltp = NoFd)
  BY Zenon, <1>1, <1>2 DEF Descriptors
<1>5. CASE Broke(p) /\ fd' = fd
  BY Zenon, <1>1, <1>5, BrokeSelf
<1>6. CASE /\ fd'[p][d] \in Lookup(Up(p, d), Name(p, d))
           /\ \A e \in Dirs \ {d} : fd'[p][e] = fd[p][e]
           /\ Went(p, After(p, d)[1], After(p, d)[2])
           /\ made'[p] = (made[p] \/ (phase[p] = "load" /\ d = "drain" /\ conf[p] = "made"))
  <2>1. /\ phase' = phase /\ left' = left /\ broken' = broken /\ conf' = conf
        /\ d = "ltp" /\ phase[p] = "load" => Op(p)' = "mk" /\ Dr(p)' = "drain"
        /\ d = "ltp" /\ phase[p] # "load" => Op(p)' = "enable" /\ Dr(p)' = "ltp"
        /\ d = "drain" => Op(p)' = "mk" /\ Dr(p)' = "test"
        /\ d = "test" /\ phase[p] = "load" => Op(p)' = "c_read" /\ Dr(p)' = "test"
        /\ d = "test" /\ phase[p] # "load" => Op(p)' = "required" /\ Dr(p)' = "ltp"
    <3>1. /\ phase' = phase /\ left' = left /\ broken' = broken /\ conf' = conf
          /\ Op(p)' = After(p, d)[1] /\ Dr(p)' = After(p, d)[2]
      BY Zenon, <1>6 DEF Went
    <3>2. /\ d = "ltp" /\ phase[p] = "load" => After(p, d)[1] = "mk" /\ After(p, d)[2] = "drain"
          /\ d = "ltp" /\ phase[p] # "load" => After(p, d)[1] = "enable" /\ After(p, d)[2] = "ltp"
          /\ d = "drain" => After(p, d)[1] = "mk" /\ After(p, d)[2] = "test"
          /\ d = "test" /\ phase[p] = "load" =>
               After(p, d)[1] = "c_read" /\ After(p, d)[2] = "test"
          /\ d = "test" /\ phase[p] # "load" =>
               After(p, d)[1] = "required" /\ After(p, d)[2] = "ltp"
      BY AfterFacts
    <3>3. QED
      BY Zenon, <3>1, <3>2
  <2>2. d \in {"ltp", "drain", "test"}
    BY Zenon DEF Dirs
  <2>3. /\ fd'[p].ltp = fd'[p]["ltp"] /\ fd[p].ltp = fd[p]["ltp"]
        /\ fd'[p].test = fd'[p]["test"]
    OBVIOUS
  <2>4. /\ fd'[p][d] \in alive /\ groups[fd'[p][d]].name = Name(p, d)
        /\ groups[fd'[p][d]].up = Up(p, d) /\ fd'[p][d] # NoFd
    <3>1. /\ fd'[p][d] \in alive /\ groups[fd'[p][d]].name = Name(p, d)
          /\ groups[fd'[p][d]].up = Up(p, d)
      BY Zenon, <1>6 DEF Lookup
    <3>2. QED
      BY Zenon, <3>1, GroupFacts, Numbers DEF Tree
  <2>5. d # "ltp" => fd'[p].ltp = fd[p].ltp
    BY Zenon, <1>6, <2>3 DEF Dirs
  <2>6. ASSUME NEW e \in Dirs, fd'[p][e] # NoFd
        PROVE  /\ e \in named[p] /\ groups[fd'[p][e]].name = Name(p, e)
               /\ groups[fd'[p][e]].up = Up(p, e)'
    <3>1. CASE e = d
      <4>1. Up(p, d)' = Up(p, d)
        BY Zenon, <2>5 DEF Up
      <4>2. QED
        BY Zenon, <1>4, <2>4, <3>1, <4>1
    <3>2. CASE e # d
      <4>1. fd'[p][e] = fd[p][e] /\ fd[p][e] # NoFd /\ fd[p][e] \in 1 .. Len(groups)
        BY Zenon, <1>6, <2>6, <3>2 DEF Fds
      <4>2. /\ e \in named[p] /\ groups[fd[p][e]].name = Name(p, e)
            /\ groups[fd[p][e]].up = Up(p, e)
        BY Zenon, <1>2, <4>1 DEF Descriptors
      <4>3. d # "ltp"
        <5>1. groups[fd[p][e]].up \in Nat
          BY Zenon, <4>1, GroupFacts
        <5>2. d = "ltp" => Up(p, e) = NoFd
          BY Zenon, <1>4, <3>2 DEF Up
        <5>3. QED
          BY Zenon, <4>2, <5>1, <5>2, Numbers
      <4>4. Up(p, e)' = Up(p, e)
        BY Zenon, <2>5, <4>3 DEF Up
      <4>5. QED
        BY Zenon, <4>1, <4>2, <4>4
    <3>3. QED
      BY Zenon, <3>1, <3>2
  <2>7. ASSUME fd'[p].ltp # NoFd, NEW g \in GroupsOf(p) PROVE groups[g].up = fd'[p].ltp
    <3>1. CASE d # "ltp"
      BY Zenon, <1>2, <2>5, <2>7, <3>1 DEF Descriptors
    <3>2. CASE d = "ltp"
      <4>1. g \in alive /\ groups[g].name = p /\ p # "ltp" /\ g \in 1 .. Len(groups)
        BY Zenon, CGroupAssumption DEF GroupsOf, Tree
      <4>2. groups[g].up \in alive /\ groups[groups[g].up].name = "ltp"
        BY Zenon, <4>1 DEF Tree, IsDir
      <4>3. groups[groups[g].up].up = Root
        BY Zenon, <4>2 DEF Tree
      <4>4. /\ fd'[p].ltp \in alive /\ groups[fd'[p].ltp].name = "ltp"
            /\ groups[fd'[p].ltp].up = Root
        BY Zenon, <2>3, <2>4, <3>2 DEF Name, Up
      <4>5. QED
        <5>1. \A x, y \in alive :
                groups[x].up = groups[y].up /\ groups[x].name = groups[y].name => x = y
          BY Zenon DEF Tree
        <5>2. PICK x \in alive : x = groups[g].up
          BY Zenon, <4>2
        <5>3. PICK y \in alive : y = fd'[p].ltp
          BY Zenon, <4>4
        <5>4. groups[x].up = groups[y].up /\ groups[x].name = groups[y].name
          BY Zenon, <4>2, <4>3, <4>4, <5>2, <5>3
        <5>5. QED
          BY Zenon, <5>1, <5>2, <5>3, <5>4
    <3>3. QED
      BY Zenon, <3>1, <3>2
  <2>8. Descriptors(p)'
    BY Zenon, <1>1, <1>3, <2>1, <2>2, <2>6, <2>7 DEF Descriptors, Name
  <2>9. Control(p)'
    BY Zenon, <1>1, <1>2, <2>1, <2>2 DEF Control
  <2>10. Owned(p)'
    <3>1. d = "test" => fd'[p].test \in alive /\ fd'[p].test \in GroupsOf(p)
      BY Zenon, <2>3, <2>4 DEF Name, GroupsOf
    <3>2. phase[p] = "load" => GroupsOf(p) # {}
      BY Zenon, <1>1, <1>2 DEF Owned, Within
    <3>3. Within(p)' => GroupsOf(p) # {}
      BY Zenon, <1>1, <2>1, <2>2, <3>1, <3>2 DEF Within
    <3>4. ~Past(p)'
      BY Zenon, <2>1, <2>2 DEF Past
    <3>5. Op(p)' \in {"required", "run"} => fd'[p].test \in alive
      BY Zenon, <2>1, <2>2, <3>1
    <3>6. phase[p] = "load" /\ Dr(p)' = "test" /\ Op(p)' # "mk" => "test" \in named[p]
      BY Zenon, <1>4, <2>1, <2>2
    <3>7. QED
      BY Zenon, <1>1, <1>2, <1>3, <2>1, <3>3, <3>4, <3>5, <3>6 DEF Owned
  <2>11. Maker(p)'
    <3>1. Made(p)' => Made(p)
      BY Zenon, <1>3 DEF Made
    <3>2. Knows(p) => Knows(p)'
      <4>1. CASE scene.kind[p] = "lib" \/ phase[p] = "require"
        BY Zenon, <1>6, <2>1, <4>1 DEF Knows
      <4>2. CASE scene.kind[p] # "lib" /\ phase[p] = "load"
        <5>1. Knows(p) <=> IF Before(p) THEN conf[p] = "made" ELSE made[p]
          BY Zenon, <4>2 DEF Knows
        <5>2. Knows(p)' <=> IF Before(p)' THEN conf[p] = "made" ELSE made'[p]
          BY Zenon, <2>1, <4>2 DEF Knows
        <5>3. /\ Before(p) <=> d # "test"
              /\ Before(p)' <=> d = "ltp"
          BY Zenon, <1>1, <2>1, <2>2, <4>2 DEF Before
        <5>4. QED
          BY Zenon, <1>6, <2>2, <4>2, <5>1, <5>2, <5>3
      <4>3. QED
        BY Zenon, <1>1, <4>1, <4>2
    <3>3. /\ Op(p)' \notin {"clear", "done", "require"}
          /\ Op(p)' = "mk" => Dr(p)' # "ltp"
      BY Zenon, <1>1, <2>1, <2>2
    <3>4. QED
      BY Zenon, <1>2, <2>1, <3>1, <3>2, <3>3 DEF Maker
  <2>12. QED
    BY Zenon, <2>8, <2>9, <2>10, <2>11 DEF Own
<1>7. QED
  BY Zenon, <1>5, <1>6 DEF OpenDirDoes

\* In the clean-up of a test that made ltp, it knows.
LEMMA MakerCleans ==
  ASSUME NEW p \in Tests, Control(p), Op(p) \in {"c_read", "c_move", "c_rm"}
  PROVE  Knows(p) <=> made[p]
<1>1. phase[p] \in {"load", "cleanup"} /\ (scene.kind[p] # "lib" => phase[p] = "load")
  BY Zenon DEF Control
<1>2. ~Before(p)
  BY Zenon DEF Before
<1>3. QED
  BY Zenon, <1>1, <1>2 DEF Knows

\* A clean-up that goes on with the same groups.
LEMMA CleanSelf ==
  ASSUME Types, NEW p \in Tests, Own(p), scene' = scene, UNCHANGED <<tree, lib>>,
         Op(p) \in {"c_read", "c_move", "c_rm"}, NEW op, NEW d, Went(p, op, d),
         op \in {"c_read", "c_move", "c_rm", "clear"},
         op \in {"c_read", "c_move"} => d # "ltp",
         d = "test" => Dr(p) = "test",
         Past(p)' /\ (scene.kind[p] = "lib" \/ p \notin broken) => GroupsOf(p) = {},
         op = "clear" => ~made[p]
  PROVE  Own(p)'
<1>1. /\ Op(p)' = op /\ Dr(p)' = d /\ phase' = phase /\ left' = left /\ broken' = broken
      /\ conf' = conf /\ fd' = fd /\ named' = named /\ made' = made
      /\ Descriptors(p) /\ Control(p) /\ Owned(p) /\ Maker(p)
  BY Zenon DEF Went, Own, lib
<1>2. phase[p] \in {"load", "cleanup"} /\ scene.kind[p] # "absent"
  BY Zenon, <1>1 DEF Control
<1>3. Descriptors(p)'
  BY Zenon, <1>1, SameDescriptors
<1>4. Control(p)'
  BY Zenon, <1>1, <1>2 DEF Control
<1>5. Owned(p)'
  <2>1. ~Within(p)'
    BY Zenon, <1>1 DEF Within
  <2>2. QED
    BY Zenon, <1>1, <2>1, SameGroups DEF Owned
<1>6. Maker(p)'
  <2>1. Made(p)' => Made(p)
    BY Zenon, SameGroups DEF Made
  <2>2. Knows(p) => made[p]
    BY Zenon, <1>1, MakerCleans
  <2>3. made[p] => Knows(p)'
    <3>1. scene.kind[p] # "lib" => phase'[p] = "load" /\ ~Before(p)'
      BY Zenon, <1>1, <1>2 DEF Control, Before
    <3>2. QED
      BY Zenon, <1>1, <3>1 DEF Knows
  <2>4. QED
    BY Zenon, <1>1, <1>2, <2>1, <2>2, <2>3 DEF Maker
<1>7. QED
  BY Zenon, <1>3, <1>4, <1>5, <1>6 DEF Own

\* The processes of a group are read.
LEMMA DrainReadSelf ==
  ASSUME Types, NEW p \in Tests, NEW d \in Dirs, Own(p), scene' = scene, DrainReadDoes(p, d)
  PROVE  Own(p)'
<1>1. /\ Op(p) = "c_read" /\ Dr(p) = d /\ UNCHANGED <<tree, lib>> /\ fd' = fd /\ named' = named
      /\ Control(p) /\ Owned(p)
  BY Zenon DEF DrainReadDoes, lib, Own
<1>2. CASE Broke(p)
  BY Zenon, <1>1, <1>2, BrokeSelf DEF lib
<1>3. CASE d = "test" /\ "test" \notin named[p] /\ Went(p, "c_read", "drain")
  <2>1. scene.kind[p] = "lib" => GroupsOf(p) = {}
    BY Zenon, <1>1, <1>3 DEF Owned
  <2>2. scene.kind[p] = "lib"
    BY Zenon, <1>1, <1>3 DEF Owned, Control
  <2>3. QED
    BY Zenon, <1>1, <1>3, <2>1, <2>2, CleanSelf
<1>4. CASE d = "drain" /\ ~made[p] /\ Went(p, "clear", "")
  <2>1. Past(p)
    BY Zenon, <1>1, <1>4 DEF Past
  <2>2. QED
    BY Zenon, <1>1, <1>4, <2>1, CleanSelf DEF Owned
<1>5. CASE d # "ltp" /\ Went(p, "c_move", d)
  <2>1. Past(p)' => Past(p)
    BY Zenon, <1>1, <1>5 DEF Past, Went
  <2>2. QED
    BY Zenon, <1>1, <1>5, <2>1, CleanSelf DEF Owned
<1>6. QED
  BY Zenon, <1>2, <1>3, <1>4, <1>5 DEF DrainReadDoes

\* They are moved.
LEMMA DrainMoveSelf ==
  ASSUME Types, NEW p \in Tests, NEW d \in Dirs, Own(p), scene' = scene, DrainMoveDoes(p, d)
  PROVE  Own(p)'
<1>1. /\ Op(p) = "c_move" /\ Dr(p) = d /\ UNCHANGED <<tree, lib>> /\ fd' = fd /\ named' = named
      /\ Control(p) /\ Owned(p)
  BY Zenon DEF DrainMoveDoes, lib, Own
<1>2. CASE Broke(p)
  BY Zenon, <1>1, <1>2, BrokeSelf DEF lib
<1>3. d # "ltp"
  BY Zenon, <1>1 DEF Control
<1>4. CASE Went(p, "c_rm", d) \/ Went(p, "c_move", d)
  <2>1. Past(p)' => Past(p)
    BY Zenon, <1>1, <1>3, <1>4 DEF Past, Went, Dirs
  <2>2. QED
    BY Zenon, <1>1, <1>3, <1>4, <2>1, CleanSelf DEF Owned
<1>5. QED
  BY Zenon, <1>2, <1>4 DEF DrainMoveDoes

\* A group is removed.
LEMMA RemoveSelf ==
  ASSUME Types, Tree, Fds, NEW p \in Tests, NEW d \in Dirs, Own(p), scene' = scene,
         RemoveDoes(p, d)
  PROVE  Own(p)'
<1>1. /\ Op(p) = "c_rm" /\ Dr(p) = d /\ groups' = groups /\ fd' = fd /\ named' = named
      /\ made' = made /\ UNCHANGED lib
      /\ Control(p) /\ Owned(p) /\ Descriptors(p) /\ Maker(p)
  BY Zenon DEF RemoveDoes, lib, Own
<1>2. CASE Broke(p) /\ UNCHANGED alive
  <2>1. UNCHANGED tree
    BY Zenon, <1>1, <1>2 DEF tree
  <2>2. QED
    BY Zenon, <1>1, <1>2, <2>1, BrokeSelf
<1>3. CASE /\ Removable(p, d) # {} /\ alive' = alive \ Removable(p, d)
           /\ d = "test" => Went(p, "c_read", "drain")
           /\ d = "drain" => Went(p, "c_rm", "ltp")
           /\ d = "ltp" => Went(p, "clear", "")
  <2>1. /\ phase' = phase /\ left' = left /\ broken' = broken /\ conf' = conf
        /\ d = "test" => Op(p)' = "c_read" /\ Dr(p)' = "drain"
        /\ d = "drain" => Op(p)' = "c_rm" /\ Dr(p)' = "ltp"
        /\ d = "ltp" => Op(p)' = "clear" /\ Dr(p)' = ""
        /\ d \in {"test", "drain", "ltp"}
    BY Zenon, <1>3 DEF Went, Dirs
  <2>2. phase[p] \in {"load", "cleanup"} /\ scene.kind[p] # "absent"
    BY Zenon, <1>1 DEF Control
  <2>3. PICK h \in alive : /\ groups[h].name = Name(p, d) /\ groups[h].up = Up(p, d)
                           /\ h \in Removable(p, d)
    BY Zenon, <1>3 DEF Removable, Lookup
  <2>4. \A g \in alive' : ~(groups[g].name = Name(p, d) /\ groups[g].up = Up(p, d))
    <3>1. \A g \in alive : groups[g].name = Name(p, d) /\ groups[g].up = Up(p, d) => g = h
      <4>1. \A x, y \in alive :
              groups[x].up = groups[y].up /\ groups[x].name = groups[y].name => x = y
        BY Zenon DEF Tree
      <4>2. QED
        BY Zenon, <2>3, <4>1
    <3>2. QED
      BY Zenon, <1>3, <2>3, <3>1
  <2>5. \A n : GroupsOf(n)' \subseteq GroupsOf(n)
    BY Zenon, <1>1, <1>3 DEF GroupsOf
  <2>6. Descriptors(p)'
    <3>1. \A e : Up(p, e)' = Up(p, e)
      BY Zenon, <1>1 DEF Up
    <3>2. Op(p)' \notin {"open", "mk", "run"}
      BY Zenon, <2>1
    <3>3. QED
      BY Zenon, <1>1, <2>5, <3>1, <3>2 DEF Descriptors, Name
  <2>7. Control(p)'
    BY Zenon, <1>1, <2>1, <2>2 DEF Control
  <2>8. d = "test" => GroupsOf(p)' = {}
    <3>1. ASSUME d = "test", NEW g \in GroupsOf(p)' PROVE FALSE
      <4>1. g \in GroupsOf(p) /\ g \in alive' /\ groups[g].name = Name(p, d)
        BY Zenon, <1>1, <2>5, <3>1 DEF GroupsOf, Name
      <4>2. fd[p].ltp # NoFd /\ Up(p, d) = fd[p].ltp
        <5>1. Up(p, d) = fd[p].ltp
          BY Zenon, <3>1 DEF Up
        <5>2. groups[h].up \in Nat
          BY Zenon, GroupFacts DEF Tree
        <5>3. QED
          BY Zenon, <2>3, <5>1, <5>2, Numbers
      <4>3. groups[g].up = Up(p, d)
        BY Zenon, <1>1, <4>1, <4>2 DEF Descriptors
      <4>4. QED
        BY Zenon, <2>4, <4>1, <4>3
    <3>2. QED
      BY Zenon, <3>1
  <2>9. Owned(p)'
    <3>1. ~Within(p)' /\ (d # "test" => Past(p))
      BY Zenon, <1>1, <2>1 DEF Within, Past
    <3>2. GroupsOf(p)' # {} => GroupsOf(p) # {}
      BY Zenon, <2>5
    <3>3. Op(p)' \notin {"required", "run"} /\ Dr(p)' # "test"
      BY Zenon, <2>1
    <3>4. QED
      BY Zenon, <1>1, <2>1, <2>8, <3>1, <3>2, <3>3 DEF Owned
  <2>10. Maker(p)'
    <3>1. Made(p)' => Made(p)
      BY Zenon, <1>1, <2>5 DEF Made
    <3>2. Knows(p) => made[p]
      BY Zenon, <1>1, MakerCleans
    <3>3. made[p] => Knows(p)'
      <4>1. scene.kind[p] # "lib" => phase'[p] = "load" /\ ~Before(p)'
        BY Zenon, <1>1, <2>1, <2>2 DEF Control, Before
      <4>2. QED
        BY Zenon, <1>1, <4>1 DEF Knows
    <3>4. d = "ltp" => ~Made(p)'
      <4>1. ASSUME d = "ltp", NEW g \in GroupsOf("ltp")' PROVE FALSE
        <5>1. g \in alive' /\ groups[g].name = "ltp" /\ g \in 1 .. Len(groups)
          BY Zenon, <1>1, <1>3, <4>1 DEF GroupsOf, Tree
        <5>2. groups[g].up = Root
          BY Zenon, <5>1 DEF Tree
        <5>3. QED
          BY Zenon, <2>4, <4>1, <5>1, <5>2 DEF Up, Name
      <4>2. QED
        BY Zenon, <4>1 DEF Made
    <3>5. /\ d # "ltp" => Op(p)' \notin {"clear", "done"}
          /\ Op(p)' \notin {"mk", "require"}
      BY Zenon, <2>1
    <3>6. QED
      BY Zenon, <1>1, <2>1, <2>2, <3>1, <3>2, <3>3, <3>4, <3>5 DEF Maker
  <2>11. QED
    BY Zenon, <2>6, <2>7, <2>9, <2>10 DEF Own
<1>4. QED
  BY Zenon, <1>2, <1>3 DEF RemoveDoes
-----------------------------------------------------------------------------
(* The invariant, step by step.                                             *)

\* What a step of a test leaves as it is for all tests.
LEMMA Assembling ==
  ASSUME Core, NEW p \in Tests, Types', Frame(p), Tree', Rel(p), Membership', Fds', Own(p)'
  PROVE  Core'
<1>1. \A q \in Tests : Own(q)'
  BY Zenon, Others DEF Core
<1>2. QED
  BY Zenon, <1>1 DEF Core

\* What has to be shown for an ltp that was made in advance.
LEMMA PremadeStep ==
  ASSUME Core, Premade, NEW p \in Tests, Frame(p), Rel(p),
         scene.premade => /\ \A g \in alive' \ alive : groups'[g].name # "ltp"
                          /\ \A g \in alive \ alive' : groups[g].name # "ltp"
                          /\ NoMaker(p)'
  PROVE  Premade'
<1>1. scene' = scene /\ alive \subseteq 1 .. Len(groups)
  BY Zenon DEF Frame, Core, Tree
<1>2. \A g \in alive : groups'[g] = groups[g]
  BY Zenon, <1>1 DEF Rel
<1>3. \A g \in alive' \ alive : groups'[g].by = p
  BY Zenon DEF Rel
<1>4. ~scene.premade => \A g \in alive' : groups'[g].by \in Tests
  BY Zenon, <1>2, <1>3 DEF Premade
<1>5. scene.premade => GroupsOf("ltp")' = GroupsOf("ltp")
  <2>1. ASSUME scene.premade, NEW g PROVE g \in GroupsOf("ltp")' <=> g \in GroupsOf("ltp")
    BY Zenon, <1>2, <2>1 DEF GroupsOf
  <2>2. QED
    BY Zenon, <2>1
<1>6. \A q \in Tests \ {p} : scene.premade => NoMaker(q)'
  BY ZenonT(60) DEF Premade, Frame, NoMaker
<1>7. \A q \in Tests : scene.premade => NoMaker(q)'
  BY Zenon, <1>6
<1>8. scene.premade => \A g \in GroupsOf("ltp") : groups'[g].by = "admin"
  BY Zenon, <1>2 DEF Premade, GroupsOf
<1>9. scene.premade => GroupsOf("ltp") # {}
  BY Zenon DEF Premade
<1>10. QED
  BY Zenon, <1>1, <1>4, <1>5, <1>7, <1>8, <1>9 DEF Premade

\* A step that changes no groups, with an ltp made in advance.
LEMMA PremadeKept ==
  ASSUME Core, Premade, NEW p \in Tests, Frame(p), UNCHANGED tree, scene.premade => NoMaker(p)'
  PROVE  Premade'
<1>1. alive' = alive /\ Rel(p)
  BY Zenon, Leaving DEF tree, Core
<1>2. QED
  BY Zenon, <1>1, PremadeStep

\* If nothing fails, what a step of another test leaves in order.
LEMMA SmoothOthers ==
  ASSUME Core, Premade, Calm, Membership', NEW p \in Tests, Frame(p), Rel(p),
         \A r \in Tests \ {p} : member'[r] = member[r],
         \A g \in alive \ alive' : groups[g].name = p,
         NEW q \in Tests, q # p, Smooth(q)
  PROVE  Smooth(q)'
<1>1. /\ scene' = scene /\ Op(q)' = Op(q) /\ Dr(q)' = Dr(q) /\ phase'[q] = phase[q]
      /\ fd'[q] = fd[q] /\ named'[q] = named[q] /\ todo'[q] = todo[q] /\ member'[q] = member[q]
  BY Zenon DEF Frame
<1>2. /\ Own(q) /\ Tree /\ Fds /\ p # "ltp" /\ p # "drain" /\ NoMaker(q)
  BY Zenon, CGroupAssumption DEF Core, Premade, Calm
<1>3. \A g \in alive : groups'[g] = groups[g] /\ (groups[g].name # p => g \in alive')
  <2>1. alive \subseteq 1 .. Len(groups)
    BY Zenon, <1>2 DEF Tree
  <2>2. QED
    BY Zenon, <2>1 DEF Rel
<1>4. ASSUME NEW d \in {"ltp", "drain"}, fd[q][d] \in alive PROVE fd[q][d] \in alive'
  <2>1. fd[q][d] # NoFd /\ d \in Dirs
    BY Zenon, <1>2, <1>4, GroupFacts, Numbers DEF Tree, Dirs
  <2>2. groups[fd[q][d]].name \in {"ltp", "drain"}
    BY Zenon, <1>2, <2>1 DEF Own, Descriptors, Name
  <2>3. QED
    BY Zenon, <1>2, <1>3, <1>4, <2>2
<1>5. ASSUME fd[q].test \in alive
      PROVE  /\ fd[q].test \in alive' /\ groups'[fd[q].test].name = q
             /\ \A r \in Tests : r \in Members(fd[q].test)' => r \in Members(fd[q].test)
  <2>1. fd[q].test # NoFd
    BY Zenon, <1>2, <1>5, GroupFacts, Numbers DEF Tree
  <2>2. groups[fd[q].test].name = q
    BY Zenon, <1>2, <2>1, FdFacts DEF Own
  <2>3. fd[q].test \in alive' /\ groups'[fd[q].test].name = q
    BY Zenon, <1>3, <1>5, <2>2
  <2>4. member'[p] # fd[q].test
    BY ZenonT(60), <2>3 DEF Membership
  <2>5. QED
    BY Zenon, <1>1, <2>3, <2>4 DEF Members
<1>6. ASSUME Op(q) = "open" PROVE Found(q, Dr(q))'
  <2>1. Dr(q) \in Dirs
    BY Zenon, <1>2, <1>6 DEF Own, Descriptors, Core, Types
  <2>2. PICK g \in alive : groups[g].name = Name(q, Dr(q)) /\ groups[g].up = Up(q, Dr(q))
    BY Zenon, <1>6 DEF Smooth, Found, GroupsOf
  <2>3. Name(q, Dr(q)) # p
    BY Zenon, <1>2, <2>1 DEF Name, Dirs
  <2>4. g \in alive' /\ groups'[g].name = Name(q, Dr(q)) /\ groups'[g].up = Up(q, Dr(q))
    BY Zenon, <1>3, <2>2, <2>3
  <2>5. Up(q, Dr(q))' = Up(q, Dr(q)) /\ Name(q, Dr(q))' = Name(q, Dr(q))
    BY Zenon, <1>1 DEF Up, Name
  <2>6. g \in GroupsOf(Name(q, Dr(q)))'
    BY Zenon, <1>1, <2>4 DEF GroupsOf, Name
  <2>7. QED
    BY Zenon, <1>1, <2>4, <2>5, <2>6 DEF Found
<1>7. Op(q) \in {"c_move", "c_rm"} => fd[q].test \in alive
  BY Zenon, <1>2 DEF Smooth, NoMaker
<1>8. /\ Op(q) = "c_move" => Members(fd[q].test)' \subseteq todo[q]
      /\ Op(q) = "c_rm" => Members(fd[q].test)' = {}
  BY Zenon, <1>5, <1>7 DEF Smooth, Members
<1>9. QED
  BY Zenon, <1>1, <1>4, <1>5, <1>6, <1>8 DEF Smooth

\* What has to be shown for tests that nothing happens to.
LEMMA CalmStep ==
  ASSUME Core, Premade, Calmness, Core', NEW p \in Tests, Frame(p), Rel(p),
         Calm => /\ \A r \in Tests \ {p} : member'[r] = member[r]
                 /\ \A g \in alive \ alive' : groups[g].name = p
                 /\ p \notin broken' /\ Smooth(p)'
  PROVE  Calmness'
<1>1. (Calm' <=> Calm) /\ Membership' /\ broken' \subseteq Tests
  BY Zenon DEF Calm, Frame, Core, Types
<1>2. ASSUME Calm PROVE broken' = {} /\ \A q \in Tests : Smooth(q)'
  <2>1. broken = {} /\ \A q \in Tests : Smooth(q)
    BY Zenon, <1>2 DEF Calmness
  <2>2. broken' = {}
    BY Zenon, <1>1, <1>2, <2>1 DEF Frame
  <2>3. \A q \in Tests \ {p} : Smooth(q)'
    BY Zenon, <1>1, <1>2, <2>1, SmoothOthers
  <2>4. QED
    BY Zenon, <1>2, <2>2, <2>3
<1>3. QED
  BY Zenon, <1>1, <1>2 DEF Calmness

\* The same for a step that changes no groups and moves no process.
LEMMA CalmKept ==
  ASSUME Core, Premade, Calmness, Core', NEW p \in Tests, Frame(p), UNCHANGED <<tree, member>>,
         Calm => p \notin broken' /\ Smooth(p)'
  PROVE  Calmness'
<1>1. alive' = alive /\ Rel(p) /\ member' = member
  BY Zenon, Leaving DEF tree, Core
<1>2. QED
  BY Zenon, <1>1, CalmStep

\* What Calm tests are like.
LEMMA CalmFacts ==
  ASSUME Inv, Calm, NEW p \in Tests
  PROVE  /\ broken = {} /\ Smooth(p) /\ NoMaker(p) /\ Own(p)
         /\ scene.faults = 0 /\ p \notin scene.linger
BY Zenon DEF Inv, Core, Calmness, Premade, Calm

\* The parts of the invariant.
LEMMA InvFacts ==
  ASSUME Inv, NEW p \in Tests
  PROVE  /\ Core /\ Premade /\ Calmness /\ Types /\ Tree /\ Membership /\ Fds
         /\ Own(p) /\ Descriptors(p) /\ Control(p) /\ Owned(p) /\ Maker(p)
         /\ scene.premade => NoMaker(p)
BY Zenon DEF Inv, Core, Own, Premade

\* The next controller is required.
LEMMA RequireInv ==
  ASSUME Inv, NEW p \in Tests, Require(p)
  PROVE  Inv'
<1>1. Types' /\ Frame(p) /\ RequireDoes(p)
  BY Zenon, InvFacts, RequireStep
<1>2. /\ UNCHANGED <<tree, member, fd>> /\ made' = made /\ scene' = scene /\ fd' = fd
      /\ UNCHANGED tree /\ UNCHANGED <<tree, member>> /\ alive' = alive /\ member' = member
  BY Zenon, <1>1 DEF RequireDoes, lib, Frame, tree
<1>3. Tree' /\ Rel(p) /\ Membership' /\ Fds'
  BY Zenon, <1>2, InvFacts, Idle
<1>4. Own(p)'
  BY Zenon, <1>1, <1>2, InvFacts, RequireSelf
<1>5. Core'
  BY Zenon, <1>1, <1>3, <1>4, InvFacts, Assembling
<1>6. scene.premade => NoMaker(p)'
  BY Zenon, <1>1, <1>2, InvFacts DEF RequireDoes, Went, Broke, NoMaker
<1>7. Premade'
  BY Zenon, <1>1, <1>2, <1>6, InvFacts, PremadeKept
<1>8. ASSUME Calm PROVE p \notin broken' /\ Smooth(p)'
  <2>1. /\ Op(p) = "require" /\ Op(p)' \in {"mk", "enable"} /\ Dr(p)' = "ltp" /\ phase' = phase
        /\ broken' = broken /\ (Op(p)' = "enable" => fd[p].ltp # NoFd)
    BY Zenon, <1>1, <1>8, CalmFacts DEF RequireDoes, Went
  <2>2. Smooth(p) /\ broken = {}
    BY Zenon, <1>8, CalmFacts
  <2>3. QED
    BY Zenon, <1>2, <2>1, <2>2 DEF Smooth
<1>9. Calmness'
  BY ZenonT(60), <1>1, <1>2, <1>5, <1>8, InvFacts, CalmKept
<1>10. QED
  BY Zenon, <1>5, <1>7, <1>9 DEF Inv

\* It is enabled.
LEMMA EnableInv ==
  ASSUME Inv, NEW p \in Tests, Enable(p)
  PROVE  Inv'
<1>1. Types' /\ Frame(p) /\ EnableDoes(p)
  BY Zenon, InvFacts, EnableStep
<1>2. /\ UNCHANGED <<tree, member, fd>> /\ made' = made /\ scene' = scene /\ fd' = fd
      /\ UNCHANGED tree /\ UNCHANGED <<tree, member>> /\ alive' = alive /\ member' = member
  BY ZenonT(60), <1>1 DEF EnableDoes, lib, Frame, tree
<1>3. Tree' /\ Rel(p) /\ Membership' /\ Fds'
  BY Zenon, <1>2, InvFacts, Idle
<1>4. Own(p)'
  BY Zenon, <1>1, <1>2, InvFacts, EnableSelf
<1>5. Core'
  BY Zenon, <1>1, <1>3, <1>4, InvFacts, Assembling
<1>6. scene.premade => NoMaker(p)'
  BY Zenon, <1>1, <1>2, InvFacts DEF EnableDoes, Went, Broke, NoMaker
<1>7. Premade'
  BY Zenon, <1>1, <1>2, <1>6, InvFacts, PremadeKept
<1>8. ASSUME Calm PROVE p \notin broken' /\ Smooth(p)'
  <2>1. Smooth(p) /\ broken = {} /\ scene.faults = 0
    BY Zenon, <1>8, CalmFacts
  <2>2. fd[p].ltp # NoFd /\ IsDir(fd[p].ltp)
    <3>1. fd[p].ltp # NoFd /\ fd[p].ltp = fd[p]["ltp"]
      BY <1>1, <2>1 DEF EnableDoes, Smooth
    <3>2. QED
      BY Zenon, <2>1, <3>1 DEF Smooth, IsDir
  <2>3. /\ Op(p) = "enable" /\ Op(p)' = "mk" /\ Dr(p)' = "drain" /\ phase' = phase
        /\ broken' = broken
    BY ZenonT(60), <1>1, <2>1, <2>2 DEF EnableDoes, Went
  <2>4. QED
    BY Zenon, <1>2, <2>1, <2>2, <2>3 DEF Smooth
<1>9. Calmness'
  BY Zenon, <1>1, <1>2, <1>5, <1>8, InvFacts, CalmKept
<1>10. QED
  BY Zenon, <1>5, <1>7, <1>9 DEF Inv

\* It is required.
LEMMA RequiredInv ==
  ASSUME Inv, NEW p \in Tests, Required(p)
  PROVE  Inv'
<1>1. Types' /\ Frame(p) /\ RequiredDoes(p)
  BY Zenon, InvFacts, RequiredStep
<1>2. /\ scene' = scene /\ UNCHANGED tree /\ UNCHANGED <<tree, member>> /\ alive' = alive
      /\ groups' = groups /\ member' = member
  BY Zenon, <1>1 DEF RequiredDoes, Frame, tree
<1>3. Tree' /\ Rel(p)
  BY Zenon, <1>2, InvFacts, Leaving
<1>4. Membership'
  BY Zenon, <1>2, <1>3, InvFacts, Staying
<1>5. Fds'
  <2>1. CASE fd' = fd
    BY Zenon, <1>3, <2>1, InvFacts, FdsKept
  <2>2. CASE fd' = [fd EXCEPT ![p] = [d \in Dirs |-> NoFd]]
    <3>1. [d \in Dirs |-> NoFd] \in [Dirs -> {NoFd} \cup 1 .. Len(groups)]
      BY Zenon
    <3>2. QED
      BY Zenon, <1>2, <2>2, <3>1, InvFacts, FdsSet
  <2>3. QED
    BY Zenon, <2>1, <2>2 DEF Required, lib
<1>6. Own(p)'
  BY Zenon, <1>1, <1>2, InvFacts, RequiredSelf
<1>7. Core'
  BY Zenon, <1>1, <1>3, <1>4, <1>5, <1>6, InvFacts, Assembling
<1>8. scene.premade => NoMaker(p)'
  <2>1. conf'[p] = "made" => conf[p] = "made" \/ made[p]
    <3>1. conf' = conf \/ conf' = [conf EXCEPT ![p] = Printed(p)]
      BY Zenon DEF Required
    <3>2. conf' = [conf EXCEPT ![p] = Printed(p)] => conf'[p] = Printed(p)
      BY Zenon, InvFacts DEF Types
    <3>3. Printed(p) = "made" => made[p]
      BY Zenon DEF Printed
    <3>4. QED
      BY Zenon, <3>1, <3>2, <3>3
  <2>2. made'[p] => made[p]
    BY Zenon, <1>1 DEF RequiredDoes, Cleared, lib
  <2>3. QED
    BY Zenon, <1>1, <2>1, <2>2, InvFacts DEF RequiredDoes, NoMaker
<1>9. Premade'
  BY Zenon, <1>1, <1>2, <1>8, InvFacts, PremadeKept
<1>10. ASSUME Calm PROVE p \notin broken' /\ Smooth(p)'
  <2>1. Smooth(p) /\ broken = {}
    BY Zenon, <1>10, CalmFacts
  <2>2. /\ Op(p) = "required" /\ Op(p)' \in {"require", "run"} /\ phase'[p] \in {"require", "run"}
        /\ broken' = broken
    BY Zenon, <1>1, InvFacts DEF RequiredDoes, Control
  <2>3. CASE scene.kind[p] = "lib" /\ UNCHANGED lib
    <3>1. fd' = fd
      BY Zenon, <2>3 DEF lib
    <3>2. QED
      BY Zenon, <1>2, <2>1, <2>2, <2>3, <3>1 DEF Smooth
  <2>4. CASE scene.kind[p] # "lib" /\ Cleared(p)
    <3>1. \A d \in {"ltp", "drain"} : fd'[p][d] = NoFd
      BY Zenon, <2>4 DEF Cleared, Dirs
    <3>2. scene.kind[p] = "script"
      BY ZenonT(60), <2>2, <2>4, CGroupAssumption, InvFacts DEF Types, Control
    <3>3. QED
      BY Zenon, <1>2, <2>1, <2>2, <2>4, <3>1, <3>2 DEF Smooth
  <2>5. QED
    BY Zenon, <1>1, <2>3, <2>4 DEF RequiredDoes
<1>11. Calmness'
  BY Zenon, <1>1, <1>2, <1>7, <1>10, InvFacts, CalmKept
<1>12. QED
  BY Zenon, <1>7, <1>9, <1>11 DEF Inv

\* The test ends.
LEMMA EndInv ==
  ASSUME Inv, NEW p \in Tests, End(p)
  PROVE  Inv'
<1>1. Types' /\ Frame(p) /\ EndDoes(p)
  BY Zenon, InvFacts, EndStep
<1>2. /\ scene' = scene /\ UNCHANGED tree /\ alive' = alive /\ groups' = groups
      /\ fd' = fd /\ made' = made /\ conf' = conf
  BY Zenon, <1>1 DEF EndDoes, Frame, tree, lib
<1>3. Tree' /\ Rel(p)
  BY Zenon, <1>2, InvFacts, Leaving
<1>4. Membership' /\ \A r \in Tests \ {p} : member'[r] = member[r]
  <2>1. CASE member' = member
    BY Zenon, <1>3, <2>1, InvFacts, Staying
  <2>2. CASE member' = [member EXCEPT ![p] = Gone]
    BY Zenon, <1>2, <2>2, InvFacts, Moving
  <2>3. QED
    BY Zenon, <1>1, <2>1, <2>2 DEF EndDoes
<1>5. Fds'
  BY Zenon, <1>2, <1>3, InvFacts, FdsKept
<1>6. Own(p)'
  BY Zenon, <1>1, <1>2, InvFacts, EndSelf
<1>7. Core'
  BY Zenon, <1>1, <1>3, <1>4, <1>5, <1>6, InvFacts, Assembling
<1>8. scene.premade => NoMaker(p)'
  BY Zenon, <1>1, <1>2, InvFacts DEF EndDoes, NoMaker
<1>9. Premade'
  BY Zenon, <1>1, <1>2, <1>8, InvFacts, PremadeKept
<1>10. ASSUME Calm PROVE p \notin broken' /\ Smooth(p)'
  <2>1. Smooth(p) /\ broken = {} /\ p \notin scene.linger /\ Op(p) = "run"
    BY Zenon, <1>1, <1>10, CalmFacts DEF EndDoes
  <2>2. scene.kind[p] = "lib" => /\ fd[p].test \in alive /\ fd[p].drain # NoFd
                                 /\ fd[p].drain \in alive
    <3>1. scene.kind[p] = "lib" => fd[p].test \in alive /\ fd[p].drain # NoFd
      BY Zenon, <2>1, InvFacts DEF Owned, Smooth
    <3>2. fd[p].drain = fd[p]["drain"]
      OBVIOUS
    <3>3. QED
      BY Zenon, <2>1, <3>1, <3>2 DEF Smooth
  <2>3. scene.kind[p] # "lib" => JoinTargets(p, "test") # {}
    <3>1. PICK g \in alive : groups[g].name = p
      BY Zenon, <2>1, InvFacts DEF Owned, Within, GroupsOf
    <3>2. groups[g].up \in alive
      <4>1. groups[g].up # Root /\ IsDir(groups[g].up)
        BY Zenon, <3>1, InvFacts, CGroupAssumption DEF Tree
      <4>2. QED
        BY Zenon, <4>1 DEF IsDir
    <3>3. QED
      BY Zenon, <3>1, <3>2 DEF JoinTargets
  <2>4. scene.kind[p] = "lib" => JoinTargets(p, "test") # {} /\ JoinTargets(p, "drain") # {}
    <3>1. fd[p].drain = fd[p]["drain"] /\ fd[p].test = fd[p]["test"]
      OBVIOUS
    <3>2. QED
      BY Zenon, <2>2, <3>1 DEF JoinTargets
  <2>5. broken' = broken
    BY Zenon, <1>1, <2>3, <2>4 DEF EndDoes
  <2>6. CASE scene.kind[p] = "lib"
    <3>1. Op(p)' = "c_read" /\ Dr(p)' = "test" /\ member' = [member EXCEPT ![p] = Gone]
      BY Zenon, <1>1, <2>1, <2>6 DEF EndDoes
    <3>2. member'[p] = Gone
      BY Zenon, <3>1, InvFacts DEF Membership
    <3>3. QED
      BY Zenon, <1>2, <2>1, <2>2, <2>5, <2>6, <3>1, <3>2 DEF Smooth
  <2>7. CASE scene.kind[p] # "lib"
    <3>1. Op(p)' = "mk" /\ Dr(p)' = "ltp" /\ member' = member /\ phase'[p] = "load"
      BY Zenon, <1>1, <2>7 DEF EndDoes
    <3>2. QED
      BY Zenon, <1>2, <2>1, <2>5, <2>7, <3>1 DEF Smooth
  <2>8. QED
    BY Zenon, <2>6, <2>7
<1>11. Calmness'
  BY Zenon, <1>1, <1>2, <1>3, <1>4, <1>7, <1>10, InvFacts, CalmStep
<1>12. QED
  BY Zenon, <1>7, <1>9, <1>11 DEF Inv

\* The group a process enters is its own, or the drain.
LEMMA JoinTarget ==
  ASSUME Inv, NEW p \in Tests, NEW d \in {"test", "drain"}, d = "drain" => scene.kind[p] = "lib",
         NEW g \in JoinTargets(p, d)
  PROVE  g \in alive /\ (groups[g].name \in Tests => groups[g].name = p)
<1>1. CASE scene.kind[p] = "lib"
  <2>1. g = fd[p][d] /\ g \in alive
    BY Zenon, <1>1 DEF JoinTargets
  <2>2. fd[p][d] # NoFd /\ d \in Dirs
    BY Zenon, <2>1, InvFacts, GroupFacts, Numbers DEF Tree, Dirs
  <2>3. groups[g].name = Name(p, d)
    BY Zenon, <2>1, <2>2, InvFacts DEF Descriptors
  <2>4. Name(p, d) = p \/ Name(p, d) \notin Tests
    BY Zenon, CGroupAssumption DEF Name
  <2>5. QED
    BY Zenon, <2>1, <2>3, <2>4
<1>2. CASE scene.kind[p] # "lib"
  BY Zenon, <1>2 DEF JoinTargets
<1>3. QED
  BY Zenon, <1>1, <1>2

\* A process enters a group, or exits.
LEMMA ExitInv ==
  ASSUME Inv, NEW p \in Tests, Exit(p) \/ Joins(p)
  PROVE  Inv'
<1>1. Types' /\ Frame(p) /\ Same(p)
  BY Zenon, InvFacts, ExitStep
<1>2. /\ scene' = scene /\ UNCHANGED tree /\ alive' = alive /\ groups' = groups
      /\ fd' = fd /\ made' = made /\ conf' = conf /\ broken' = broken /\ phase' = phase
      /\ Op(p)' = Op(p) /\ Dr(p)' = Dr(p) /\ todo' = todo
  BY Zenon, <1>1 DEF Same, Frame, tree, lib
<1>3. Tree' /\ Rel(p)
  BY Zenon, <1>2, InvFacts, Leaving
<1>4. PICK g : /\ member' = [member EXCEPT ![p] = g]
               /\ \/ g = Gone /\ (Op(p) = "done" \/ phase[p] = "cleanup")
                  \/ /\ g \in alive /\ (groups[g].name \in Tests => groups[g].name = p)
                     /\ Op(p) = "run"
  <2>1. CASE Exit(p)
    BY Zenon, <2>1, AtFacts DEF Exit
  <2>2. CASE Joins(p)
    <3>1. PICK d \in {"test", "drain"} : Join(p, d)
      BY Zenon, <2>2 DEF Joins
    <3>2. PICK g \in JoinTargets(p, d) : member' = [member EXCEPT ![p] = g]
      BY Zenon, <3>1 DEF Join
    <3>3. Op(p) = "run" /\ (d = "drain" => scene.kind[p] = "lib")
      BY Zenon, <3>1, AtFacts DEF Join
    <3>4. QED
      BY Zenon, <3>2, <3>3, JoinTarget
  <2>3. QED
    BY Zenon, <2>1, <2>2
<1>5. Membership' /\ member'[p] = g /\ \A r \in Tests \ {p} : member'[r] = member[r]
  BY Zenon, <1>2, <1>4, InvFacts, Moving
<1>6. Fds'
  BY Zenon, <1>2, <1>3, InvFacts, FdsKept
<1>7. Own(p)'
  BY Zenon, <1>1, <1>2, InvFacts, ExitSelf
<1>8. Core'
  BY ZenonT(60), <1>1, <1>3, <1>5, <1>6, <1>7, InvFacts, Assembling
<1>9. scene.premade => NoMaker(p)'
  BY Zenon, <1>2, InvFacts DEF NoMaker
<1>10. Premade'
  BY Zenon, <1>1, <1>2, <1>9, InvFacts, PremadeKept
<1>11. ASSUME Calm PROVE p \notin broken' /\ Smooth(p)'
  <2>1. Smooth(p) /\ broken = {} /\ NoMaker(p) /\ Control(p)
    BY Zenon, <1>11, CalmFacts DEF Own
  <2>2. Gone \notin alive /\ Root \notin alive
    BY Zenon, InvFacts, GroupFacts, Numbers DEF Tree
  <2>3. Op(p) = "open" => Found(p, Dr(p))'
    BY Zenon, <1>2, <1>4, <2>1 DEF Smooth, Found, GroupsOf, Up, Name
  <2>4. phase[p] = "cleanup" => member'[p] = Gone
    BY Zenon, <1>4, <1>5, <2>1 DEF Control
  <2>5. scene.kind[p] = "script" /\ Op(p) # "done" => member'[p] # Gone
    BY Zenon, <1>4, <1>5, <2>1, <2>2 DEF Control
  <2>6. /\ Op(p) = "c_move" => Members(fd[p].test)' \subseteq todo[p]
        /\ Op(p) = "c_rm" => Members(fd[p].test)' = {}
    <3>1. ASSUME Op(p) \in {"c_move", "c_rm"}
          PROVE  Members(fd[p].test)' \subseteq Members(fd[p].test)
      <4>1. fd[p].test \in alive /\ g = Gone
        BY Zenon, <1>4, <2>1, <3>1 DEF Smooth, NoMaker
      <4>2. QED
        BY Zenon, <1>2, <1>5, <2>2, <4>1 DEF Members
    <3>2. QED
      BY Zenon, <2>1, <3>1 DEF Smooth
  <2>7. QED
    BY Zenon, <1>2, <2>1, <2>3, <2>4, <2>5, <2>6 DEF Smooth
<1>12. Calmness'
  BY ZenonT(60), <1>1, <1>2, <1>3, <1>5, <1>8, <1>11, InvFacts, CalmStep
<1>13. QED
  BY Zenon, <1>8, <1>10, <1>12 DEF Inv

\* The clean-up is over.
LEMMA ClearInv ==
  ASSUME Inv, NEW p \in Tests, Clear(p)
  PROVE  Inv'
<1>1. Types' /\ Frame(p) /\ ClearDoes(p)
  BY Zenon, InvFacts, ClearStep
<1>2. /\ scene' = scene /\ UNCHANGED tree /\ UNCHANGED <<tree, member>> /\ alive' = alive
      /\ groups' = groups /\ member' = member /\ conf' = conf /\ broken' = broken
      /\ phase' = phase /\ Op(p)' = "done" /\ Cleared(p)
  BY Zenon, <1>1 DEF ClearDoes, Frame, tree
<1>3. Tree' /\ Rel(p)
  BY Zenon, <1>2, InvFacts, Leaving
<1>4. Membership'
  BY Zenon, <1>2, <1>3, InvFacts, Staying
<1>5. Fds'
  <2>1. fd' = [fd EXCEPT ![p] = [d \in Dirs |-> NoFd]]
    BY Zenon DEF Clear
  <2>2. [d \in Dirs |-> NoFd] \in [Dirs -> {NoFd} \cup 1 .. Len(groups)]
    BY Zenon
  <2>3. QED
    BY Zenon, <1>2, <2>1, <2>2, InvFacts, FdsSet
<1>6. Own(p)'
  BY ZenonT(60), <1>1, <1>2, InvFacts, ClearSelf
<1>7. Core'
  BY Zenon, <1>1, <1>3, <1>4, <1>5, <1>6, InvFacts, Assembling
<1>8. scene.premade => NoMaker(p)'
  BY Zenon, <1>2, InvFacts DEF NoMaker, Cleared
<1>9. Premade'
  BY Zenon, <1>1, <1>2, <1>8, InvFacts, PremadeKept
<1>10. ASSUME Calm PROVE p \notin broken' /\ Smooth(p)'
  <2>1. Smooth(p) /\ broken = {}
    BY Zenon, <1>10, CalmFacts
  <2>2. \A d \in {"ltp", "drain"} : fd'[p][d] = NoFd
    BY Zenon, <1>2 DEF Cleared, Dirs
  <2>3. QED
    BY Zenon, <1>2, <2>1, <2>2 DEF Smooth
<1>11. Calmness'
  BY Zenon, <1>1, <1>2, <1>7, <1>10, InvFacts, CalmKept
<1>12. QED
  BY Zenon, <1>7, <1>9, <1>11 DEF Inv

\* A directory is made, or found.
LEMMA MkDirInv ==
  ASSUME Inv, NEW p \in Tests, NEW d \in Dirs, MkDir(p, d)
  PROVE  Inv'
<1>1. Types' /\ Frame(p) /\ MkDirDoes(p, d)
  BY Zenon, InvFacts, MkDirStep
<1>2. scene' = scene /\ member' = member /\ fd' = fd /\ Op(p) = "mk" /\ Dr(p) = d
  BY Zenon, <1>1 DEF MkDirDoes, Frame
<1>3. /\ Tree' /\ Rel(p)
      /\ \/ UNCHANGED tree
         \/ /\ Lookup(Up(p, d), Name(p, d)) = {}
            /\ \E n : /\ alive' = alive \cup {n} /\ n \in Nat
                      /\ n \notin alive /\ n \notin 1 .. Len(groups)
                      /\ groups'[n].name = Name(p, d) /\ groups'[n].up = Up(p, d)
                      /\ groups'[n].by = p
  <2>1. CASE UNCHANGED tree
    BY Zenon, <2>1, InvFacts, Leaving
  <2>2. CASE /\ IsDir(Up(p, d)) /\ Lookup(Up(p, d), Name(p, d)) = {}
             /\ groups' = Append(groups, [name |-> Name(p, d), up |-> Up(p, d), by |-> p])
             /\ alive' = alive \cup {Len(groups')}
    BY Zenon, <2>2, InvFacts, Making
  <2>3. QED
    BY Zenon, <1>1, <2>1, <2>2 DEF MkDirDoes
<1>4. Membership' /\ Fds'
  BY Zenon, <1>2, <1>3, InvFacts, Staying, FdsKept
<1>5. Own(p)'
  BY Zenon, <1>1, <1>2, InvFacts, MkDirSelf
<1>6. Core'
  BY Zenon, <1>1, <1>3, <1>4, <1>5, InvFacts, Assembling
<1>7. \A g \in alive : g \in alive'
  BY Zenon, <1>3 DEF tree
<1>8. ASSUME scene.premade PROVE NoMaker(p)' /\ \A g \in alive' \ alive : groups'[g].name # "ltp"
  <2>1. NoMaker(p) /\ GroupsOf("ltp") # {}
    BY Zenon, <1>8, InvFacts DEF Premade
  <2>2. Lookup(Root, "ltp") # {}
    <3>1. PICK g \in alive : groups[g].name = "ltp"
      BY Zenon, <2>1 DEF GroupsOf
    <3>2. groups[g].up = Root
      BY Zenon, <3>1, InvFacts DEF Tree
    <3>3. QED
      BY Zenon, <3>1, <3>2 DEF Lookup
  <2>3. Lookup(Up(p, d), Name(p, d)) = {} => d # "ltp" /\ Name(p, d) # "ltp"
    <3>1. d = "ltp" => Up(p, d) = Root /\ Name(p, d) = "ltp"
      BY Zenon DEF Up, Name
    <3>2. d # "ltp" => Name(p, d) # "ltp"
      BY Zenon, CGroupAssumption DEF Name
    <3>3. QED
      BY Zenon, <2>2, <3>1, <3>2
  <2>4. \A g \in alive' \ alive : groups'[g].name # "ltp"
    BY Zenon, <1>3, <2>3 DEF tree
  <2>5. NoMaker(p)'
    BY Zenon, <1>1, <2>1, <2>3 DEF MkDirDoes, NoMaker, Went, Broke
  <2>6. QED
    BY Zenon, <2>4, <2>5
<1>9. Premade'
  BY ZenonT(60), <1>1, <1>3, <1>7, <1>8, InvFacts, PremadeStep
<1>10. ASSUME Calm PROVE p \notin broken' /\ Smooth(p)'
  <2>1. Smooth(p) /\ broken = {} /\ scene.faults = 0 /\ Control(p)
    BY Zenon, <1>10, CalmFacts DEF Own
  <2>2. IsDir(Up(p, d))
    <3>1. d # "ltp" => fd[p].ltp # NoFd /\ fd[p].ltp = fd[p]["ltp"]
      BY <1>2, <2>1 DEF Smooth
    <3>2. d # "ltp" => fd[p].ltp \in alive
      BY Zenon, <2>1, <3>1 DEF Smooth
    <3>3. QED
      BY Zenon, <3>2 DEF Up, IsDir
  <2>3. Went(p, "open", d)
    BY Zenon, <1>1, <2>1, <2>2 DEF MkDirDoes
  <2>4. /\ Op(p)' = "open" /\ Dr(p)' = d /\ phase' = phase /\ broken' = broken
    BY Zenon, <2>3 DEF Went
  <2>5. Found(p, d)'
    <3>1. Up(p, d)' = Up(p, d)
      BY Zenon, <1>2 DEF Up
    <3>2. \E g \in alive' : groups'[g].name = Name(p, d) /\ groups'[g].up = Up(p, d)
      <4>1. CASE UNCHANGED tree
        <5>1. Lookup(Up(p, d), Name(p, d)) # {}
          <6>1. Lookup(Up(p, d), Name(p, d)) = {} =>
                  /\ groups' = Append(groups, [name |-> Name(p, d), up |-> Up(p, d), by |-> p])
                  /\ alive' = alive \cup {Len(groups')}
            BY Zenon, <1>1, <2>1, <2>2 DEF MkDirDoes
          <6>2. Lookup(Up(p, d), Name(p, d)) = {} => alive' # alive
            BY Zenon, <2>2, <6>1, InvFacts, Making
          <6>3. QED
            BY Zenon, <4>1, <6>2 DEF tree
        <5>2. QED
          BY Zenon, <4>1, <5>1 DEF Lookup, tree
      <4>2. QED
        BY Zenon, <1>3, <4>1
    <3>3. QED
      BY Zenon, <3>1, <3>2 DEF Found, GroupsOf, Name
  <2>6. QED
    BY ZenonT(60), <1>2, <1>7, <2>1, <2>4, <2>5 DEF Smooth, Control
<1>11. Calmness'
  BY ZenonT(60), <1>1, <1>2, <1>3, <1>6, <1>7, <1>10, InvFacts, CalmStep
<1>12. QED
  BY Zenon, <1>6, <1>9, <1>11 DEF Inv

\* A directory is opened.
LEMMA OpenDirInv ==
  ASSUME Inv, NEW p \in Tests, NEW d \in Dirs, OpenDir(p, d)
  PROVE  Inv'
<1>1. Types' /\ Frame(p) /\ OpenDirDoes(p, d)
  BY Zenon, InvFacts, OpenDirStep
<1>2. /\ scene' = scene /\ UNCHANGED tree /\ UNCHANGED <<tree, member>> /\ alive' = alive
      /\ groups' = groups /\ member' = member /\ Op(p) = "open" /\ Dr(p) = d
  BY Zenon, <1>1 DEF OpenDirDoes, Frame, tree
<1>3. Tree' /\ Rel(p)
  BY Zenon, <1>2, InvFacts, Leaving
<1>4. Membership' /\ Fds'
  BY Zenon, <1>2, <1>3, InvFacts, Staying, FdsOpened
<1>5. Own(p)'
  BY Zenon, <1>1, <1>2, InvFacts, OpenDirSelf
<1>6. Core'
  BY Zenon, <1>1, <1>3, <1>4, <1>5, InvFacts, Assembling
<1>7. /\ After(p, d)[1] \notin {"c_move", "c_rm"}
      /\ d = "ltp" /\ phase[p] = "load" => After(p, d)[1] = "mk" /\ After(p, d)[2] = "drain"
      /\ d = "ltp" /\ phase[p] # "load" => After(p, d)[1] = "enable" /\ After(p, d)[2] = "ltp"
      /\ d = "drain" => After(p, d)[1] = "mk" /\ After(p, d)[2] = "test"
      /\ d = "test" /\ phase[p] = "load" =>
           After(p, d)[1] = "c_read" /\ After(p, d)[2] = "test"
      /\ d = "test" /\ phase[p] # "load" =>
           After(p, d)[1] = "required" /\ After(p, d)[2] = "ltp"
  BY AfterFacts DEF Dirs
<1>8. scene.premade => NoMaker(p)'
  BY Zenon, <1>1, <1>7, InvFacts DEF OpenDirDoes, NoMaker, Went, Broke
<1>9. Premade'
  BY Zenon, <1>1, <1>2, <1>8, InvFacts, PremadeKept
<1>10. ASSUME Calm PROVE p \notin broken' /\ Smooth(p)'
  <2>1. Smooth(p) /\ broken = {} /\ Control(p)
    BY Zenon, <1>10, CalmFacts DEF Own
  <2>2. Lookup(Up(p, d), Name(p, d)) # {}
    BY Zenon, <1>2, <2>1 DEF Smooth, Found, GroupsOf, Lookup
  <2>3. /\ fd'[p][d] \in Lookup(Up(p, d), Name(p, d))
        /\ \A e \in Dirs \ {d} : fd'[p][e] = fd[p][e]
        /\ Op(p)' = After(p, d)[1] /\ Dr(p)' = After(p, d)[2]
        /\ phase' = phase /\ broken' = broken
    BY Zenon, <1>1, <2>2 DEF OpenDirDoes, Went
  <2>4. fd'[p][d] \in alive /\ fd'[p][d] # NoFd
    <3>1. fd'[p][d] \in alive
      BY Zenon, <2>3 DEF Lookup
    <3>2. QED
      BY Zenon, <3>1, InvFacts, GroupFacts, Numbers DEF Tree
  <2>5. /\ fd[p].ltp = fd[p]["ltp"] /\ fd[p].drain = fd[p]["drain"]
        /\ fd'[p].ltp = fd'[p]["ltp"] /\ fd'[p].drain = fd'[p]["drain"]
        /\ fd'[p].test = fd'[p]["test"]
    OBVIOUS
  <2>6. \A e \in {"ltp", "drain"} : fd'[p][e] # NoFd => fd'[p][e] \in alive
    BY Zenon, <2>1, <2>3, <2>4 DEF Smooth, Dirs
  <2>7. /\ fd'[p].ltp # NoFd
        /\ d # "ltp" => fd'[p].drain # NoFd
        /\ d = "test" => fd'[p].test \in alive
    BY Zenon, <1>2, <2>1, <2>3, <2>4, <2>5 DEF Smooth, Dirs
  <2>8. /\ Op(p)' \in {"mk", "enable", "c_read", "required"}
        /\ Op(p)' = "mk" => Dr(p)' \in {"drain", "test"}
        /\ Op(p)' = "mk" /\ Dr(p)' = "test" => d # "ltp"
        /\ Op(p)' \in {"c_read", "required"} => d = "test"
    BY Zenon, <1>7, <2>3 DEF Dirs
  <2>9. phase[p] # "cleanup" /\ (scene.kind[p] = "script" => member[p] # Gone)
    BY Zenon, <1>2, <2>1 DEF Smooth, Control
  <2>10. QED
    BY ZenonT(60), <1>2, <2>1, <2>3, <2>6, <2>7, <2>8, <2>9 DEF Smooth
<1>11. Calmness'
  BY ZenonT(60), <1>1, <1>2, <1>6, <1>10, InvFacts, CalmKept
<1>12. QED
  BY Zenon, <1>6, <1>9, <1>11 DEF Inv

\* The processes of a group are read.
LEMMA DrainReadInv ==
  ASSUME Inv, NEW p \in Tests, NEW d \in Dirs, DrainRead(p, d)
  PROVE  Inv'
<1>1. Types' /\ Frame(p) /\ DrainReadDoes(p, d)
  BY Zenon, InvFacts, DrainReadStep
<1>2. /\ UNCHANGED <<tree, member, fd>> /\ made' = made /\ scene' = scene /\ fd' = fd
      /\ UNCHANGED tree /\ UNCHANGED <<tree, member>> /\ alive' = alive /\ groups' = groups
      /\ member' = member /\ Op(p) = "c_read" /\ Dr(p) = d
  BY Zenon, <1>1 DEF DrainReadDoes, lib, Frame, tree
<1>3. Tree' /\ Rel(p) /\ Membership' /\ Fds'
  BY Zenon, <1>2, InvFacts, Idle
<1>4. Own(p)'
  BY Zenon, <1>1, <1>2, InvFacts, DrainReadSelf
<1>5. Core'
  BY Zenon, <1>1, <1>3, <1>4, InvFacts, Assembling
<1>6. scene.premade => NoMaker(p)'
  <2>1. Op(p)' \in {"c_move", "c_rm"} => Dr(p)' = d /\ d # "ltp" /\ (d = "drain" => made[p])
    BY Zenon, <1>1 DEF DrainReadDoes, Went, Broke
  <2>2. conf'[p] = "made" => conf[p] = "made"
    BY Zenon, <1>1 DEF DrainReadDoes, Went, Broke
  <2>3. QED
    BY Zenon, <1>2, <2>1, <2>2, InvFacts DEF NoMaker, Dirs
<1>7. Premade'
  BY Zenon, <1>1, <1>2, <1>6, InvFacts, PremadeKept
<1>8. ASSUME Calm PROVE p \notin broken' /\ Smooth(p)'
  <2>1. Smooth(p) /\ broken = {} /\ ~made[p] /\ Control(p)
    BY Zenon, <1>8, CalmFacts DEF Own, NoMaker
  <2>2. phase[p] \in {"load", "cleanup"} /\ d # "ltp"
    BY Zenon, <1>2, <2>1 DEF Control
  <2>3. d = "test" => fd[p].test \in alive /\ fd[p].drain # NoFd /\ IsDir(fd[p][d])
    <3>1. fd[p].test = fd[p]["test"]
      OBVIOUS
    <3>2. QED
      BY Zenon, <1>2, <2>1, <3>1 DEF Smooth, IsDir
  <2>4. /\ phase' = phase /\ broken' = broken
        /\ \/ Op(p)' = "c_read" /\ Dr(p)' = "drain"
           \/ Op(p)' = "clear" /\ Dr(p)' = ""
           \/ /\ d = "test" /\ todo'[p] = Members(fd[p][d])
              /\ Op(p)' = "c_move" /\ Dr(p)' = "test"
    BY Zenon, <1>1, <2>1, <2>2, <2>3 DEF DrainReadDoes, Went, Dirs
  <2>5. CASE Op(p)' # "c_move"
    BY Zenon, <1>2, <2>1, <2>4, <2>5 DEF Smooth
  <2>6. CASE Op(p)' = "c_move"
    <3>1. d = "test" /\ todo'[p] = Members(fd[p].test)
      <4>1. fd[p].test = fd[p]["test"]
        OBVIOUS
      <4>2. QED
        BY Zenon, <2>4, <2>6, <4>1
    <3>2. fd[p].test # NoFd /\ fd[p].test # Gone
      BY Zenon, <2>3, <3>1, InvFacts, GroupFacts, Numbers DEF Tree
    <3>3. groups[fd[p].test].name = p
      BY Zenon, <3>2, InvFacts, FdFacts
    <3>4. Members(fd[p].test) \subseteq {p}
      BY ZenonT(60), <2>3, <3>1, <3>3, InvFacts DEF Members, Membership
    <3>5. Members(fd[p].test) # {} => phase[p] = "load"
      <4>1. Members(fd[p].test) # {} => member[p] = fd[p].test
        BY Zenon, <3>4 DEF Members
      <4>2. phase[p] = "cleanup" => member[p] = Gone
        BY Zenon, <2>1 DEF Smooth
      <4>3. QED
        BY Zenon, <2>2, <3>2, <4>1, <4>2
    <3>6. Members(fd[p].test)' = Members(fd[p].test)
      BY Zenon, <1>2 DEF Members
    <3>7. QED
      BY ZenonT(60), <1>2, <2>1, <2>3, <2>4, <2>6, <3>1, <3>4, <3>5, <3>6 DEF Smooth
  <2>7. QED
    BY Zenon, <2>5, <2>6
<1>9. Calmness'
  BY Zenon, <1>1, <1>2, <1>5, <1>8, InvFacts, CalmKept
<1>10. QED
  BY Zenon, <1>5, <1>7, <1>9 DEF Inv

\* They are moved.
LEMMA DrainMoveInv ==
  ASSUME Inv, NEW p \in Tests, NEW d \in Dirs, DrainMove(p, d)
  PROVE  Inv'
<1>1. Types' /\ Frame(p) /\ DrainMoveDoes(p, d)
  BY Zenon, InvFacts, DrainMoveStep
<1>2. /\ scene' = scene /\ UNCHANGED tree /\ alive' = alive /\ groups' = groups
      /\ fd' = fd /\ made' = made /\ Op(p) = "c_move" /\ Dr(p) = d
  BY Zenon, <1>1 DEF DrainMoveDoes, lib, Frame, tree
<1>3. Tree' /\ Rel(p)
  BY Zenon, <1>2, InvFacts, Leaving
<1>4. Dest(p, d) # Root /\ IsDir(Dest(p, d)) =>
        /\ Dest(p, d) = fd[p].drain /\ Dest(p, d) \in alive
        /\ groups[Dest(p, d)].name = "drain"
  <2>1. Dest(p, d) # Root /\ IsDir(Dest(p, d)) => Dest(p, d) = fd[p].drain /\ Dest(p, d) \in alive
    BY Zenon DEF Dest, IsDir
  <2>2. fd[p].drain \in alive => fd[p].drain # NoFd
    BY Zenon, InvFacts, GroupFacts, Numbers DEF Tree
  <2>3. fd[p].drain \in alive => groups[fd[p].drain].name = "drain"
    BY Zenon, <2>2, InvFacts, FdFacts
  <2>4. QED
    BY Zenon, <2>1, <2>3
<1>5. Membership' /\ \A r \in Tests : r \notin todo[p] => member'[r] = member[r]
  <2>1. CASE member' = member
    BY Zenon, <1>3, <2>1, InvFacts, Staying
  <2>2. ASSUME NEW q \in todo[p], IsDir(Dest(p, d)), member' = [member EXCEPT ![q] = Dest(p, d)]
        PROVE  Membership' /\ \A r \in Tests : r \notin todo[p] => member'[r] = member[r]
    <3>1. q \in Tests
      BY Zenon, InvFacts DEF Types
    <3>2. \/ Dest(p, d) = Root
          \/ Dest(p, d) \in alive /\ groups[Dest(p, d)].name \notin Tests
      BY Zenon, <1>4, <2>2, CGroupAssumption
    <3>3. Membership' /\ \A r \in Tests \ {q} : member'[r] = member[r]
      BY Zenon, <1>2, <2>2, <3>1, <3>2, InvFacts, Moving
    <3>4. QED
      BY Zenon, <3>3
  <2>3. QED
    BY Zenon, <1>1, <2>1, <2>2 DEF DrainMoveDoes, Broke
<1>6. Fds'
  BY Zenon, <1>2, <1>3, InvFacts, FdsKept
<1>7. Own(p)'
  BY Zenon, <1>1, <1>2, InvFacts, DrainMoveSelf
<1>8. Core'
  BY ZenonT(60), <1>1, <1>3, <1>5, <1>6, <1>7, InvFacts, Assembling
<1>9. scene.premade => NoMaker(p)'
  <2>1. Op(p)' \in {"c_move", "c_rm"} => Dr(p)' = d
    BY Zenon, <1>1 DEF DrainMoveDoes, Went, Broke
  <2>2. conf'[p] = "made" => conf[p] = "made"
    BY Zenon, <1>1 DEF DrainMoveDoes, Went, Broke
  <2>3. QED
    BY Zenon, <1>2, <2>1, <2>2, InvFacts DEF NoMaker
<1>10. Premade'
  BY Zenon, <1>1, <1>2, <1>9, InvFacts, PremadeKept
<1>11. ASSUME Calm
       PROVE  /\ \A r \in Tests \ {p} : member'[r] = member[r]
              /\ p \notin broken' /\ Smooth(p)'
  <2>1. Smooth(p) /\ broken = {} /\ NoMaker(p) /\ Control(p)
    BY Zenon, <1>11, CalmFacts DEF Own
  <2>2. /\ d = "test" /\ fd[p].test \in alive /\ fd[p].drain # NoFd
        /\ todo[p] \subseteq {p} /\ (todo[p] # {} => phase[p] = "load")
        /\ Members(fd[p].test) \subseteq todo[p]
    BY Zenon, <1>2, <2>1 DEF Smooth, NoMaker
  <2>3. Dest(p, d) = fd[p].drain /\ fd[p].drain \in alive
    <3>1. fd[p].drain = fd[p]["drain"]
      OBVIOUS
    <3>2. QED
      BY Zenon, <2>1, <2>2, <3>1 DEF Smooth, Dest
  <2>4. todo[p] # {} => scene.kind[p] = "script" /\ member[p] # Gone
    BY Zenon, <1>2, <2>1, <2>2 DEF Control, Smooth
  <2>5. IsDir(Dest(p, d)) /\ ~\E q \in todo[p] : member[q] = Gone
    BY Zenon, <2>2, <2>3, <2>4 DEF IsDir
  <2>6. \A r \in Tests \ {p} : member'[r] = member[r]
    BY Zenon, <1>5, <2>2
  <2>7. CASE todo[p] = {} /\ Went(p, "c_rm", d) /\ UNCHANGED <<member, todo>>
    <3>1. /\ Op(p)' = "c_rm" /\ Dr(p)' = "test" /\ phase' = phase /\ broken' = broken
          /\ member' = member
      BY Zenon, <2>2, <2>7 DEF Went
    <3>2. Members(fd[p].test)' = {}
      BY Zenon, <1>2, <2>2, <2>7, <3>1 DEF Members
    <3>3. QED
      BY Zenon, <1>2, <2>1, <2>2, <2>6, <3>1, <3>2 DEF Smooth
  <2>8. ASSUME Went(p, "c_move", d), NEW q \in todo[p],
               member' = [member EXCEPT ![q] = Dest(p, d)], todo'[p] = todo[p] \ {q}
        PROVE  p \notin broken' /\ Smooth(p)'
    <3>1. /\ Op(p)' = "c_move" /\ Dr(p)' = "test" /\ phase' = phase /\ broken' = broken
          /\ q = p /\ todo'[p] = {} /\ phase[p] = "load"
      BY Zenon, <2>2, <2>8 DEF Went
    <3>2. member'[p] = fd[p].drain
      BY Zenon, <2>3, <2>8, <3>1, InvFacts DEF Membership
    <3>3. fd[p].drain # fd[p].test /\ fd[p].drain # Gone
      <4>1. fd[p].test # NoFd /\ fd[p].drain # Gone
        BY Zenon, <2>2, <2>3, InvFacts, GroupFacts, Numbers DEF Tree
      <4>2. groups[fd[p].test].name = p /\ groups[fd[p].drain].name = "drain"
        BY Zenon, <2>2, <4>1, InvFacts, FdFacts
      <4>3. QED
        BY Zenon, <4>1, <4>2, CGroupAssumption
    <3>4. Members(fd[p].test)' = {}
      <4>1. ASSUME NEW r \in Tests, member'[r] = fd[p].test PROVE FALSE
        <5>1. r # p
          BY Zenon, <3>2, <3>3, <4>1
        <5>2. r \in Members(fd[p].test)
          BY Zenon, <2>6, <4>1, <5>1 DEF Members
        <5>3. QED
          BY Zenon, <2>2, <5>1, <5>2
      <4>2. QED
        BY Zenon, <1>2, <4>1 DEF Members
    <3>5. QED
      BY ZenonT(60), <1>2, <2>1, <2>2, <3>1, <3>2, <3>3, <3>4 DEF Smooth
  <2>9. QED
    BY Zenon, <1>1, <2>5, <2>6, <2>7, <2>8 DEF DrainMoveDoes
<1>12. Calmness'
  BY ZenonT(60), <1>1, <1>2, <1>3, <1>8, <1>11, InvFacts, CalmStep
<1>13. QED
  BY Zenon, <1>8, <1>10, <1>12 DEF Inv

\* A group is removed.
LEMMA RemoveInv ==
  ASSUME Inv, NEW p \in Tests, NEW d \in Dirs, Remove(p, d)
  PROVE  Inv'
<1>1. Types' /\ Frame(p) /\ RemoveDoes(p, d)
  BY Zenon, InvFacts, RemoveStep
<1>2. /\ scene' = scene /\ groups' = groups /\ member' = member /\ fd' = fd /\ made' = made
      /\ named' = named /\ Op(p) = "c_rm" /\ Dr(p) = d
  BY Zenon, <1>1 DEF RemoveDoes, lib, Frame
<1>3. alive' = alive \/ alive' = alive \ Removable(p, d)
  BY Zenon, <1>1 DEF RemoveDoes
<1>4. /\ Tree' /\ Rel(p)
      /\ \A g \in alive \ alive' : groups[g].name = Name(p, d) /\ groups[g].up = Up(p, d)
  <2>1. CASE alive' = alive
    <3>1. UNCHANGED tree
      BY Zenon, <1>2, <2>1 DEF tree
    <3>2. QED
      BY Zenon, <2>1, <3>1, InvFacts, Leaving
  <2>2. CASE alive' = alive \ Removable(p, d)
    BY Zenon, <1>2, <2>2, InvFacts, Removing
  <2>3. QED
    BY Zenon, <1>3, <2>1, <2>2
<1>5. Membership' /\ Fds'
  BY Zenon, <1>2, <1>4, InvFacts, Staying, FdsKept
<1>6. Own(p)'
  BY Zenon, <1>1, <1>2, InvFacts, RemoveSelf
<1>7. Core'
  BY Zenon, <1>1, <1>4, <1>5, <1>6, InvFacts, Assembling
<1>8. scene.premade => d = "test" /\ \A g \in alive \ alive' : groups[g].name = p
  BY Zenon, <1>2, <1>4, InvFacts DEF NoMaker, Name
<1>9. \A g \in alive' \ alive : groups'[g].name # "ltp"
  BY Zenon, <1>3
<1>10. scene.premade => NoMaker(p)'
  <2>1. d = "test" => Op(p)' \notin {"c_move", "c_rm"}
    BY Zenon, <1>1 DEF RemoveDoes, Went, Broke
  <2>2. conf'[p] = "made" => conf[p] = "made"
    BY Zenon, <1>1 DEF RemoveDoes, Went, Broke, Dirs
  <2>3. QED
    BY Zenon, <1>2, <1>8, <2>1, <2>2, InvFacts DEF NoMaker
<1>11. Premade'
  BY ZenonT(60), <1>1, <1>4, <1>8, <1>9, <1>10, InvFacts, PremadeStep, CGroupAssumption
<1>12. ASSUME Calm PROVE p \notin broken' /\ Smooth(p)'
  <2>1. Smooth(p) /\ broken = {} /\ Control(p) /\ scene.premade
    BY Zenon, <1>12, CalmFacts DEF Own, Calm
  <2>2. d = "test" /\ fd[p].test \in alive /\ fd[p].drain # NoFd /\ Members(fd[p].test) = {}
    BY Zenon, <1>2, <1>8, <2>1 DEF Smooth
  <2>3. groups[fd[p].test].name = p /\ groups[fd[p].test].up = fd[p].ltp
    <3>1. fd[p].test # NoFd
      BY Zenon, <2>2, InvFacts, GroupFacts, Numbers DEF Tree
    <3>2. QED
      BY Zenon, <3>1, InvFacts, FdFacts
  <2>4. Children(fd[p].test) = {}
    <3>1. ASSUME NEW h \in alive, groups[h].up = fd[p].test PROVE FALSE
      <4>1. h \in 1 .. Len(groups) /\ fd[p].test # Root
        BY Zenon, <2>2, InvFacts, GroupFacts, Numbers DEF Tree
      <4>2. groups[fd[p].test].name = "ltp"
        BY Zenon, <3>1, <4>1, InvFacts DEF Tree
      <4>3. QED
        BY Zenon, <2>3, <4>2, CGroupAssumption
    <3>2. QED
      BY Zenon, <3>1 DEF Children
  <2>5. Removable(p, d) # {}
    <3>1. Name(p, d) = p /\ Up(p, d) = fd[p].ltp
      BY Zenon, <2>2 DEF Name, Up
    <3>2. fd[p].test \in Removable(p, d)
      BY Zenon, <2>2, <2>3, <2>4, <3>1 DEF Removable, Lookup
    <3>3. QED
      BY Zenon, <3>2
  <2>6. Op(p)' = "c_read" /\ Dr(p)' = "drain" /\ phase' = phase /\ broken' = broken
    BY Zenon, <1>1, <2>2, <2>5 DEF RemoveDoes, Went
  <2>7. \A e \in {"ltp", "drain"} : fd[p][e] # NoFd => fd[p][e] \in alive'
    <3>1. ASSUME NEW e \in {"ltp", "drain"}, fd[p][e] # NoFd PROVE fd[p][e] \in alive'
      <4>1. fd[p][e] \in alive /\ groups[fd[p][e]].name = Name(p, e)
        BY Zenon, <2>1, <3>1, InvFacts DEF Smooth, Descriptors, Dirs
      <4>2. Name(p, e) # p
        BY Zenon, <3>1, CGroupAssumption DEF Name
      <4>3. QED
        BY Zenon, <1>8, <2>1, <4>1, <4>2
    <3>2. QED
      BY Zenon, <3>1
  <2>8. QED
    BY Zenon, <1>2, <2>1, <2>6, <2>7 DEF Smooth
<1>13. Calm => /\ \A r \in Tests \ {p} : member'[r] = member[r]
               /\ \A g \in alive \ alive' : groups[g].name = p
               /\ p \notin broken' /\ Smooth(p)'
  BY Zenon, <1>2, <1>8, <1>12 DEF Calm
<1>14. Calmness'
  BY Zenon, <1>1, <1>4, <1>7, <1>13, InvFacts, CalmStep
<1>15. QED
  BY Zenon, <1>7, <1>11, <1>14 DEF Inv
-----------------------------------------------------------------------------
(* The specification.                                                       *)

\* The groups that are there before the tests: none, or ltp.
LEMMA InitTree ==
  ASSUME Init
  PROVE  /\ Tree
         /\ \A g \in alive : /\ scene.premade /\ g = 1
                             /\ groups[g].name = "ltp" /\ groups[g].by = "admin"
         /\ scene.premade => 1 \in alive
<1> DEFINE e == [name |-> "ltp", up |-> Root, by |-> "admin"]
<1>1. alive = 1 .. Len(groups)
  BY Zenon DEF Init
<1>2. CASE scene.premade
  <2>1. groups = <<e>>
    BY Zenon, <1>2 DEF Init
  <2>2. e \in Records
    BY DEF Records, Root
  <2>3. groups \in Seq(Records) /\ Len(groups) = 1 /\ groups[1] = e
    BY <2>1, <2>2
  <2>4. 1 .. Len(groups) = {1} /\ Root < 1
    BY <2>3 DEF Root
  <2>5. e.name = "ltp" /\ e.up = Root /\ e.by = "admin"
    BY Zenon
  <2>6. "ltp" \notin Tests
    BY Zenon, CGroupAssumption
  <2>7. QED
    BY Zenon, <1>1, <1>2, <2>3, <2>4, <2>5, <2>6 DEF Tree, IsDir
<1>3. CASE ~scene.premade
  <2>1. groups = <<>>
    BY Zenon, <1>3 DEF Init
  <2>2. groups \in Seq(Records) /\ 1 .. Len(groups) = {}
    BY <2>1
  <2>3. QED
    BY Zenon, <1>1, <1>3, <2>2 DEF Tree
<1>4. QED
  BY Zenon, <1>2, <1>3

\* The tests start with nothing.
LEMMA InitTypes ==
  ASSUME Init
  PROVE  /\ Types /\ Fds
         /\ \A p \in Tests :
              /\ \/ scene.kind[p] = "absent" /\ Op(p) = "done" /\ Dr(p) = ""
                 \/ scene.kind[p] # "absent" /\ Op(p) = "require" /\ Dr(p) = "ltp"
              /\ phase[p] = "require" /\ left[p] = scene.ctrls[p] /\ left[p] > 0
              /\ \A d \in Dirs : fd[p][d] = NoFd
              /\ fd[p].ltp = NoFd /\ ~made[p] /\ conf[p] = "unset"
              /\ member[p] = IF scene.kind[p] = "absent" THEN Gone ELSE Root
         /\ broken = {}
<1>1. /\ scene \in Scenes /\ scene.kind \in [Tests -> {"lib", "script", "absent"}]
      /\ scene.ctrls \in [Tests -> Nat \ {0}] /\ scene.faults \in Nat
  BY Zenon, CGroupAssumption DEF Init
<1>2. \A p \in Tests :
        pc[p] = IF scene.kind[p] = "absent" THEN <<"done", "">> ELSE <<"require", "ltp">>
  BY Zenon DEF Init
<1>3. \A p \in Tests : \/ scene.kind[p] = "absent" /\ At(p, "done", "")
                       \/ scene.kind[p] # "absent" /\ At(p, "require", "ltp")
  BY Zenon, <1>2 DEF At
<1>4. \A p \in Tests : \/ scene.kind[p] = "absent" /\ Op(p) = "done" /\ Dr(p) = ""
                       \/ scene.kind[p] # "absent" /\ Op(p) = "require" /\ Dr(p) = "ltp"
  BY Zenon, <1>3, AtFacts
<1>5. pc \in [Tests -> Ops \X (Dirs \cup {""})]
  <2>1. /\ <<"done", "">> \in Ops \X (Dirs \cup {""})
        /\ <<"require", "ltp">> \in Ops \X (Dirs \cup {""})
    BY Zenon, Pair DEF Ops, Dirs
  <2>2. QED
    BY Zenon, <2>1 DEF Init
<1>6. left = scene.ctrls /\ left \in [Tests -> Nat] /\ \A p \in Tests : left[p] > 0
  <2>1. left = scene.ctrls
    BY Zenon DEF Init
  <2>2. QED
    BY <1>1, <2>1
<1>7. faults \in 0 .. scene.faults
  <2>1. faults = scene.faults
    BY Zenon DEF Init
  <2>2. QED
    BY <1>1, <2>1
<1>8. Types
  BY Zenon, <1>1, <1>5, <1>6, <1>7 DEF Init, Types
<1>9. \A p \in Tests : fd[p] = [d \in Dirs |-> NoFd]
  BY Zenon DEF Init
<1>10. Fds
  BY Zenon DEF Init, Fds
<1>11. \A p \in Tests : fd[p].ltp = NoFd /\ \A d \in Dirs : fd[p][d] = NoFd
  <2>1. ASSUME NEW p \in Tests PROVE fd[p].ltp = fd[p]["ltp"]
    OBVIOUS
  <2>2. QED
    BY Zenon, <1>9, <2>1 DEF Dirs
<1>12. \A p \in Tests : /\ phase[p] = "require" /\ ~made[p] /\ conf[p] = "unset"
                        /\ member[p] = IF scene.kind[p] = "absent" THEN Gone ELSE Root
  BY Zenon DEF Init
<1>13. broken = {}
  BY Zenon DEF Init
<1>14. QED
  BY Zenon, <1>4, <1>6, <1>8, <1>10, <1>11, <1>12, <1>13

\* The invariant holds initially.
LEMMA InitInv ==
  ASSUME Init
  PROVE  Inv
<1>1. Types /\ Fds /\ Tree
  BY Zenon, InitTypes, InitTree
<1>2. Membership
  <2>1. member \in [Tests -> {Root, Gone} \cup 1 .. Len(groups)]
    BY Zenon DEF Init
  <2>2. \A p \in Tests : member[p] = Gone \/ member[p] = Root
    BY Zenon, InitTypes
  <2>3. Root \notin alive /\ Gone \notin alive
    BY Zenon, <1>1, GroupFacts, Numbers DEF Tree
  <2>4. QED
    BY Zenon, <2>1, <2>2, <2>3 DEF Membership, IsDir
<1>3. ASSUME NEW p \in Tests PROVE Own(p)
  <2>1. /\ Op(p) \in {"done", "require"} /\ (Op(p) = "done" <=> scene.kind[p] = "absent")
        /\ phase[p] = "require" /\ left[p] = scene.ctrls[p] /\ left[p] > 0
        /\ \A d \in Dirs : fd[p][d] = NoFd
        /\ fd[p].ltp = NoFd
    BY Zenon, InitTypes
  <2>2. GroupsOf(p) = {} /\ ~Made(p)
    <3>1. p # "ltp" /\ p # "admin"
      BY Zenon, CGroupAssumption
    <3>2. \A g \in alive : groups[g].name = "ltp" /\ groups[g].by = "admin"
      BY Zenon, InitTree
    <3>3. QED
      BY Zenon, <3>1, <3>2 DEF GroupsOf, Made
  <2>3. Descriptors(p)
    BY Zenon, <2>1 DEF Descriptors
  <2>4. Control(p)
    BY Zenon, <2>1 DEF Control
  <2>5. Owned(p)
    BY Zenon, <2>1, <2>2 DEF Owned, Within
  <2>6. Maker(p)
    BY Zenon, <2>1, <2>2 DEF Maker
  <2>7. QED
    BY Zenon, <2>3, <2>4, <2>5, <2>6 DEF Own
<1>4. Premade
  <2>1. \A p \in Tests : NoMaker(p)
    BY Zenon, InitTypes DEF NoMaker
  <2>2. QED
    BY Zenon, <2>1, InitTree DEF Premade, GroupsOf
<1>5. Calmness
  <2>1. ASSUME NEW p \in Tests PROVE Smooth(p)
    <3>1. /\ Op(p) \in {"done", "require"} /\ (Op(p) = "done" <=> scene.kind[p] = "absent")
          /\ phase[p] = "require" /\ \A d \in Dirs : fd[p][d] = NoFd
          /\ member[p] = IF scene.kind[p] = "absent" THEN Gone ELSE Root
      BY Zenon, InitTypes
    <3>2. Root # Gone
      BY Zenon, Numbers
    <3>3. QED
      BY Zenon, <3>1, <3>2 DEF Smooth, Dirs
  <2>2. QED
    BY Zenon, <2>1, InitTypes DEF Calmness
<1>6. QED
  BY Zenon, <1>1, <1>2, <1>3, <1>4, <1>5 DEF Inv, Core

\* Steps that change nothing keep it.
LEMMA StutterInv ==
  ASSUME Inv, UNCHANGED vars
  PROVE  Inv'
<1>1. /\ scene' = scene /\ groups' = groups /\ alive' = alive /\ member' = member /\ pc' = pc
      /\ phase' = phase /\ left' = left /\ named' = named /\ fd' = fd /\ made' = made
      /\ conf' = conf /\ todo' = todo /\ broken' = broken /\ faults' = faults
  BY Zenon DEF vars
<1>2. Types' /\ Tree' /\ Membership' /\ Fds'
  BY ZenonT(60), <1>1 DEF Inv, Core, Types, Tree, Membership, Fds, IsDir
<1>3. ASSUME NEW p \in Tests
      PROVE  Own(p)' /\ (Smooth(p)' <=> Smooth(p)) /\ (NoMaker(p)' <=> NoMaker(p))
  <2>1. Op(p)' = Op(p) /\ Dr(p)' = Dr(p) /\ \A n : GroupsOf(n)' = GroupsOf(n)
    BY Zenon, <1>1 DEF Op, Dr, GroupsOf
  <2>2. Own(p)
    BY Zenon DEF Inv, Core
  <2>3. Descriptors(p)' /\ Control(p)' /\ Owned(p)'
    BY ZenonT(60), <1>1, <2>1, <2>2 DEF Own, Descriptors, Control, Owned, Within, Past, Up
  <2>4. (Made(p)' <=> Made(p)) /\ (Before(p)' <=> Before(p))
    BY Zenon, <1>1, <2>1 DEF Made, Before
  <2>5. Maker(p)'
    BY Zenon, <1>1, <2>1, <2>2, <2>4 DEF Own, Maker, Knows
  <2>6. \A d : Found(p, d)' <=> Found(p, d)
    BY Zenon, <1>1, <2>1 DEF Found, Up
  <2>7. Smooth(p)' <=> Smooth(p)
    BY ZenonT(60), <1>1, <2>1, <2>6 DEF Smooth, Members
  <2>8. QED
    BY Zenon, <1>1, <2>1, <2>3, <2>5, <2>7 DEF Own, NoMaker
<1>4. Core'
  BY Zenon, <1>2, <1>3 DEF Core
<1>5. Premade' /\ Calmness'
  BY Zenon, <1>1, <1>3 DEF Inv, Premade, Calmness, Calm, GroupsOf
<1>6. QED
  BY Zenon, <1>4, <1>5 DEF Inv

\* The invariant of every behaviour of the tests.
THEOREM Invariant == Spec => []Inv
<1>1. Init => Inv
  BY Zenon, InitInv
<1>2. Inv /\ [Next]_vars => Inv'
  <2> SUFFICES ASSUME Inv, [Next]_vars PROVE Inv'
    OBVIOUS
  <2>1. CASE UNCHANGED vars
    BY Zenon, <2>1, StutterInv
  <2>2. ASSUME NEW p \in Tests, Step(p) \/ Joins(p) PROVE Inv'
    <3>1. CASE Require(p) \/ Enable(p) \/ Required(p)
      BY Zenon, <3>1, RequireInv, EnableInv, RequiredInv
    <3>2. CASE End(p) \/ Exit(p) \/ Clear(p) \/ Joins(p)
      BY Zenon, <3>2, EndInv, ExitInv, ClearInv
    <3>3. ASSUME NEW d \in Dirs, \/ MkDir(p, d) \/ OpenDir(p, d) \/ DrainRead(p, d)
                                 \/ DrainMove(p, d) \/ Remove(p, d)
          PROVE  Inv'
      BY Zenon, <3>3, MkDirInv, OpenDirInv, DrainReadInv, DrainMoveInv, RemoveInv
    <3>4. QED
      BY Zenon, <2>2, <3>1, <3>2, <3>3 DEF Step
  <2>3. QED
    BY Zenon, <2>1, <2>2 DEF Next
<1>3. QED
  BY <1>1, <1>2, PTL DEF Spec

\* The types; the groups are a tree without two of a name.
LEMMA TypesHold == Inv => TypeOK
<1> SUFFICES ASSUME Inv PROVE TypeOK
  OBVIOUS
<1>1. Types /\ Tree /\ Membership /\ Fds /\ \A p \in Tests : Descriptors(p)
  BY Zenon DEF Inv, Core, Own
<1>2. \A g \in 1 .. Len(groups) : groups[g].up \in 0 .. g - 1
  <2>1. ASSUME NEW g \in 1 .. Len(groups) PROVE groups[g].up \in 0 .. g - 1
    <3>1. Len(groups) \in Nat /\ groups[g].up \in Nat /\ groups[g].up < g
      BY Zenon, <1>1, GroupFacts DEF Tree
    <3>2. QED
      BY <3>1
  <2>2. QED
    BY Zenon, <2>1
<1>3. \A g \in alive : IsDir(groups[g].up) /\ Lookup(groups[g].up, groups[g].name) = {g}
  <2>1. ASSUME NEW g \in alive PROVE Lookup(groups[g].up, groups[g].name) = {g}
    <3>1. \A h \in alive : groups[h].up = groups[g].up /\ groups[h].name = groups[g].name => h = g
      BY Zenon, <1>1 DEF Tree
    <3>2. QED
      BY Zenon, <3>1 DEF Lookup
  <2>2. QED
    BY Zenon, <1>1, <2>1 DEF Tree
<1>4. \A p \in Tests, d \in Dirs : fd[p][d] # NoFd => d \in named[p]
  BY Zenon, <1>1 DEF Descriptors
<1>5. alive \subseteq 1 .. Len(groups)
  BY Zenon, <1>1 DEF Tree
<1>6. QED
  BY Zenon, <1>1, <1>2, <1>3, <1>4, <1>5 DEF TypeOK, Types, Membership, Fds

\* A test that runs has its group.
LEMMA OwnGroup ==
  ASSUME Inv, NEW p \in Tests, Running(p)
  PROVE  \E g \in alive : /\ groups[g] = [name |-> Name(p, "test"), up |-> groups[g].up, by |-> p]
                          /\ groups[g].up \in alive /\ groups[groups[g].up].name = "ltp"
                          /\ scene.kind[p] = "lib" => g = fd[p].test
<1>1. Tree /\ Fds /\ Own(p) /\ Op(p) = "run"
  BY Zenon, InvFacts, AtFacts DEF Running
<1>2. PICK g \in alive : groups[g].name = p /\ (scene.kind[p] = "lib" => g = fd[p].test)
  <2>1. CASE scene.kind[p] = "lib"
    <3>1. fd[p].test \in alive
      BY Zenon, <1>1, <2>1 DEF Own, Owned
    <3>2. fd[p].test # NoFd
      BY Zenon, <1>1, <3>1, GroupFacts, Numbers DEF Tree
    <3>3. groups[fd[p].test].name = p
      BY Zenon, <1>1, <3>2, FdFacts DEF Own
    <3>4. QED
      BY Zenon, <3>1, <3>3
  <2>2. CASE scene.kind[p] # "lib"
    BY Zenon, <1>1, <2>2 DEF Own, Owned, Within, GroupsOf
  <2>3. QED
    BY Zenon, <2>1, <2>2
<1>3. g \in 1 .. Len(groups) /\ groups[g] \in Records
  BY Zenon, <1>1, GroupFacts DEF Tree
<1>4. groups[g].by = p
  BY Zenon, <1>1, <1>2, <1>3 DEF Tree
<1>5. groups[g].up # Root /\ groups[groups[g].up].name = "ltp"
  BY ZenonT(60), <1>1, <1>2, <1>3, CGroupAssumption DEF Tree
<1>6. groups[g].up \in alive
  BY Zenon, <1>1, <1>5 DEF Tree, IsDir
<1>7. \A r \in Records : r = [name |-> r.name, up |-> r.up, by |-> r.by]
  BY DEF Records
<1>8. Name(p, "test") = p
  BY Zenon DEF Name
<1>9. groups[g] = [name |-> Name(p, "test"), up |-> groups[g].up, by |-> p]
  BY Zenon, <1>2, <1>3, <1>4, <1>7, <1>8
<1>10. QED
  BY Zenon, <1>2, <1>5, <1>6, <1>9

\* While a test runs its own group is there, below ltp, whatever other tests set up and
\* remove next to it (tst_cg_require(), tst_cg_cleanup()).
THEOREM GroupsConsistentHolds == Spec => []GroupsConsistent
<1>1. Inv => GroupsConsistent
  BY Zenon, TypesHold, OwnGroup DEF GroupsConsistent, OwnGroupKept
<1>2. QED
  BY <1>1, Invariant, PTL

\* tst_cg_cleanup() removes the group of the test, and the tests together the shared groups
\* they made, unless one of them broke or a script forgot that it made them.
THEOREM GroupsRemovedHolds == Spec => []GroupsRemoved
<1>1. Inv => GroupsRemoved
  <2> SUFFICES ASSUME Inv PROVE GroupsRemoved
    OBVIOUS
  <2>1. ASSUME NEW p \in Tests, At(p, "done", ""), scene.kind[p] = "lib" \/ p \notin broken
        PROVE  \A g \in alive : groups[g].name # p
    <3>1. Op(p) = "done" /\ Owned(p)
      BY Zenon, <2>1, InvFacts, AtFacts
    <3>2. QED
      BY Zenon, <2>1, <3>1 DEF Owned, Past, GroupsOf
  <2>2. ASSUME AllDone, broken = {}, ~scene.premade, KeepsConf PROVE alive = {}
    <3>1. ASSUME NEW g \in alive, groups[g].name = "ltp" PROVE FALSE
      <4>1. Premade
        BY Zenon DEF Inv
      <4>2. PICK p \in Tests : groups[g].by = p
        BY Zenon, <2>2, <4>1 DEF Premade
      <4>3. Made(p) /\ Op(p) = "done" /\ Maker(p)
        BY ZenonT(60), <2>2, <3>1, <4>2, InvFacts, AtFacts DEF Made, GroupsOf, AllDone
      <4>4. QED
        BY Zenon, <2>2, <4>3 DEF Maker, KeepsConf
    <3>2. ASSUME NEW g \in alive, groups[g].name # "ltp" PROVE FALSE
      <4>1. Tree
        BY Zenon DEF Inv, Core
      <4>2. g \in 1 .. Len(groups) /\ IsDir(groups[g].up)
        BY Zenon, <4>1 DEF Tree
      <4>3. groups[g].up \in alive /\ groups[groups[g].up].name = "ltp"
        BY ZenonT(60), <3>2, <4>1, <4>2 DEF Tree, IsDir
      <4>4. QED
        BY Zenon, <3>1, <4>3
    <3>3. QED
      BY Zenon, <3>1, <3>2
  <2>3. QED
    BY Zenon, <2>1, <2>2 DEF GroupsRemoved
<1>2. QED
  BY <1>1, Invariant, PTL

\* Below an ltp made in advance no test breaks another.
THEOREM NoneBrokenHolds == Spec => []NoneBroken
<1>1. Inv => NoneBroken
  BY Zenon DEF Inv, Calmness, NoneBroken
<1>2. QED
  BY <1>1, Invariant, PTL

-----------------------------------------------------------------------------
(* Who made the ltp that a test takes for its own.                           *)

\* A test for which we_created_it is set holds an ltp it made, and one whose
\* configuration says so has its group in such an ltp.
Holds(p) ==
  /\ made[p] /\ fd[p].ltp # NoFd => groups[fd[p].ltp].by = p
  /\ conf[p] = "made" => \A g \in GroupsOf(p) : groups[groups[g].up].by = p
  /\ conf[p] = "made" /\ phase[p] = "require" => GroupsOf(p) # {}

\* Where it needs that.
Acts(p) ==
  /\ made[p] /\ Op(p) = "open" /\ Dr(p) = "ltp" => Made(p)
  /\ Op(p) \in {"enable", "required"} => fd[p].ltp # NoFd
  /\ Op(p) \in {"mk", "open"} /\ Dr(p) # "ltp" => fd[p].ltp # NoFd
  /\ Op(p) \in {"c_move", "c_rm"} /\ Dr(p) # "test" => made[p]
  /\ Op(p) = "c_rm" /\ Dr(p) = "ltp" => Made(p)
Owner(p) == Holds(p) /\ Acts(p)
Ownership == Inv /\ \A p \in Tests : Owner(p)

\* The parts of it.
LEMMA OwnerFacts ==
  ASSUME Ownership, NEW p \in Tests
  PROVE  /\ Inv /\ Owner(p) /\ Holds(p) /\ Acts(p) /\ Types /\ Tree /\ Fds
         /\ Descriptors(p) /\ Control(p) /\ Owned(p)
BY Zenon, InvFacts DEF Ownership, Owner

\* There is one ltp.
LEMMA OneLtp ==
  ASSUME Tree, NEW g \in alive, NEW h \in alive, groups[g].name = "ltp", groups[h].name = "ltp"
  PROVE  g = h
<1>1. g \in 1 .. Len(groups) /\ h \in 1 .. Len(groups)
  BY Zenon DEF Tree
<1>2. groups[g].up = Root /\ groups[h].up = Root
  BY Zenon, <1>1 DEF Tree
<1>3. groups[g].up = groups[h].up /\ groups[g].name = groups[h].name
  BY Zenon, <1>2
<1>4. QED
  BY Zenon, <1>3 DEF Tree

\* The group of a test is in an ltp.
LEMMA UpFacts ==
  ASSUME Tree, NEW p \in Tests, NEW g \in GroupsOf(p)
  PROVE  /\ g \in 1 .. Len(groups) /\ groups[g].up \in 1 .. Len(groups)
         /\ groups[g].up # Root /\ groups[g].up \in alive
<1>1. g \in alive /\ g \in 1 .. Len(groups) /\ groups[g].name # "ltp"
  BY Zenon, CGroupAssumption DEF GroupsOf, Tree
<1>2. groups[g].up # Root
  BY Zenon, <1>1 DEF Tree
<1>3. groups[g].up \in alive
  BY Zenon, <1>1, <1>2 DEF Tree, IsDir
<1>4. QED
  BY Zenon, <1>1, <1>2, <1>3 DEF Tree

\* A step of another test does not change it, unless that removes an ltp it has not made.
LEMMA OwnerOthers ==
  ASSUME Tree, Fds, NEW p \in Tests, Frame(p), Rel(p), NEW q \in Tests, q # p, Owner(q),
         \A g \in alive \ alive' : groups[g].name = "ltp" => groups[g].by = p
  PROVE  Owner(q)'
<1>1. /\ Op(q)' = Op(q) /\ Dr(q)' = Dr(q) /\ phase'[q] = phase[q]
      /\ fd'[q] = fd[q] /\ made'[q] = made[q] /\ conf'[q] = conf[q]
  BY Zenon DEF Frame
<1>2. /\ GroupsOf(q)' = GroupsOf(q) /\ \A g \in GroupsOf(q) : groups'[g] = groups[g]
      /\ \A g \in 1 .. Len(groups) : groups'[g] = groups[g]
  BY Zenon, Kept DEF Rel
<1>3. Made(q) => Made(q)'
  <2>1. ASSUME NEW g \in alive, groups[g].name = "ltp", groups[g].by = q
        PROVE  g \in alive' /\ groups'[g] = groups[g]
    BY Zenon, <1>2, <2>1 DEF Tree
  <2>2. QED
    BY Zenon, <2>1 DEF Made, GroupsOf
<1>4. Holds(q)'
  <2>1. made'[q] /\ fd'[q].ltp # NoFd => groups'[fd'[q].ltp].by = q
    <3>1. fd[q].ltp # NoFd => groups'[fd[q].ltp] = groups[fd[q].ltp]
      BY Zenon, <1>2, FdFacts
    <3>2. QED
      BY Zenon, <1>1, <3>1 DEF Owner, Holds
  <2>2. \A g \in GroupsOf(q)' : groups'[groups'[g].up] = groups[groups[g].up]
    BY Zenon, <1>2, UpFacts
  <2>3. QED
    BY Zenon, <1>1, <1>2, <2>1, <2>2 DEF Owner, Holds
<1>5. Acts(q)'
  BY Zenon, <1>1, <1>3 DEF Owner, Acts
<1>6. QED
  BY Zenon, <1>4, <1>5 DEF Owner

\* What has to be shown of a step that leaves the groups alone.
LEMMA OwnerStep ==
  ASSUME Ownership, Inv', NEW p \in Tests, Frame(p), UNCHANGED tree, Owner(p)'
  PROVE  Ownership'
<1>1. Rel(p) /\ alive' = alive
  BY Zenon, OwnerFacts, Leaving DEF tree
<1>2. \A q \in Tests : Owner(q)'
  BY Zenon, <1>1, OwnerFacts, OwnerOthers
<1>3. QED
  BY Zenon, <1>2 DEF Ownership

\* Control alone.
LEMMA HoldsKept ==
  ASSUME NEW p \in Tests, Holds(p), UNCHANGED tree,
         fd'[p].ltp = fd[p].ltp, made'[p] => made[p], conf'[p] = "made" => conf[p] = "made",
         phase'[p] = "require" => phase[p] = "require"
  PROVE  Holds(p)'
BY Zenon, SameGroups DEF Holds

\* Where a test breaks.
LEMMA OwnerBroke ==
  ASSUME NEW p \in Tests, Holds(p), UNCHANGED tree, Broke(p), scene' = scene,
         fd'[p].ltp = fd[p].ltp, made'[p] => made[p]
  PROVE  Owner(p)'
<1>1. Holds(p)'
  BY Zenon, HoldsKept DEF Broke
<1>2. Op(p)' \in {"c_read", "done"}
  BY Zenon DEF Broke
<1>3. QED
  BY Zenon, <1>1, <1>2 DEF Owner, Acts

\* Require() and Enable().
LEMMA RequireOwner ==
  ASSUME Ownership, NEW p \in Tests, Require(p) \/ Enable(p)
  PROVE  Ownership'
<1>1. /\ Frame(p) /\ (RequireDoes(p) \/ EnableDoes(p)) /\ Inv'
  BY Zenon, OwnerFacts, RequireStep, EnableStep, RequireInv, EnableInv
<1>2. /\ UNCHANGED tree /\ fd' = fd /\ made' = made /\ scene' = scene
  BY Zenon, <1>1 DEF RequireDoes, EnableDoes, lib, Frame
<1>3. Holds(p) /\ Acts(p)
  BY Zenon, OwnerFacts
<1>4. CASE Broke(p)
  BY Zenon, <1>1, <1>2, <1>3, <1>4, OwnerBroke, OwnerStep
<1>5. CASE \/ fd[p].ltp = NoFd /\ Went(p, "mk", "ltp")
           \/ fd[p].ltp # NoFd /\ Went(p, "enable", "ltp")
           \/ Op(p) = "enable" /\ Went(p, "mk", "drain")
  <2>1. Holds(p)'
    BY Zenon, <1>2, <1>3, <1>5, HoldsKept DEF Went
  <2>2. Acts(p)'
    BY Zenon, <1>2, <1>3, <1>5 DEF Went, Acts
  <2>3. QED
    BY Zenon, <1>1, <1>2, <2>1, <2>2, OwnerStep DEF Owner
<1>6. QED
  BY Zenon, <1>1, <1>4, <1>5 DEF RequireDoes, EnableDoes

\* Required(): a script writes down whether it made the ltp its group is in.
LEMMA RequiredOwner ==
  ASSUME Ownership, NEW p \in Tests, Required(p)
  PROVE  Ownership'
<1>1. Frame(p) /\ RequiredDoes(p) /\ Inv'
  BY Zenon, OwnerFacts, RequiredStep, RequiredInv
<1>2. /\ UNCHANGED tree /\ Op(p) = "required" /\ Op(p)' \in {"require", "run"}
      /\ phase'[p] = "require" => phase[p] = "require"
  BY Zenon, <1>1 DEF RequiredDoes
<1>3. Holds(p) /\ Acts(p) /\ Descriptors(p) /\ Owned(p)
  BY Zenon, OwnerFacts
<1>4. Acts(p)'
  BY Zenon, <1>2 DEF Acts
<1>5. CASE scene.kind[p] = "lib"
  <2>1. fd' = fd /\ made' = made /\ conf' = conf
    BY Zenon, <1>5 DEF Required, lib
  <2>2. Holds(p)'
    BY Zenon, <1>2, <1>3, <2>1, HoldsKept
  <2>3. QED
    BY Zenon, <1>1, <1>2, <1>4, <2>2, OwnerStep DEF Owner
<1>6. CASE scene.kind[p] # "lib"
  <2>1. ~made'[p] /\ (conf'[p] = "made" <=> made[p])
    BY Zenon, <1>1, <1>6 DEF RequiredDoes, Cleared
  <2>2. /\ GroupsOf(p) # {} /\ fd[p].ltp # NoFd
        /\ \A g \in GroupsOf(p) : groups[g].up = fd[p].ltp
    BY Zenon, <1>2, <1>3 DEF Owned, Within, Acts, Descriptors
  <2>3. made[p] => \A g \in GroupsOf(p) : groups[groups[g].up].by = p
    BY Zenon, <1>3, <2>2 DEF Holds
  <2>4. Holds(p)'
    BY Zenon, <1>2, <2>1, <2>2, <2>3, SameGroups DEF Holds
  <2>5. QED
    BY Zenon, <1>1, <1>2, <1>4, <2>4, OwnerStep DEF Owner
<1>7. QED
  BY Zenon, <1>5, <1>6

\* End(), Exit(), Joins() and Clear().
LEMMA EndOwner ==
  ASSUME Ownership, NEW p \in Tests, End(p) \/ Exit(p) \/ Joins(p) \/ Clear(p)
  PROVE  Ownership'
<1>1. Holds(p) /\ Acts(p)
  BY Zenon, OwnerFacts
<1>2. CASE End(p)
  <2>1. Frame(p) /\ EndDoes(p) /\ Inv'
    BY Zenon, <1>2, OwnerFacts, EndStep, EndInv
  <2>2. /\ UNCHANGED tree /\ fd' = fd /\ made' = made /\ conf' = conf
        /\ phase'[p] # "require"
        /\ Op(p)' = "c_read" \/ (Op(p)' = "mk" /\ Dr(p)' = "ltp")
    BY Zenon, <2>1 DEF EndDoes, lib
  <2>3. Holds(p)'
    BY Zenon, <1>1, <2>2, HoldsKept
  <2>4. Acts(p)'
    BY Zenon, <2>2 DEF Acts
  <2>5. QED
    BY Zenon, <2>1, <2>2, <2>3, <2>4, OwnerStep DEF Owner
<1>3. CASE Exit(p) \/ Joins(p)
  <2>1. Frame(p) /\ Same(p) /\ Inv'
    BY Zenon, <1>3, OwnerFacts, ExitStep, ExitInv
  <2>2. UNCHANGED tree /\ fd' = fd /\ made' = made /\ conf' = conf /\ phase' = phase
    BY Zenon, <2>1 DEF Same, lib
  <2>3. Holds(p)'
    BY Zenon, <1>1, <2>2, HoldsKept
  <2>4. Made(p)' <=> Made(p)
    BY Zenon, <2>2, SameGroups DEF Made
  <2>5. Acts(p)'
    BY Zenon, <1>1, <2>1, <2>2, <2>4 DEF Acts, Same
  <2>6. QED
    BY Zenon, <2>1, <2>2, <2>3, <2>5, OwnerStep DEF Owner
<1>4. CASE Clear(p)
  <2>1. Frame(p) /\ ClearDoes(p) /\ Inv'
    BY Zenon, <1>4, OwnerFacts, ClearStep, ClearInv
  <2>2. /\ UNCHANGED tree /\ ~made'[p] /\ conf' = conf /\ phase' = phase /\ Op(p)' = "done"
    BY Zenon, <2>1 DEF ClearDoes, Cleared
  <2>3. Holds(p)'
    BY Zenon, <1>1, <2>2, SameGroups DEF Holds
  <2>4. Acts(p)'
    BY Zenon, <2>2 DEF Acts
  <2>5. QED
    BY Zenon, <2>1, <2>2, <2>3, <2>4, OwnerStep DEF Owner
<1>5. QED
  BY Zenon, <1>2, <1>3, <1>4

\* MkDir(): we_created_it is set when the ltp is new.
LEMMA MkDirOwner ==
  ASSUME Ownership, NEW p \in Tests, NEW d \in Dirs, MkDir(p, d)
  PROVE  Ownership'
<1>1. Frame(p) /\ MkDirDoes(p, d) /\ Inv' /\ scene' = scene
  BY Zenon, OwnerFacts, MkDirStep, MkDirInv DEF Frame
<1>2. Holds(p) /\ Acts(p) /\ Descriptors(p) /\ Owned(p) /\ Control(p) /\ Tree /\ Fds
  BY Zenon, OwnerFacts
<1>3. Op(p) = "mk" /\ Dr(p) = d /\ fd' = fd
  BY Zenon, <1>1 DEF MkDirDoes
<1>4. (d = "ltp" => fd[p].ltp = NoFd) /\ (d # "ltp" => fd[p].ltp # NoFd)
  BY Zenon, <1>2, <1>3 DEF Descriptors, Acts
<1>5. CASE UNCHANGED tree /\ Broke(p) /\ (made'[p] => made[p])
  BY Zenon, <1>1, <1>2, <1>3, <1>5, OwnerBroke, OwnerStep
<1>6. CASE UNCHANGED tree /\ Went(p, "open", d) /\ made'[p] = IF d = "ltp" THEN FALSE ELSE made[p]
  <2>1. Holds(p)'
    BY Zenon, <1>2, <1>3, <1>6, HoldsKept DEF Went
  <2>2. Acts(p)'
    BY Zenon, <1>3, <1>4, <1>6 DEF Acts, Went
  <2>3. QED
    BY Zenon, <1>1, <1>6, <2>1, <2>2, OwnerStep DEF Owner
<1>7. CASE /\ IsDir(Up(p, d)) /\ Lookup(Up(p, d), Name(p, d)) = {}
           /\ groups' = Append(groups, [name |-> Name(p, d), up |-> Up(p, d), by |-> p])
           /\ alive' = alive \cup {Len(groups')}
           /\ made'[p] = (IF d = "ltp" THEN TRUE ELSE made[p]) /\ Went(p, "open", d)
  <2>1. PICK n : /\ Rel(p) /\ alive' = alive \cup {n} /\ n \notin 1 .. Len(groups)
                 /\ groups'[n].name = Name(p, d) /\ groups'[n].by = p
    BY Zenon, <1>2, <1>7, Making
  <2>2. \A g \in 1 .. Len(groups) : groups'[g] = groups[g]
    BY Zenon, <2>1 DEF Rel
  <2>3. ASSUME NEW g \in GroupsOf(p)
        PROVE  g \in GroupsOf(p)' /\ groups'[groups'[g].up] = groups[groups[g].up]
    BY Zenon, <1>2, <2>1, <2>2, <2>3, UpFacts DEF GroupsOf
  <2>4. conf[p] = "made" => d # "test"
    <3>1. SUFFICES ASSUME conf[p] = "made", d = "test" PROVE FALSE
      BY Zenon
    <3>2. PICK g \in GroupsOf(p) : groups[g].up = fd[p].ltp
      BY Zenon, <1>2, <1>3, <1>4, <3>1 DEF Holds, Control, Owned, Within, Descriptors
    <3>3. g \in Lookup(Up(p, d), Name(p, d))
      BY Zenon, <3>1, <3>2 DEF Lookup, GroupsOf, Name, Up
    <3>4. QED
      BY Zenon, <1>7, <3>3
  <2>5. d # "test" => \A g \in GroupsOf(p)' : g \in GroupsOf(p)
    <3>1. ASSUME d # "test", NEW g \in GroupsOf(p)' PROVE g \in GroupsOf(p)
      <4>1. g # n
        BY Zenon, <2>1, <3>1, CGroupAssumption DEF GroupsOf, Name, Dirs
      <4>2. g \in alive /\ g \in 1 .. Len(groups)
        BY Zenon, <1>2, <2>1, <4>1 DEF GroupsOf, Tree
      <4>3. QED
        BY Zenon, <2>2, <4>2 DEF GroupsOf
    <3>2. QED
      BY Zenon, <3>1
  <2>6. conf'[p] = conf[p] /\ phase'[p] = phase[p] /\ Op(p)' = "open" /\ Dr(p)' = d
    BY Zenon, <1>7 DEF Went
  <2>7. made'[p] /\ fd'[p].ltp # NoFd => groups'[fd'[p].ltp].by = p
    <3>1. fd[p].ltp # NoFd => groups'[fd[p].ltp] = groups[fd[p].ltp]
      BY Zenon, <1>2, <2>2, FdFacts
    <3>2. d # "ltp" => made'[p] = made[p]
      BY Zenon, <1>7
    <3>3. QED
      BY Zenon, <1>2, <1>3, <1>4, <3>1, <3>2 DEF Holds
  <2>8. conf[p] = "made" => \A g \in GroupsOf(p)' : groups'[groups'[g].up].by = p
    BY Zenon, <1>2, <2>3, <2>4, <2>5 DEF Holds
  <2>9. conf[p] = "made" /\ phase[p] = "require" => GroupsOf(p)' # {}
    BY Zenon, <1>2, <2>3 DEF Holds
  <2>10. Holds(p)'
    BY Zenon, <2>6, <2>7, <2>8, <2>9 DEF Holds
  <2>11. d = "ltp" => Made(p)'
    BY Zenon, <2>1 DEF Made, GroupsOf, Name
  <2>12. Acts(p)'
    BY Zenon, <1>3, <1>4, <2>6, <2>11 DEF Acts
  <2>13. \A q \in Tests : q # p => Owner(q)'
    BY Zenon, <1>1, <2>1, OwnerFacts, OwnerOthers
  <2>14. QED
    BY Zenon, <1>1, <2>10, <2>12, <2>13 DEF Ownership, Owner
<1>8. QED
  BY Zenon, <1>1, <1>5, <1>6, <1>7 DEF MkDirDoes

\* OpenDir(): the ltp a test has made is the one it finds, and the drain of a script's
\* ltp is opened once its group is known to be there.
LEMMA OpenDirOwner ==
  ASSUME Ownership, NEW p \in Tests, NEW d \in Dirs, OpenDir(p, d)
  PROVE  Ownership'
<1>1. Frame(p) /\ OpenDirDoes(p, d) /\ Inv' /\ scene' = scene
  BY Zenon, OwnerFacts, OpenDirStep, OpenDirInv DEF Frame
<1>2. Holds(p) /\ Acts(p) /\ Descriptors(p) /\ Owned(p) /\ Control(p) /\ Tree /\ Fds
  BY Zenon, OwnerFacts
<1>3. Op(p) = "open" /\ Dr(p) = d /\ UNCHANGED tree /\ groups' = groups /\ d \in Dirs
  BY Zenon, <1>1 DEF OpenDirDoes, tree
<1>4. CASE Broke(p) /\ UNCHANGED <<fd, made>>
  BY Zenon, <1>1, <1>2, <1>3, <1>4, OwnerBroke, OwnerStep
<1>5. CASE /\ fd'[p][d] \in Lookup(Up(p, d), Name(p, d))
           /\ \A e \in Dirs \ {d} : fd'[p][e] = fd[p][e]
           /\ Went(p, After(p, d)[1], After(p, d)[2])
           /\ made'[p] = (made[p] \/ (phase[p] = "load" /\ d = "drain" /\ conf[p] = "made"))
  <2>1. /\ conf'[p] = conf[p] /\ phase'[p] = phase[p]
        /\ Op(p)' = After(p, d)[1] /\ Dr(p)' = After(p, d)[2]
    BY Zenon, <1>5 DEF Went
  <2>2. /\ d # "ltp" => fd'[p].ltp = fd[p].ltp /\ fd[p].ltp # NoFd
        /\ d = "ltp" => fd'[p].ltp \in Lookup(Root, "ltp")
    <3>1. "ltp" \in Dirs
      BY Zenon DEF Dirs
    <3>2. QED
      BY Zenon, <1>2, <1>3, <1>5, <3>1 DEF Acts, Up, Name
  <2>3. fd'[p].ltp # NoFd
    <3>1. NoFd \notin alive
      BY Zenon, <1>2, GroupFacts, Numbers DEF Tree
    <3>2. QED
      BY Zenon, <2>2, <3>1 DEF Lookup
  <2>4. made'[p] => groups[fd'[p].ltp].by = p
    <3>1. CASE d = "ltp"
      <4>1. SUFFICES ASSUME made[p] PROVE groups[fd'[p].ltp].by = p
        BY Zenon, <1>5, <3>1
      <4>2. PICK g \in alive : groups[g].name = "ltp" /\ groups[g].by = p
        BY Zenon, <1>2, <1>3, <3>1, <4>1 DEF Acts, Made, GroupsOf
      <4>3. fd'[p].ltp = g
        BY Zenon, <1>2, <2>2, <3>1, <4>2, OneLtp DEF Lookup
      <4>4. QED
        BY Zenon, <4>2, <4>3
    <3>2. CASE d # "ltp" /\ made[p]
      BY Zenon, <1>2, <2>2, <3>2 DEF Holds
    <3>3. CASE phase[p] = "load" /\ d = "drain" /\ conf[p] = "made"
      <4>1. PICK g \in GroupsOf(p) : TRUE
        BY Zenon, <1>2, <1>3, <3>3 DEF Owned, Within
      <4>2. groups[g].up = fd[p].ltp /\ fd'[p].ltp = fd[p].ltp
        BY Zenon, <1>2, <2>2, <3>3 DEF Descriptors
      <4>3. QED
        BY Zenon, <1>2, <3>3, <4>1, <4>2 DEF Holds
    <3>4. QED
      BY Zenon, <1>5, <3>1, <3>2, <3>3
  <2>5. Holds(p)'
    BY Zenon, <1>2, <1>3, <2>1, <2>4, SameGroups DEF Holds
  <2>6. \/ Op(p)' \in {"enable", "required"} \/ Op(p)' = "mk"
        \/ Op(p)' = "c_read"
    <3>1. d = "ltp" \/ d = "drain" \/ d = "test"
      BY Zenon, <1>3 DEF Dirs
    <3>2. After(p, d)[1] \in {"enable", "required", "mk", "c_read"}
      BY <3>1, AfterFacts
    <3>3. QED
      BY Zenon, <2>1, <3>2
  <2>7. Acts(p)'
    BY Zenon, <2>3, <2>6 DEF Acts
  <2>8. QED
    BY Zenon, <1>1, <1>3, <2>5, <2>7, OwnerStep DEF Owner
<1>6. QED
  BY Zenon, <1>1, <1>4, <1>5 DEF OpenDirDoes

\* DrainRead() and DrainMove(): the drain is emptied by who has we_created_it set.
LEMMA DrainOwner ==
  ASSUME Ownership, NEW p \in Tests, NEW d \in Dirs, DrainRead(p, d) \/ DrainMove(p, d)
  PROVE  Ownership'
<1>1. Frame(p) /\ (DrainReadDoes(p, d) \/ DrainMoveDoes(p, d)) /\ Inv' /\ scene' = scene
  BY Zenon, OwnerFacts, DrainReadStep, DrainMoveStep, DrainReadInv, DrainMoveInv DEF Frame
<1>2. Holds(p) /\ Acts(p) /\ Control(p) /\ d \in {"ltp", "drain", "test"}
  BY Zenon, OwnerFacts DEF Dirs
<1>3. UNCHANGED tree /\ fd' = fd /\ made' = made /\ Dr(p) = d
  BY Zenon, <1>1 DEF DrainReadDoes, DrainMoveDoes, lib
<1>4. CASE Broke(p)
  BY Zenon, <1>1, <1>2, <1>3, <1>4, OwnerBroke, OwnerStep
<1>5. CASE \/ Went(p, "c_read", "drain") \/ Went(p, "clear", "")
           \/ (d = "drain" => made[p]) /\ d # "ltp" /\ Went(p, "c_move", d)
           \/ Op(p) = "c_move" /\ (Went(p, "c_rm", d) \/ Went(p, "c_move", d))
  <2>1. Holds(p)'
    BY Zenon, <1>2, <1>3, <1>5, HoldsKept DEF Went
  <2>2. Op(p) = "c_move" => d # "ltp" /\ (d # "test" => made[p])
    BY Zenon, <1>2, <1>3 DEF Control, Acts
  <2>3. Acts(p)'
    BY Zenon, <1>2, <1>3, <1>5, <2>2 DEF Went, Acts
  <2>4. QED
    BY Zenon, <1>1, <1>3, <2>1, <2>3, OwnerStep DEF Owner
<1>6. QED
  BY Zenon, <1>1, <1>4, <1>5 DEF DrainReadDoes, DrainMoveDoes

\* What Remove() removes: the group of the test, the drain of an ltp it made, or that.
LEMMA Removed ==
  ASSUME Ownership, NEW p \in Tests, NEW d \in Dirs, Remove(p, d), NEW g \in alive,
         g \notin alive'
  PROVE  /\ d = "test" => groups[g].by = p
         /\ d = "drain" => /\ groups[g].up \in alive /\ groups[g].up # Root /\ made[p]
                           /\ groups[groups[g].up].name = "ltp"
                           /\ groups[groups[g].up].by = p
         /\ d = "ltp" => groups[g].by = p
         /\ g \in 1 .. Len(groups) /\ g # Root /\ groups[g].name = Name(p, d)
<1>1. RemoveDoes(p, d) /\ Tree /\ Fds /\ Holds(p) /\ Acts(p) /\ Descriptors(p)
  BY Zenon, OwnerFacts, RemoveStep
<1>2. /\ g \in alive /\ groups[g].name = Name(p, d) /\ groups[g].up = Up(p, d)
      /\ Op(p) = "c_rm" /\ Dr(p) = d
  BY Zenon, <1>1 DEF RemoveDoes, Removable, Lookup
<1>3. g \in 1 .. Len(groups) /\ g # Root /\ NoFd \notin Nat /\ groups[g].up \in Nat
  BY Zenon, <1>1, <1>2, GroupFacts, Numbers DEF Tree
<1>4. d = "test" => groups[g].by = p
  BY Zenon, <1>1, <1>2, <1>3 DEF Tree, Name
<1>5. ASSUME d = "drain"
      PROVE  /\ groups[g].up \in alive /\ groups[g].up # Root /\ made[p]
             /\ groups[groups[g].up].name = "ltp" /\ groups[groups[g].up].by = p
  <2>1. groups[g].up = fd[p].ltp /\ groups[g].name = "drain" /\ made[p]
    BY Zenon, <1>1, <1>2, <1>5 DEF Up, Name, Acts
  <2>2. fd[p].ltp # NoFd
    BY Zenon, <1>3, <2>1
  <2>3. groups[g].up # Root
    BY Zenon, <1>1, <1>3, <2>1 DEF Tree
  <2>4. QED
    BY Zenon, <1>1, <1>2, <1>3, <2>1, <2>2, <2>3 DEF Tree, Holds, IsDir
<1>6. ASSUME d = "ltp" PROVE groups[g].by = p
  <2>1. PICK h \in alive : groups[h].name = "ltp" /\ groups[h].by = p
    BY Zenon, <1>1, <1>2, <1>6 DEF Acts, Made, GroupsOf
  <2>2. groups[g].name = "ltp"
    BY Zenon, <1>2, <1>6 DEF Name
  <2>3. QED
    BY Zenon, <1>1, <1>2, <2>1, <2>2, OneLtp
<1>7. QED
  BY Zenon, <1>2, <1>3, <1>4, <1>5, <1>6

\* Remove().
LEMMA RemoveOwner ==
  ASSUME Ownership, NEW p \in Tests, NEW d \in Dirs, Remove(p, d)
  PROVE  Ownership'
<1>1. Frame(p) /\ RemoveDoes(p, d) /\ Inv' /\ scene' = scene
  BY Zenon, OwnerFacts, RemoveStep, RemoveInv DEF Frame
<1>2. Holds(p) /\ Acts(p) /\ Descriptors(p) /\ Control(p) /\ Tree /\ Fds
  BY Zenon, OwnerFacts
<1>3. groups' = groups /\ fd' = fd /\ made' = made /\ Op(p) = "c_rm" /\ Dr(p) = d
  BY Zenon, <1>1 DEF RemoveDoes, lib
<1>4. CASE Broke(p) /\ UNCHANGED alive
  <2>1. UNCHANGED tree
    BY Zenon, <1>3, <1>4 DEF tree
  <2>2. QED
    BY Zenon, <1>1, <1>2, <1>3, <1>4, <2>1, OwnerBroke, OwnerStep
<1>5. CASE /\ Removable(p, d) # {} /\ alive' = alive \ Removable(p, d)
           /\ d = "test" => Went(p, "c_read", "drain")
           /\ d = "drain" => Went(p, "c_rm", "ltp")
           /\ d = "ltp" => Went(p, "clear", "")
  <2>1. Rel(p)
    BY Zenon, <1>2, <1>3, <1>5, Removing
  <2>2. d \in {"ltp", "drain", "test"} /\ phase[p] # "require"
    BY Zenon, <1>2, <1>3 DEF Dirs, Control
  <2>3. conf' = conf /\ phase' = phase
    BY Zenon, <1>5, <2>2 DEF Went
  <2>4. \A g \in GroupsOf(p)' : g \in GroupsOf(p)
    BY Zenon, <1>3, <1>5 DEF GroupsOf
  <2>5. Holds(p)'
    BY Zenon, <1>2, <1>3, <2>2, <2>3, <2>4 DEF Holds
  <2>6. ASSUME d = "drain" PROVE made[p] /\ Made(p)'
    <3>1. PICK g \in alive : g \notin alive'
      BY Zenon, <1>5 DEF Removable, Lookup
    <3>2. /\ groups[g].up \in alive /\ groups[groups[g].up].name = "ltp"
          /\ groups[groups[g].up].by = p /\ made[p]
      BY <2>6, <3>1, Removed
    <3>3. groups[g].up \in alive'
      <4>1. \A h \in alive : h \notin alive' => groups[h].name = "drain"
        BY <2>6, Removed DEF Name
      <4>2. QED
        BY Zenon, <3>2, <4>1
    <3>4. QED
      BY Zenon, <1>3, <3>2, <3>3 DEF Made, GroupsOf
  <2>7. Acts(p)'
    BY Zenon, <1>3, <1>5, <2>2, <2>6 DEF Acts, Went
  <2>8. \A g \in alive \ alive' : groups[g].name = "ltp" => groups[g].by = p
    <3>1. "drain" # "ltp" /\ p # "ltp"
      BY Zenon, CGroupAssumption
    <3>2. ASSUME NEW g \in alive, g \notin alive', groups[g].name = "ltp" PROVE groups[g].by = p
      <4>1. groups[g].name = Name(p, d) /\ (d = "ltp" => groups[g].by = p)
        BY <3>2, Removed
      <4>2. d = "ltp"
        BY Zenon, <2>2, <3>1, <3>2, <4>1 DEF Name
      <4>3. QED
        BY Zenon, <4>1, <4>2
    <3>3. QED
      BY Zenon, <3>2
  <2>9. \A q \in Tests : q # p => Owner(q)'
    BY Zenon, <1>1, <1>2, <2>1, <2>8, OwnerFacts, OwnerOthers
  <2>10. QED
    BY Zenon, <1>1, <2>5, <2>7, <2>9 DEF Ownership, Owner
<1>6. QED
  BY Zenon, <1>1, <1>4, <1>5 DEF RemoveDoes

\* Steps that change nothing keep it.
LEMMA StutterOwner ==
  ASSUME Ownership, UNCHANGED vars
  PROVE  Ownership'
<1>1. /\ groups' = groups /\ alive' = alive /\ pc' = pc /\ phase' = phase
      /\ fd' = fd /\ made' = made /\ conf' = conf
  BY Zenon DEF vars
<1>2. ASSUME NEW p \in Tests PROVE Owner(p)'
  <2>1. /\ Op(p)' = Op(p) /\ Dr(p)' = Dr(p) /\ (Made(p)' <=> Made(p))
        /\ GroupsOf(p)' = GroupsOf(p)
    BY Zenon, <1>1 DEF Op, Dr, GroupsOf, Made
  <2>2. Holds(p)' /\ Acts(p)'
    BY Zenon, <1>1, <2>1, OwnerFacts DEF Holds, Acts
  <2>3. QED
    BY Zenon, <2>2 DEF Owner
<1>3. QED
  BY Zenon, <1>2, StutterInv DEF Ownership

\* It holds in every behaviour of the tests.
THEOREM OwnershipInvariant == Spec => []Ownership
<1>1. Init => Ownership
  <2> SUFFICES ASSUME Init PROVE Ownership
    OBVIOUS
  <2>1. ASSUME NEW p \in Tests PROVE Owner(p)
    <3>1. Op(p) \in {"done", "require"} /\ ~made[p] /\ conf[p] # "made"
      BY Zenon, InitTypes
    <3>2. QED
      BY Zenon, <3>1 DEF Owner, Holds, Acts
  <2>2. QED
    BY Zenon, <2>1, InitInv DEF Ownership
<1>2. Ownership /\ [Next]_vars => Ownership'
  <2> SUFFICES ASSUME Ownership, [Next]_vars PROVE Ownership'
    OBVIOUS
  <2>1. CASE UNCHANGED vars
    BY Zenon, <2>1, StutterOwner
  <2>2. ASSUME NEW p \in Tests, Step(p) \/ Joins(p) PROVE Ownership'
    <3>1. CASE Require(p) \/ Enable(p) \/ Required(p)
      BY Zenon, <3>1, RequireOwner, RequiredOwner
    <3>2. CASE End(p) \/ Exit(p) \/ Clear(p) \/ Joins(p)
      BY Zenon, <3>2, EndOwner
    <3>3. ASSUME NEW d \in Dirs, \/ MkDir(p, d) \/ OpenDir(p, d) \/ DrainRead(p, d)
                                 \/ DrainMove(p, d) \/ Remove(p, d)
          PROVE  Ownership'
      BY Zenon, <3>3, MkDirOwner, OpenDirOwner, DrainOwner, RemoveOwner
    <3>4. QED
      BY Zenon, <2>2, <3>1, <3>2, <3>3 DEF Step
  <2>3. QED
    BY Zenon, <2>1, <2>2 DEF Next
<1>3. QED
  BY <1>1, <1>2, PTL DEF Spec

\* tst_cg_cleanup() takes no group from a test that works below somebody else's ltp: it
\* removes the test's own group, or a shared one of the ltp the test has made.
THEOREM RemovesBelowOwnHolds == Spec => RemovesBelowOwn
<1> DEFINE Removes == \A p \in Tests, d \in Dirs : Remove(p, d) =>
                        \A g \in alive \ alive' :
                          \E h \in {g, groups[g].up} \ {Root} : groups[h].by = p
<1>1. Ownership => Removes
  <2> SUFFICES ASSUME Ownership, NEW p \in Tests, NEW d \in Dirs, Remove(p, d),
                      NEW g \in alive, g \notin alive'
               PROVE  \E h \in {g, groups[g].up} \ {Root} : groups[h].by = p
    BY Zenon
  <2>1. d \in {"ltp", "drain", "test"}
    BY Zenon DEF Dirs
  <2>2. /\ d = "drain" => groups[g].up # Root /\ groups[groups[g].up].by = p
        /\ d # "drain" => groups[g].by = p
        /\ g # Root
    BY <2>1, Removed
  <2>3. CASE d = "drain"
    BY Zenon, <2>2, <2>3
  <2>4. CASE d # "drain"
    BY Zenon, <2>2, <2>4
  <2>5. QED
    BY Zenon, <2>3, <2>4
<1>2. QED
  BY <1>1, OwnershipInvariant, PTL DEF RemovesBelowOwn
=============================================================================
