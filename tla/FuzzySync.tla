----------------------------- MODULE FuzzySync ------------------------------
(***************************************************************************)
(* The fuzzy synchronisation pair of include/tst_fuzzy_sync.h: thread A    *)
(* (the test) and thread B (the racer) meet at a spin barrier three times  *)
(* per loop (run, start_race, end_race).  The barrier counts arrivals in   *)
(* two ints that are folded back to zero when one reaches INT_MAX.         *)
(*                                                                         *)
(* Each atomic load, store and increment of the counters is one step; the  *)
(* two loads of a loop condition are two steps.  Times, statistics and the *)
(* value of the delay are left out: what matters about those plain fields  *)
(* is who touches them when (PlainFieldsExclusive).                        *)
(***************************************************************************)
EXTENDS Integers

CONSTANTS
  INT_MAX,    \* where the counters fold back; 2^31-1 in the code
  ExecLoops,  \* pair->exec_loops
  MaxUses     \* how often the test resets and reuses the pair (model bound)

ASSUME IntMaxAssumption == INT_MAX \in Nat /\ INT_MAX >= 2
ASSUME ExecLoopsAssumption == ExecLoops \in Nat
ASSUME MaxUsesAssumption == MaxUses \in Nat

Thread == {"a", "b"}

Other(t) == IF t = "a" THEN "b" ELSE "a"

VARIABLES
  pc,         \* control point of each thread
  call,       \* the fzsync function each thread is in
  cntr,       \* a_cntr and b_cntr: t spins on cntr[t] and increments the other
  our,        \* the first load of the comparison our_cntr < other_cntr
  exit,       \* pair->exit
  thread_b,   \* pair->thread_b is set: B has to be joined
  exec_loop,  \* pair->exec_loop
  uses,       \* resets so far
  arrived     \* history: barrier calls entered since the last reset

vars == <<pc, call, cntr, our, exit, thread_b, exec_loop, uses, arrived>>

\* Everything but the control points.
data == <<call, cntr, our, exit, thread_b, exec_loop, uses, arrived>>

\* Control points inside tst_fzsync_pair_wait, after the increment.
Waiting == {"pos", "max", "spinw", "zero", "low", "our", "cmp", "spinn"}

Control == Waiting \cup {"inc", "ret", "entry", "upd", "race", "cleanup",
                         "join", "out", "off"}

TypeOK ==
  /\ pc \in [Thread -> Control]
  /\ call \in [Thread -> {"reset", "run", "start", "end", "stop"}]
  /\ cntr \in [Thread -> 0..INT_MAX]
  /\ our \in [Thread -> 0..INT_MAX]
  /\ exit \in BOOLEAN
  /\ thread_b \in BOOLEAN
  /\ exec_loop \in Nat
  /\ uses \in 0..MaxUses
  /\ arrived \in [Thread -> Nat]

Init ==
  /\ pc = [t \in Thread |-> IF t = "a" THEN "out" ELSE "off"]
  /\ call = [t \in Thread |-> IF t = "a" THEN "stop" ELSE "run"]
  /\ cntr = [t \in Thread |-> 0]
  /\ our = [t \in Thread |-> 0]
  /\ exit = FALSE
  /\ thread_b = FALSE
  /\ exec_loop = 0
  /\ uses = 0
  /\ arrived = [t \in Thread |-> 0]

Goto(t, p) == pc' = [pc EXCEPT ![t] = p]

Enters(t, c, p) == Goto(t, p) /\ call' = [call EXCEPT ![t] = c]

-----------------------------------------------------------------------------
(* tst_fzsync_pair_wait *)

\* Mutant of Increment: the value before the increment is compared.
IncrementPost(t) ==
  /\ pc[t] = "inc"
  /\ cntr' = [cntr EXCEPT ![Other(t)] = @ + 1]
  /\ Goto(t, IF cntr[Other(t)] = INT_MAX THEN "pos" ELSE "our")
  /\ arrived' = [arrived EXCEPT ![t] = @ + 1]
  /\ UNCHANGED <<call, our, exit, thread_b, exec_loop, uses>>

\* if (tst_atomic_inc(other_cntr) == INT_MAX): which of the two loops to take.
Increment(t) ==
  /\ pc[t] = "inc"
  /\ cntr' = [cntr EXCEPT ![Other(t)] = @ + 1]
  /\ Goto(t, IF cntr'[Other(t)] = INT_MAX THEN "pos" ELSE "our")
  /\ arrived' = [arrived EXCEPT ![t] = @ + 1]
  /\ UNCHANGED <<call, our, exit, thread_b, exec_loop, uses>>

\* Mutant of WrapPositive: the counter is folded without waiting.
WrapAtOnce(t) == pc[t] = "pos" /\ Goto(t, "zero") /\ UNCHANGED data

\* while (load(our_cntr) > 0 && load(our_cntr) < INT_MAX && !load(exit))
WrapPositive(t) ==
  /\ pc[t] = "pos"
  /\ Goto(t, IF cntr[t] > 0 THEN "max" ELSE "zero")
  /\ UNCHANGED data

WrapBelowMax(t) ==
  /\ pc[t] = "max"
  /\ Goto(t, IF cntr[t] < INT_MAX THEN "spinw" ELSE "zero")
  /\ UNCHANGED data

\* !load(exit), then (*spins)++ in an end_race call.
WrapSpin(t) ==
  /\ pc[t] = "spinw"
  /\ Goto(t, IF exit THEN "zero" ELSE "pos")
  /\ UNCHANGED data

StoreZero(t) ==
  /\ pc[t] = "zero"
  /\ cntr' = [cntr EXCEPT ![Other(t)] = 0]
  /\ Goto(t, "low")
  /\ UNCHANGED <<call, our, exit, thread_b, exec_loop, uses, arrived>>

\* Mutant of WaitLow: does not wait for the other thread's fold.
FoldAndGo(t) == pc[t] = "low" /\ Goto(t, "ret") /\ UNCHANGED data

\* while (load(our_cntr) > 1 && !load(exit)) ; spinning is stuttering.
WaitLow(t) ==
  /\ pc[t] = "low"
  /\ cntr[t] <= 1 \/ exit
  /\ Goto(t, "ret")
  /\ UNCHANGED data

\* while (load(our_cntr) < load(other_cntr) && !load(exit))
LoadOur(t) ==
  /\ pc[t] = "our"
  /\ our' = [our EXCEPT ![t] = cntr[t]]
  /\ Goto(t, "cmp")
  /\ UNCHANGED <<call, cntr, exit, thread_b, exec_loop, uses, arrived>>

\* Mutant of Compare: lets a thread run one barrier ahead.
CompareOff(t) ==
  /\ pc[t] = "cmp"
  /\ Goto(t, IF our[t] + 1 < cntr[Other(t)] THEN "spinn" ELSE "ret")
  /\ UNCHANGED data

Compare(t) ==
  /\ pc[t] = "cmp"
  /\ Goto(t, IF our[t] < cntr[Other(t)] THEN "spinn" ELSE "ret")
  /\ UNCHANGED data

\* Mutant of Spin: the exit flag is not looked at.
SpinOn(t) == pc[t] = "spinn" /\ Goto(t, "our") /\ UNCHANGED data

Spin(t) ==
  /\ pc[t] = "spinn"
  /\ Goto(t, IF exit THEN "ret" ELSE "our")
  /\ UNCHANGED data

PairWait(t) ==
  \/ Increment(t) \/ WrapPositive(t) \/ WrapBelowMax(t) \/ WrapSpin(t)
  \/ StoreZero(t) \/ WaitLow(t) \/ LoadOur(t) \/ Compare(t) \/ Spin(t)

-----------------------------------------------------------------------------
(* Thread A *)

\* tst_fzsync_pair_reset starts with tst_fzsync_pair_cleanup.
BeginReset ==
  /\ pc["a"] = "out" /\ uses < MaxUses
  /\ Enters("a", "reset", "cleanup")
  /\ uses' = uses + 1
  /\ UNCHANGED <<cntr, our, exit, thread_b, exec_loop, arrived>>

\* tst_fzsync_pair_cleanup up to the join.
PairCleanup ==
  /\ pc["a"] = "cleanup"
  /\ exit' = (exit \/ thread_b)
  /\ Goto("a", IF thread_b THEN "join" ELSE "ret")
  /\ UNCHANGED <<call, cntr, our, thread_b, exec_loop, uses, arrived>>

JoinB ==
  /\ pc["a"] = "join" /\ pc["b"] = "off"
  /\ thread_b' = FALSE
  /\ Goto("a", "ret")
  /\ UNCHANGED <<call, cntr, our, exit, exec_loop, uses, arrived>>

\* The rest of tst_fzsync_pair_reset: zero the fields and create thread B,
\* whose body starts with tst_fzsync_run_b.
PairReset ==
  /\ pc["a"] = "ret" /\ call["a"] = "reset"
  /\ cntr' = [t \in Thread |-> 0]
  /\ exit' = FALSE
  /\ exec_loop' = 0
  /\ thread_b' = TRUE
  /\ pc' = [t \in Thread |-> IF t = "a" THEN "entry" ELSE "inc"]
  /\ call' = [t \in Thread |-> "run"]
  /\ arrived' = [t \in Thread |-> 0]
  /\ UNCHANGED <<our, uses>>

\* tst_fzsync_run_a up to its wait: out of time, or out of loops.
RunA ==
  /\ pc["a"] = "entry"
  /\ exec_loop' = exec_loop + 1
  /\ \E out_of_time \in BOOLEAN :
       exit' = (exit \/ out_of_time \/ exec_loop' > ExecLoops)
  /\ Enters("a", "run", "inc")
  /\ UNCHANGED <<cntr, our, thread_b, uses, arrived>>

\* tst_fzsync_run_a after its wait.
RunAReturns ==
  /\ pc["a"] = "ret" /\ call["a"] = "run"
  /\ IF exit THEN Enters("a", "stop", "cleanup") ELSE Enters("a", "start", "upd")
  /\ UNCHANGED <<cntr, our, exit, thread_b, exec_loop, uses, arrived>>

\* tst_fzsync_pair_update: reads b_start and b_end, writes delay and spins.
PairUpdate ==
  /\ pc["a"] = "upd"
  /\ Goto("a", "inc")
  /\ UNCHANGED data

EndRaceAReturns ==
  /\ pc["a"] = "ret" /\ call["a"] = "end"
  /\ Goto("a", "entry")
  /\ UNCHANGED data

StopReturns ==
  /\ pc["a"] = "ret" /\ call["a"] = "stop"
  /\ Goto("a", "out")
  /\ UNCHANGED data

\* "Revoke thread B if parent hits accidental break": the test leaves its
\* loop between two calls and its cleanup function runs pair_cleanup.
Break ==
  /\ pc["a"] \in {"race", "entry"}
  /\ Enters("a", "stop", "cleanup")
  /\ UNCHANGED <<cntr, our, exit, thread_b, exec_loop, uses, arrived>>

-----------------------------------------------------------------------------
(* Both threads around the race region *)

\* start_race returns: t reads delay, spins it off and records its start time.
StartRaceReturns(t) ==
  /\ pc[t] = "ret" /\ call[t] = "start"
  /\ Goto(t, "race")
  /\ UNCHANGED data

\* end_race records the end time and waits.
EndRace(t) ==
  /\ pc[t] = "race"
  /\ Enters(t, "end", "inc")
  /\ UNCHANGED <<cntr, our, exit, thread_b, exec_loop, uses, arrived>>

-----------------------------------------------------------------------------
(* Thread B *)

RunBReturns ==
  /\ pc["b"] = "ret" /\ call["b"] = "run"
  /\ IF exit THEN Enters("b", "run", "off") ELSE Enters("b", "start", "inc")
  /\ UNCHANGED <<cntr, our, exit, thread_b, exec_loop, uses, arrived>>

EndRaceBReturns ==
  /\ pc["b"] = "ret" /\ call["b"] = "end"
  /\ Enters("b", "run", "inc")
  /\ UNCHANGED <<cntr, our, exit, thread_b, exec_loop, uses, arrived>>

ThreadA ==
  \/ PairWait("a") \/ PairCleanup \/ JoinB \/ PairReset \/ RunA
  \/ RunAReturns \/ PairUpdate \/ StartRaceReturns("a") \/ EndRace("a")
  \/ EndRaceAReturns \/ StopReturns

ThreadB ==
  \/ PairWait("b") \/ RunBReturns \/ StartRaceReturns("b") \/ EndRace("b")
  \/ EndRaceBReturns

Next == ThreadA \/ ThreadB \/ BeginReset \/ Break

\* Two runnable threads of one process: the scheduler runs both, and a lone
\* CPU is given away by sched_yield (yield_in_wait).
Fairness == WF_vars(ThreadA) /\ WF_vars(ThreadB)

Spec == Init /\ [][Next]_vars /\ Fairness

-----------------------------------------------------------------------------
(* Properties *)

\* The barrier the header promises, with the exit flag as its release.
Barrier == INSTANCE Rendezvous WITH
  inside <- [t \in Thread |-> pc[t] \in Waiting],
  open <- exit

\* tst_fzsync_pair_wait implements the two-party barrier through every fold
\* of the counters at INT_MAX: no thread leaves its n-th call before the other
\* has entered its n-th, unless exit was requested.
ImplementsBarrier == Barrier!RSpec

\* t is about to execute (*spins)++ on the pair's shared spin counter.
WritesSpins(t) == call[t] = "end" /\ pc[t] \in {"spinw", "spinn"}

\* delay, spins and the time stamps are plain fields shared by both threads.
\* While A updates them B neither reads the delay nor writes its time stamps
\* or the spin counter, and the two never count spins at the same time.
PlainFieldsExclusive ==
  /\ pc["a"] = "upd" => pc["b"] # "race" /\ ~WritesSpins("b")
  /\ ~(WritesSpins("a") /\ WritesSpins("b"))

\* While A is in its race region B is between the start and the end of the
\* same race: never in the loop head before it or in the race after it.
SameRace ==
  /\ pc["a"] = "race" => call["b"] \in {"start", "end"}
  /\ pc["a"] = "race" /\ pc["b"] = "race" => arrived["a"] = arrived["b"]

\* tst_fzsync_pair_reset never zeroes the counters under a running thread B.
ResetAlone ==
  [][PairReset => pc["b"] = "off"]_vars

\* Once exit is requested B leaves its loop, whatever it was waiting for, and
\* A's join returns: the test ends.
ExitEnds == exit ~> (pc["a"] = "out" /\ pc["b"] = "off")

\* Without an exit request no barrier call blocks for ever: both threads
\* always get to the next call.
WaitReturns == \A t \in Thread : (pc[t] \in Waiting) ~> (pc[t] \notin Waiting)

=============================================================================
