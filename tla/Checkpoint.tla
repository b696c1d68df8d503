----------------------------- MODULE Checkpoint -----------------------------
(***************************************************************************)
(* The checkpoints of lib/tst_checkpoint.c: wait and wake between the      *)
(* processes of a test, on an array of futexes in the shared ipc region.   *)
(*                                                                         *)
(* Each process works off a script of calls.  The futex words are never    *)
(* written, so FUTEX_WAIT never returns EAGAIN and a checkpoint is just    *)
(* the set of processes asleep on it: a wake that comes too early is lost  *)
(* and tst_checkpoint_wake() has to try again.  Every process has a clock  *)
(* of its own (milliseconds slept in FUTEX_WAIT or in usleep): nothing is  *)
(* assumed about how long a process takes between two system calls.        *)
(***************************************************************************)
EXTENDS Naturals, Sequences, FiniteSets

CONSTANTS
  Proc,
  Scripts,               \* the tests considered: functions from Proc to calls
  Flags,                 \* the two fields of struct tst_test that matter here
  MaxFutexes,            \* futexes that fit into the ipc region
  DEFAULT_MSEC_TIMEOUT,
  MaxKills               \* processes that are killed (model bound)

WaitCall == [kind : {"wait"}, id : Nat, msec : Nat, safe : BOOLEAN]
WakeCall == [kind : {"wake"}, id : Nat, nr : Nat, msec : Nat, safe : BOOLEAN]
ImageCall == [kind : {"exec", "reinit"}]

ASSUME ScriptsAssumption ==
  /\ IsFiniteSet(Proc)
  /\ \A s \in Scripts : \A p \in Proc :
       s[p] \in Seq(WaitCall \cup WakeCall \cup ImageCall)
ASSUME FutexAssumption == MaxFutexes \in Nat \ {0}
ASSUME TimeAssumption == DEFAULT_MSEC_TIMEOUT \in Nat \ {0}
ASSUME BoundAssumption == MaxKills \in Nat
ASSUME FlagAssumption ==
  Flags \subseteq [needs_checkpoints : BOOLEAN, child_needs_reinit : BOOLEAN]

VARIABLES
  script, tst_test, \* the test that runs
  op,               \* which call of its script each process is at
  at,               \* where in the call it is
  tst_max_futexes,  \* 0 until the process has mapped the ipc region
  left,             \* FUTEX_WAIT: milliseconds until the kernel gives up
  msecs, waked,     \* the locals of tst_checkpoint_wake()
  ret,              \* what the calls have returned
  released,         \* which wake call ended which wait call (history)
  kills             \* how many processes have been killed

vars == <<script, tst_test, op, at, tst_max_futexes, left, msecs, waked, ret,
          released, kills>>

test == <<script, tst_test>>

Call(p) == script[p][op[p]]

\* The timeout a call works with: the safe wrappers put in the default.
Timeout(c) ==
  IF c.safe /\ (c.kind = "wake" \/ c.msec = 0) THEN DEFAULT_MSEC_TIMEOUT ELSE c.msec

Init ==
  /\ script \in Scripts
  /\ tst_test \in Flags
  /\ op = [p \in Proc |-> 1]
  /\ at = [p \in Proc |-> "call"]
  /\ tst_max_futexes = [p \in Proc |->
       IF tst_test.needs_checkpoints THEN MaxFutexes ELSE 0]
  /\ left = [p \in Proc |-> 0]
  /\ msecs = [p \in Proc |-> 0]
  /\ waked = [p \in Proc |-> 0]
  /\ ret = [p \in Proc |-> <<>>]
  /\ released = {}
  /\ kills = 0

Returned(p, r) == ret' = [ret EXCEPT ![p] = Append(@, r)]

\* tst_brkm(TBROK): the process exits inside the call.
Brok(p) ==
  /\ Returned(p, "TBROK")
  /\ at' = [at EXCEPT ![p] = "dead"]
  /\ UNCHANGED op

\* The call returns; the safe wrappers turn an error into TBROK.
Return(p, r) ==
  IF r # "ok" /\ Call(p).safe
  THEN Brok(p)
  ELSE /\ Returned(p, r)
       /\ at' = [at EXCEPT ![p] = "call"]
       /\ op' = [op EXCEPT ![p] = @ + 1]

Calls(p, kinds) ==
  /\ at[p] = "call"
  /\ op[p] <= Len(script[p])
  /\ Call(p).kind \in kinds

Goto(p, l) == at' = [at EXCEPT ![p] = l] /\ UNCHANGED <<op, ret>>

-----------------------------------------------------------------------------
\* execve(2): the mapping and the library's variables are gone.
Exec(p) ==
  /\ Calls(p, {"exec"})
  /\ Returned(p, "ok")
  /\ op' = [op EXCEPT ![p] = @ + 1]
  /\ tst_max_futexes' = [tst_max_futexes EXCEPT ![p] = 0]
  /\ UNCHANGED <<test, at, left, msecs, waked, released, kills>>

\* tst_reinit(): maps the region named by the environment, if there is one.
Reinit(p) ==
  /\ Calls(p, {"reinit"})
  /\ IF tst_test.needs_checkpoints \/ tst_test.child_needs_reinit
     THEN /\ Returned(p, "ok")
          /\ op' = [op EXCEPT ![p] = @ + 1]
          /\ tst_max_futexes' = [tst_max_futexes EXCEPT ![p] = MaxFutexes]
          /\ UNCHANGED at
     ELSE Brok(p) /\ UNCHANGED tst_max_futexes
  /\ UNCHANGED <<test, left, msecs, waked, released, kills>>

\* Mutant: waked is static and goes on from the last call.
LocalsStatic(p) ==
  /\ msecs' = [msecs EXCEPT ![p] = 0]
  /\ UNCHANGED waked

\* The locals of a call start afresh.
Locals(p) ==
  /\ msecs' = [msecs EXCEPT ![p] = 0]
  /\ waked' = [waked EXCEPT ![p] = 0]

\* tst_checkpoint_wait() and tst_checkpoint_wake() up to their loops.
Begin(p) ==
  /\ Calls(p, {"wait", "wake"})
  /\ \/ tst_max_futexes[p] = 0 /\ Brok(p)
     \/ /\ tst_max_futexes[p] > 0
        /\ Call(p).id >= tst_max_futexes[p]
        /\ Return(p, "EOVERFLOW")
     \/ Call(p).id < tst_max_futexes[p] /\ Goto(p, Call(p).kind)
  /\ Locals(p)
  /\ UNCHANGED <<test, tst_max_futexes, left, released, kills>>

\* The process queues up on the futex, with the whole timeout ahead of it.
FutexWait(p) ==
  /\ at[p] = "wait"
  /\ Goto(p, "asleep")
  /\ left' = [left EXCEPT ![p] = Timeout(Call(p))]
  /\ UNCHANGED <<test, tst_max_futexes, msecs, waked, released, kills>>

SleepTick(p) ==
  /\ at[p] = "asleep"
  /\ left[p] > 0
  /\ left' = [left EXCEPT ![p] = @ - 1]
  /\ UNCHANGED <<test, op, at, tst_max_futexes, msecs, waked, ret, released, kills>>

\* FUTEX_WAIT returns -1, ETIMEDOUT, and so does tst_checkpoint_wait().
TimedOut(p) ==
  /\ at[p] = "asleep"
  /\ left[p] = 0
  /\ Return(p, "ETIMEDOUT")
  /\ UNCHANGED <<test, tst_max_futexes, left, msecs, waked, released, kills>>

\* FUTEX_WAIT returns -1, EINTR, as often as signals come: the loop calls it again.
Interrupted(p) ==
  /\ at[p] = "asleep"
  /\ Goto(p, "wait")
  /\ UNCHANGED <<test, tst_max_futexes, left, msecs, waked, released, kills>>

\* FUTEX_WAIT returns 0.
WaitReturns(p) ==
  /\ at[p] = "woken"
  /\ Return(p, "ok")
  /\ UNCHANGED <<test, tst_max_futexes, left, msecs, waked, released, kills>>

Sleepers(id) == {q \in Proc : at[q] = "asleep" /\ Call(q).id = id}

\* Mutant: more than the number asked for will do.
EnoughAtLeast(p, n) == n >= Call(p).nr

\* The wake succeeds with exactly the number asked for.
Enough(p, n) == n = Call(p).nr

\* FUTEX_WAKE with INT_MAX takes every sleeper off the futex and says how
\* many there were; the loop goes on unless the sum is enough.
FutexWake(p) ==
  LET woken == Sleepers(Call(p).id)
      n == waked[p] + Cardinality(woken)
      awake == [q \in Proc |-> IF q \in woken THEN "woken" ELSE at[q]]
  IN /\ at[p] = "wake"
     /\ waked' = [waked EXCEPT ![p] = n]
     /\ released' = released \cup {[waiter |-> <<q, op[q]>>, waker |-> <<p, op[p]>>] :
                                     q \in woken}
     /\ IF Enough(p, n)
        THEN /\ Returned(p, "ok")
             /\ at' = [awake EXCEPT ![p] = "call"]
             /\ op' = [op EXCEPT ![p] = @ + 1]
        ELSE /\ at' = [awake EXCEPT ![p] = "nap"]
             /\ UNCHANGED <<ret, op>>
     /\ UNCHANGED <<test, tst_max_futexes, left, msecs, kills>>

\* Mutant: the naps are not counted.
NapForever(p) ==
  /\ at[p] = "nap"
  /\ IF msecs[p] + 1 > Timeout(Call(p))
     THEN Return(p, "ETIMEDOUT")
     ELSE Goto(p, "wake")
  /\ UNCHANGED <<test, tst_max_futexes, left, msecs, waked, released, kills>>

\* usleep(1000), count it, and give up or try again.
Nap(p) ==
  /\ at[p] = "nap"
  /\ msecs' = [msecs EXCEPT ![p] = @ + 1]
  /\ IF msecs[p] + 1 >= Timeout(Call(p))
     THEN Return(p, "ETIMEDOUT")
     ELSE Goto(p, "wake")
  /\ UNCHANGED <<test, tst_max_futexes, left, waked, released, kills>>

\* A process is killed: the kernel takes it off the futex.
Killed(p) ==
  /\ at[p] # "dead"
  /\ op[p] <= Len(script[p])
  /\ kills < MaxKills
  /\ kills' = kills + 1
  /\ at' = [at EXCEPT ![p] = "dead"]
  /\ UNCHANGED <<test, op, tst_max_futexes, left, msecs, waked, ret,
                 released>>

Done(p) == at[p] = "dead" \/ op[p] > Len(script[p])

Finished == (\A p \in Proc : Done(p)) /\ UNCHANGED vars

Step(p) ==
  \/ Exec(p) \/ Reinit(p) \/ Begin(p)
  \/ FutexWait(p) \/ SleepTick(p) \/ TimedOut(p) \/ WaitReturns(p)
  \/ FutexWake(p) \/ Nap(p)

Next == Finished \/ \E p \in Proc : Step(p) \/ Interrupted(p) \/ Killed(p)

\* The scheduler runs every process and the kernel's timers expire.
Fairness == \A p \in Proc : WF_vars(Step(p))

Spec == Init /\ [][Next]_vars /\ Fairness

-----------------------------------------------------------------------------
\* Types, and the wake loop's clock: a wake that goes on has napped for less
\* than its timeout.
TypeOK ==
  /\ script \in Scripts /\ tst_test \in Flags
  /\ \A p \in Proc :
       /\ op[p] \in 1..(Len(script[p]) + 1)
       /\ at[p] \in {"call", "wait", "asleep", "woken", "wake", "nap", "dead"}
       /\ tst_max_futexes[p] \in {0, MaxFutexes}
       /\ left[p] \in Nat /\ waked[p] \in Nat
       /\ at[p] \in {"wake", "nap"} => msecs[p] = 0 \/ msecs[p] < Timeout(Call(p))
       /\ Len(ret[p]) <= Len(script[p])
  /\ kills \in 0..MaxKills

Results(p, kind, r) == {k \in DOMAIN ret[p] : script[p][k].kind = kind /\ ret[p][k] = r}

WakeExact ==
  \A p \in Proc : \A k \in Results(p, "wake", "ok") :
    LET ended == {r \in released : r.waker = <<p, k>>}
    IN /\ Cardinality(ended) = script[p][k].nr
       /\ \A r \in ended : script[r.waiter[1]][r.waiter[2]].id = script[p][k].id

WaitHeld ==
  \A p \in Proc : \A k \in Results(p, "wait", "ok") :
    Cardinality({r \in released : r.waiter = <<p, k>>}) = 1

\* tst_checkpoint_wake() that returns 0 has ended exactly nr_wake waits, all of
\* them on its own checkpoint, whatever the other processes waited for, woke,
\* missed or died of in the meantime.  A process passes tst_checkpoint_wait()
\* with 0 only because one wake call, and only one, has ended this very wait:
\* neither a signal nor a timeout nor an earlier wake lets it through.
Matched == TypeOK /\ WakeExact /\ WaitHeld

Waits(p, id) == {k \in DOMAIN script[p] : script[p][k].kind = "wait" /\ script[p][k].id = id}

Rivals(p, id) == {q \in Proc \ {p} : Waits(q, id) # {}}

\* A wake that cannot meet more waits than it asks for: either the test makes
\* at most nr_wake waits on the checkpoint, or one is asked for and only one
\* other process ever waits there (a handshake, however often it is repeated).
Disciplined(p) ==
  LET id == Call(p).id
      others == Rivals(p, id)
  IN \/ Cardinality(UNION {{q} \X Waits(q, id) : q \in others}) <= Call(p).nr
     \/ Call(p).nr = 1 /\ Cardinality(others) = 1

\* Such a wake never counts past nr_wake, so that it can still succeed: a test
\* that uses its checkpoints this way breaks only by running out of time.  Any
\* other wake may let go more sleepers than nr_wake (FUTEX_WAKE with INT_MAX) and
\* then fails, though doc/old/C-Test-API.asciidoc:778 says that it "can be used
\* to wake precisely 'nr_wake' processes".
NoOvershoot ==
  \A p \in Proc :
    at[p] \in {"wake", "nap"} /\ Disciplined(p) => waked[p] <= Call(p).nr

\* Every call of the process has a timeout.
Timed(p) ==
  \A k \in DOMAIN script[p] :
    script[p][k].kind \in {"wait", "wake"} => Timeout(script[p][k]) > 0

\* Every wait and every wake that is given a timeout comes to an end, though
\* partners are late, break or are killed: only signals that interrupt a wait for
\* ever keep it from giving up.  (They do: tst_checkpoint_wait() passes the whole
\* timeout anew after each EINTR, so that the 10 seconds of
\* include/tst_checkpoint.h:29 are counted from the last signal.  A call with
\* msec_timeout 0 is left out: include/tst_checkpoint_fn.h:13,22 say that it has no
\* timeout, while the code gives up at once.)
EveryCallReturns ==
  \A p \in Proc : Timed(p) => <>Done(p) \/ []<><<Interrupted(p)>>_vars

=============================================================================
