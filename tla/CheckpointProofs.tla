-------------------------- MODULE CheckpointProofs --------------------------
(* The checkpoints of a test, for any number of processes, scripts, futexes,   *)
(* timeouts and deaths: where the processes are in their calls of     *)
(* tst_checkpoint_wait() and tst_checkpoint_wake(), and which wake ended which *)
(* wait.                                                                       *)
EXTENDS Checkpoint, TLAPS

Places == {"call", "wait", "asleep", "woken", "wake", "nap", "dead"}
Values == {"ok", "TBROK", "EOVERFLOW", "ETIMEDOUT"}
Calling == Seq(WaitCall \cup WakeCall \cup ImageCall)

-----------------------------------------------------------------------------
(* Where a process is, and what its calls have returned.                    *)

Typed ==
  /\ script \in Scripts /\ tst_test \in Flags
  /\ op \in [Proc -> Nat \ {0}] /\ at \in [Proc -> Places]
  /\ tst_max_futexes \in [Proc -> {0, MaxFutexes}]
  /\ left \in [Proc -> Nat]
  /\ msecs \in [Proc -> Nat] /\ waked \in [Proc -> Nat]
  /\ ret \in [Proc -> Seq(Values)]
  /\ kills \in 0..MaxKills

\* A process is inside the call its script is at, and has a result of each call
\* before it; one that broke has the result of the call it broke in.
Place(p) ==
  /\ op[p] <= Len(script[p]) + 1
  /\ at[p] # "call" => op[p] <= Len(script[p])
  /\ at[p] \in {"wait", "asleep", "woken"} => Call(p).kind = "wait"
  /\ at[p] \in {"wake", "nap"} =>
       Call(p).kind = "wake" /\ (msecs[p] = 0 \/ msecs[p] < Timeout(Call(p)))
  /\ \/ Len(ret[p]) = op[p] - 1
     \/ at[p] = "dead" /\ Len(ret[p]) = op[p] /\ ret[p][op[p]] = "TBROK"

ControlInv == Typed /\ \A p \in Proc : Place(p)

\* The test starts with every process before its first call.
LEMMA ControlInit == Init => ControlInv
<1> SUFFICES ASSUME Init PROVE ControlInv
  OBVIOUS
<1>1. Typed
  <2>1. <<>> \in Seq(Values)
    OBVIOUS
  <2>2. QED
    BY <2>1, FutexAssumption, BoundAssumption DEF Init, Typed, Places
<1>2. ASSUME NEW p \in Proc PROVE Place(p)
  <2>1. Len(script[p]) \in Nat
    BY ScriptsAssumption DEF Init
  <2>2. op[p] = 1 /\ at[p] = "call" /\ ret[p] = <<>>
    BY Zenon DEF Init
  <2>3. Len(ret[p]) = 0
    BY <2>2
  <2>4. QED
    BY <2>1, <2>2, <2>3 DEF Place
<1>3. QED
  BY Zenon, <1>1, <1>2 DEF ControlInv

\* The calls of a script are calls, and their timeouts are numbers.
LEMMA CallType ==
  ASSUME ControlInv, NEW p \in Proc
  PROVE  /\ script[p] \in Calling /\ Len(script[p]) \in Nat
         /\ op[p] <= Len(script[p]) => Call(p) \in WaitCall \cup WakeCall \cup ImageCall
         /\ op[p] <= Len(script[p]) /\ Call(p).kind \in {"wait", "wake"} =>
              Timeout(Call(p)) \in Nat /\ Call(p).id \in Nat
<1>1. script[p] \in Calling /\ Len(script[p]) \in Nat
  BY ScriptsAssumption DEF ControlInv, Typed, Calling
<1>2. op[p] <= Len(script[p]) => Call(p) \in WaitCall \cup WakeCall \cup ImageCall
  BY <1>1 DEF ControlInv, Typed, Calling, Call
<1>3. QED
  BY Zenon, <1>1, <1>2, TimeAssumption DEF Timeout, WaitCall, WakeCall, ImageCall

\* A result is added at the end.
LEMMA Appended ==
  ASSUME NEW s \in Seq(Values), NEW r \in Values
  PROVE  /\ Append(s, r) \in Seq(Values) /\ Len(Append(s, r)) = Len(s) + 1
         /\ Append(s, r)[Len(s) + 1] = r
         /\ \A k \in 1..Len(s) : Append(s, r)[k] = s[k]
OBVIOUS

\* What a step of p leaves alone.
Others(p) ==
  \A q \in Proc \ {p} :
    op'[q] = op[q] /\ at'[q] = at[q] /\ ret'[q] = ret[q] /\ waked'[q] = waked[q]
      /\ msecs'[q] = msecs[q]

\* A call returns, or breaks the process.
Ends(p, r) ==
  \/ at'[p] = "call" /\ op'[p] = op[p] + 1 /\ ret'[p] = Append(ret[p], r)
  \/ at'[p] = "dead" /\ op'[p] = op[p] /\ ret'[p] = Append(ret[p], "TBROK")

Positions ==
  op' \in [Proc -> Nat \ {0}] /\ at' \in [Proc -> Places] /\ ret' \in [Proc -> Seq(Values)]

\* A return, a break and a change of image are all ends of a call.
LEMMA EndFacts ==
  ASSUME ControlInv, NEW p \in Proc, NEW r \in Values,
         Return(p, r) \/ Brok(p) \/ (/\ Returned(p, r) /\ op' = [op EXCEPT ![p] = @ + 1]
                                     /\ at' = at /\ at[p] = "call")
  PROVE  /\ Positions /\ Ends(p, r)
         /\ \A q \in Proc \ {p} : op'[q] = op[q] /\ at'[q] = at[q] /\ ret'[q] = ret[q]
<1>1. Append(ret[p], r) \in Seq(Values) /\ Append(ret[p], "TBROK") \in Seq(Values)
  BY Zenon, Appended DEF ControlInv, Typed, Values
<1>2. op \in [Proc -> Nat \ {0}] /\ at \in [Proc -> Places] /\ ret \in [Proc -> Seq(Values)]
  BY Zenon DEF ControlInv, Typed
<1>3. CASE Brok(p)
  BY Zenon, <1>1, <1>2, <1>3 DEF Brok, Returned, Positions, Ends, Places
<1>4. CASE /\ Returned(p, r) /\ op' = [op EXCEPT ![p] = @ + 1]
           /\ at' = [at EXCEPT ![p] = "call"]
  BY <1>1, <1>2, <1>4 DEF Returned, Positions, Ends, Places
<1>5. CASE Returned(p, r) /\ op' = [op EXCEPT ![p] = @ + 1] /\ at' = at /\ at[p] = "call"
  BY <1>1, <1>2, <1>5 DEF Returned, Positions, Ends, Places
<1>6. QED
  BY Zenon, <1>3, <1>4, <1>5 DEF Return

\* Where a call that ends leaves the process.
LEMMA EndPlace ==
  ASSUME ControlInv, NEW p \in Proc, NEW r \in Values, Ends(p, r), script' = script,
         at[p] # "dead", op[p] <= Len(script[p])
  PROVE  Place(p)'
<1>1. Len(ret[p]) = op[p] - 1 /\ op[p] \in Nat \ {0} /\ ret[p] \in Seq(Values)
  BY DEF ControlInv, Typed, Place
<1>2. Len(script[p]) \in Nat
  BY Zenon, CallType
<1>3. /\ Len(Append(ret[p], r)) = op[p] /\ Len(Append(ret[p], "TBROK")) = op[p]
      /\ Append(ret[p], "TBROK")[op[p]] = "TBROK"
  BY <1>1, Appended DEF Values
<1>4. CASE at'[p] = "call" /\ op'[p] = op[p] + 1 /\ ret'[p] = Append(ret[p], r)
  <2>1. Len(ret'[p]) = op'[p] - 1 /\ op'[p] <= Len(script'[p]) + 1
    BY <1>1, <1>2, <1>3, <1>4
  <2>2. QED
    BY Zenon, <1>4, <2>1 DEF Place
<1>5. CASE at'[p] = "dead" /\ op'[p] = op[p] /\ ret'[p] = Append(ret[p], "TBROK")
  <2>1. op'[p] <= Len(script'[p]) /\ op'[p] <= Len(script'[p]) + 1
    BY <1>1, <1>2, <1>5
  <2>2. Len(ret'[p]) = op'[p] /\ ret'[p][op'[p]] = "TBROK"
    BY Zenon, <1>3, <1>5
  <2>3. QED
    BY Zenon, <1>5, <2>1, <2>2 DEF Place
<1>6. QED
  BY Zenon, <1>4, <1>5 DEF Ends

\* A process whose state a step leaves alone stays in its place.
LEMMA OtherPlaces ==
  ASSUME ControlInv, NEW p \in Proc, Others(p), script' = script
  PROVE  \A q \in Proc \ {p} : Place(q)'
BY DEF ControlInv, Place, Others, Call

\* The sleepers on a futex are so many.
Counted == \A id : Cardinality(Sleepers(id)) \in Nat

\* Every step of tst_checkpoint_wait(), tst_checkpoint_wake() and their callers keeps
\* the processes in place.
LEMMA ControlStep == Counted /\ ControlInv /\ [Next]_vars => ControlInv'
<1> SUFFICES ASSUME Counted, ControlInv, [Next]_vars PROVE ControlInv'
  OBVIOUS
<1>1. CASE UNCHANGED vars
  BY Zenon, <1>1 DEF vars, ControlInv, Typed, Place, Call
<1>2. ASSUME NEW p \in Proc, Step(p) \/ Interrupted(p) \/ Killed(p) PROVE ControlInv'
  <2> USE <1>2
  <2>0. /\ Typed /\ Place(p) /\ Len(script[p]) \in Nat
        /\ op[p] <= Len(script[p]) /\ Call(p).kind \in {"wait", "wake"} =>
             Timeout(Call(p)) \in Nat /\ Call(p).id \in Nat
    BY Zenon, CallType DEF ControlInv
  <2>1. CASE Exec(p) \/ Reinit(p)
    <3>1. \E r \in Values : Return(p, r) \/ Brok(p) \/
            (/\ Returned(p, r) /\ op' = [op EXCEPT ![p] = @ + 1] /\ at' = at /\ at[p] = "call")
      BY Zenon, <2>1 DEF Exec, Reinit, Calls, Values
    <3>2. PICK r \in Values : Positions /\ Ends(p, r) /\
            \A q \in Proc \ {p} : op'[q] = op[q] /\ at'[q] = at[q] /\ ret'[q] = ret[q]
      BY Zenon, <3>1, EndFacts
    <3>3. /\ at[p] = "call" /\ op[p] <= Len(script[p])
          /\ UNCHANGED <<test, left, msecs, waked, kills>>
          /\ tst_max_futexes' \in [Proc -> {0, MaxFutexes}]
      BY <2>0, <2>1, Zenon DEF Exec, Reinit, Calls, Typed
    <3>4. Place(p)'
      BY Zenon, <3>2, <3>3, EndPlace DEF test
    <3>5. Others(p) /\ script' = script
      BY Zenon, <3>2, <3>3 DEF Others, test
    <3>6. Typed'
      BY Zenon, <2>0, <3>2, <3>3 DEF Typed, Positions, test
    <3>7. QED
      BY Zenon, <3>4, <3>5, <3>6, OtherPlaces DEF ControlInv
  <2>2. CASE Begin(p)
    <3>1. /\ at[p] = "call" /\ op[p] <= Len(script[p]) /\ Call(p).kind \in {"wait", "wake"}
          /\ UNCHANGED <<test, left, kills, tst_max_futexes>> /\ Locals(p)
      BY Zenon, <2>2 DEF Begin, Calls
    <3>2. /\ msecs' \in [Proc -> Nat] /\ waked' \in [Proc -> Nat]
          /\ msecs'[p] = 0
          /\ \A q \in Proc \ {p} : msecs'[q] = msecs[q] /\ waked'[q] = waked[q]
      BY Zenon, <3>1, <2>0 DEF Locals, Typed
    <3>3. CASE Goto(p, Call(p).kind)
      <4>1. Others(p) /\ script' = script
        BY Zenon, <2>0, <3>1, <3>2, <3>3 DEF Others, test, Goto, Typed
      <4>2. Place(p)'
        BY <2>0, <3>1, <3>2, <3>3, Zenon DEF Place, Goto, Typed, test, Call
      <4>3. Typed'
        BY <2>0, <3>1, <3>2, <3>3, Zenon DEF Typed, Goto, test, Places
      <4>4. QED
        BY Zenon, <4>1, <4>2, <4>3, OtherPlaces DEF ControlInv
    <3>4. CASE Brok(p) \/ Return(p, "EOVERFLOW")
      <4>1. Positions /\ Ends(p, "EOVERFLOW") /\
            \A q \in Proc \ {p} : op'[q] = op[q] /\ at'[q] = at[q] /\ ret'[q] = ret[q]
        BY Zenon, <3>4, EndFacts DEF Values
      <4>2. Place(p)'
        BY Zenon, <3>1, <4>1, EndPlace DEF test, Values
      <4>3. Others(p) /\ script' = script
        BY Zenon, <3>1, <3>2, <4>1 DEF Others, test
      <4>4. Typed'
        BY <2>0, <3>1, <3>2, <4>1, Zenon DEF Typed, Positions, test
      <4>5. QED
        BY Zenon, <4>2, <4>3, <4>4, OtherPlaces DEF ControlInv
    <3>5. QED
      BY Zenon, <2>2, <3>3, <3>4 DEF Begin
  <2>3. CASE FutexWait(p) \/ SleepTick(p) \/ Interrupted(p) \/ Killed(p)
    <3>1. /\ Others(p) /\ script' = script /\ UNCHANGED <<op, ret, msecs, waked>>
      BY Zenon, <2>0, <2>3
        DEF FutexWait, SleepTick, Interrupted, Killed, Others, Goto, test, Typed
    <3>2. /\ \/ at[p] \in {"wait", "asleep"} /\ at'[p] \in {"wait", "asleep"}
             \/ at'[p] = "dead" /\ op[p] <= Len(script[p]) /\ at[p] # "dead"
          /\ at' \in [Proc -> Places]
      BY <2>0, <2>3, Zenon DEF FutexWait, SleepTick, Interrupted, Killed, Goto, Typed, Places
    <3>3. /\ left' \in [Proc -> Nat] /\ kills' \in 0..MaxKills
          /\ UNCHANGED <<tst_test, tst_max_futexes>>
      <4>1. CASE FutexWait(p)
        BY Zenon, <2>0, <4>1 DEF FutexWait, Typed, Place, test
      <4>2. CASE SleepTick(p)
        BY SMTT(60), <2>0, <4>2 DEF SleepTick, Typed, test
      <4>3. CASE Interrupted(p)
        BY <2>0, <4>3, BoundAssumption DEF Interrupted, Typed, test
      <4>4. CASE Killed(p)
        BY <2>0, <4>4, BoundAssumption, SMTT(40) DEF Killed, Typed, test
      <4>5. QED
        BY Zenon, <2>3, <4>1, <4>2, <4>3, <4>4
    <3>4. Place(p)'
      BY Zenon, <2>0, <3>1, <3>2 DEF Place, Call
    <3>5. Typed'
      BY Zenon, <2>0, <3>1, <3>2, <3>3 DEF Typed
    <3>6. QED
      BY Zenon, <3>1, <3>4, <3>5, OtherPlaces DEF ControlInv
  <2>4. CASE TimedOut(p) \/ WaitReturns(p)
    <3>1. PICK r \in Values : Return(p, r)
      BY Zenon, <2>4 DEF TimedOut, WaitReturns, Values
    <3>2. Positions /\ Ends(p, r) /\
            \A q \in Proc \ {p} : op'[q] = op[q] /\ at'[q] = at[q] /\ ret'[q] = ret[q]
      BY Zenon, <3>1, EndFacts
    <3>3. /\ at[p] \in {"asleep", "woken"}
          /\ UNCHANGED <<test, tst_max_futexes, left, msecs, waked, kills>>
      BY Zenon, <2>4 DEF TimedOut, WaitReturns
    <3>4. Place(p)'
      BY Zenon, <2>0, <3>2, <3>3, EndPlace DEF test, Place
    <3>5. Others(p) /\ script' = script
      BY Zenon, <3>2, <3>3 DEF Others, test
    <3>6. Typed'
      BY Zenon, <2>0, <3>2, <3>3 DEF Typed, Positions, test
    <3>7. QED
      BY Zenon, <3>4, <3>5, <3>6, OtherPlaces DEF ControlInv
  <2>5. CASE Nap(p)
    <3>1. /\ at[p] = "nap" /\ msecs' = [msecs EXCEPT ![p] = @ + 1]
          /\ UNCHANGED <<test, tst_max_futexes, left, waked, kills>>
      BY Zenon, <2>5 DEF Nap
    <3>2. msecs' \in [Proc -> Nat] /\ msecs'[p] = msecs[p] + 1
          /\ \A q \in Proc \ {p} : msecs'[q] = msecs[q]
      BY <3>1, <2>0 DEF Typed
    <3>3. CASE Return(p, "ETIMEDOUT")
      <4>1. Positions /\ Ends(p, "ETIMEDOUT") /\
            \A q \in Proc \ {p} : op'[q] = op[q] /\ at'[q] = at[q] /\ ret'[q] = ret[q]
        BY Zenon, <3>3, EndFacts DEF Values
      <4>2. Place(p)'
        BY Zenon, <2>0, <3>1, <4>1, EndPlace DEF test, Place, Values
      <4>3. Others(p) /\ script' = script
        BY Zenon, <3>1, <3>2, <4>1 DEF Others, test
      <4>4. Typed'
        BY Zenon, <2>0, <3>1, <3>2, <4>1 DEF Typed, Positions, test
      <4>5. QED
        BY Zenon, <4>2, <4>3, <4>4, OtherPlaces DEF ControlInv
    <3>4. CASE ~(msecs[p] + 1 >= Timeout(Call(p))) /\ Goto(p, "wake")
      <4>1. Others(p) /\ script' = script
        BY Zenon, <2>0, <3>1, <3>2, <3>4 DEF Others, test, Goto, Typed
      <4>2. msecs'[p] < Timeout(Call(p))
        BY <2>0, <3>1, <3>2, <3>4 DEF Typed, Place
      <4>3. Place(p)'
        BY Zenon, <2>0, <3>1, <4>2, <3>4 DEF Place, Goto, Typed, test, Call
      <4>4. Typed'
        BY Zenon, <2>0, <3>1, <3>2, <3>4 DEF Typed, Goto, test, Places
      <4>5. QED
        BY Zenon, <4>1, <4>3, <4>4, OtherPlaces DEF ControlInv
    <3>5. QED
      BY Zenon, <2>5, <3>3, <3>4 DEF Nap
  <2>6. CASE FutexWake(p)
    <3> DEFINE woken == Sleepers(Call(p).id)
               n == waked[p] + Cardinality(woken)
               awake == [q \in Proc |-> IF q \in woken THEN "woken" ELSE at[q]]
    <3>1. Cardinality(woken) \in Nat
      BY Zenon DEF Counted
    <3>2. /\ at[p] = "wake" /\ waked' = [waked EXCEPT ![p] = n]
          /\ UNCHANGED <<test, tst_max_futexes, left, msecs, kills>>
          /\ \/ Returned(p, "ok") /\ at' = [awake EXCEPT ![p] = "call"]
                /\ op' = [op EXCEPT ![p] = @ + 1]
             \/ at' = [awake EXCEPT ![p] = "nap"] /\ UNCHANGED <<ret, op>>
      BY Zenon, <2>6 DEF FutexWake
    <3>3. /\ at' \in [Proc -> Places]
          /\ \A q \in Proc \ {p} : at'[q] = at[q] \/ (at[q] = "asleep" /\ at'[q] = "woken")
      BY <2>0, <3>2, Zenon DEF Typed, Places, Sleepers
    <3>4. waked' \in [Proc -> Nat]
      BY <2>0, <3>1, <3>2, SMTT(40) DEF Typed
    <3>5. Append(ret[p], "ok") \in Seq(Values) /\ Append(ret[p], "TBROK") \in Seq(Values)
      BY Zenon, <2>0, Appended DEF Typed, Values
    <3>6. op' \in [Proc -> Nat \ {0}] /\ ret' \in [Proc -> Seq(Values)]
      <4>1. CASE UNCHANGED <<ret, op>>
        BY Zenon, <2>0, <4>1 DEF Typed
      <4>2. CASE Returned(p, "ok") /\ op' = [op EXCEPT ![p] = @ + 1]
        BY SMTT(60), <2>0, <3>5, <4>2 DEF Typed, Returned
      <4>3. QED
        BY Zenon, <3>2, <4>1, <4>2
    <3>7. Typed'
      BY Zenon, <2>0, <3>2, <3>3, <3>4, <3>6 DEF Typed, test
    <3>8. \A q \in Proc \ {p} : op'[q] = op[q] /\ ret'[q] = ret[q]
      BY Zenon, <2>0, <3>2 DEF Typed, Returned
    <3>9. ASSUME NEW q \in Proc \ {p} PROVE Place(q)'
      <4>1. Place(q)
        BY Zenon DEF ControlInv
      <4>2. QED
        BY Zenon, <4>1, <3>2, <3>3, <3>8 DEF Place, Call, test
    <3>10. Place(p)'
      <4>1. CASE at' = [awake EXCEPT ![p] = "nap"] /\ UNCHANGED <<ret, op>>
        <5>1. at'[p] = "nap"
          BY Zenon, <2>0, <4>1 DEF Typed
        <5>2. QED
          BY Zenon, <2>0, <3>2, <4>1, <5>1 DEF Place, Call, test
      <4>2. CASE Returned(p, "ok") /\ at' = [awake EXCEPT ![p] = "call"]
                /\ op' = [op EXCEPT ![p] = @ + 1]
        <5>1. Ends(p, "ok")
          BY Zenon, <2>0, <4>2 DEF Typed, Ends, Returned
        <5>2. QED
          BY Zenon, <2>0, <3>2, <5>1, EndPlace DEF Values, Place, test
      <4>3. QED
        BY Zenon, <3>2, <4>1, <4>2
    <3>11. QED
      BY Zenon, <3>7, <3>9, <3>10 DEF ControlInv
  <2>7. QED
    BY Zenon, <2>1, <2>2, <2>3, <2>4, <2>5, <2>6 DEF Step
<1>3. QED
  BY Zenon, <1>1, <1>2 DEF Next, Finished

-----------------------------------------------------------------------------
(* Which wake ended which wait.                                              *)

EndedBy(R, p, k) == {r \in R : r.waker = <<p, k>>}
EndsOf(R, q, k) == {r \in R : r.waiter = <<q, k>>}
SameId(S, R, p, k) ==
  \A r \in EndedBy(R, p, k) : S[r.waiter[1]][r.waiter[2]].id = S[p][k].id

\* A wake has ended as many waits as it has counted, and none before it has begun;
\* a wait has been ended once when it is woken and not before.
Exact(p) ==
  /\ \A k \in Nat : k > op[p] => EndedBy(released, p, k) = {} /\ EndsOf(released, p, k) = {}
  /\ at[p] \in {"call", "wait", "asleep", "woken"} => EndedBy(released, p, op[p]) = {}
  /\ at[p] \in {"call", "wait", "asleep", "wake", "nap"} => EndsOf(released, p, op[p]) = {}
  /\ at[p] \in {"wake", "nap"} =>
       Cardinality(EndedBy(released, p, op[p])) = waked[p] /\ SameId(script, released, p, op[p])
  /\ at[p] = "woken" => Cardinality(EndsOf(released, p, op[p])) = 1
  /\ \A k \in Results(p, "wake", "ok") :
       Cardinality(EndedBy(released, p, k)) = script[p][k].nr /\ SameId(script, released, p, k)
  /\ \A k \in Results(p, "wait", "ok") : Cardinality(EndsOf(released, p, k)) = 1

ReleaseInv ==
  /\ IsFiniteSet(released)
  /\ released \subseteq [waiter : Proc \X Nat, waker : Proc \X Nat]
  /\ \A p \in Proc : Exact(p)

\* The results of a process grow by one.
LEMMA NewResult ==
  ASSUME ControlInv, NEW p \in Proc, NEW r \in Values, ret'[p] = Append(ret[p], r),
         script' = script, at[p] # "dead"
  PROVE  \A kind : Results(p, kind, "ok")' \subseteq
           Results(p, kind, "ok") \cup
             (IF r = "ok" /\ script[p][op[p]].kind = kind THEN {op[p]} ELSE {})
<1>1. /\ ret[p] \in Seq(Values) /\ Len(ret[p]) = op[p] - 1 /\ op[p] \in Nat \ {0}
  BY DEF ControlInv, Typed, Place
<1>2. /\ DOMAIN ret[p] = 1..(op[p] - 1) /\ DOMAIN ret'[p] = 1..op[p]
      /\ ret'[p][op[p]] = r /\ \A k \in 1..(op[p] - 1) : ret'[p][k] = ret[p][k]
  BY <1>1, Appended
<1>3. QED
  BY <1>1, <1>2 DEF Results

\* A process whose step wakes nobody: the others are as they were.
LEMMA OtherExact ==
  ASSUME ControlInv, ReleaseInv, NEW p \in Proc, Others(p), script' = script,
         released' = released
  PROVE  \A q \in Proc \ {p} : Exact(q)'
<1> SUFFICES ASSUME NEW q \in Proc \ {p} PROVE Exact(q)'
  OBVIOUS
<1>1. Exact(q) /\ op'[q] = op[q] /\ at'[q] = at[q] /\ waked'[q] = waked[q] /\ ret'[q] = ret[q]
  BY Zenon DEF ReleaseInv, Others
<1>2. QED
  BY ZenonT(60), <1>1 DEF Exact, Results, SameId

\* A call that ends without a success of its own, or moves on.
LEMMA EndExact ==
  ASSUME ControlInv, ReleaseInv, NEW p \in Proc, NEW r \in Values, Ends(p, r), script' = script,
         released' = released, at[p] # "dead",
         r = "ok" => /\ Call(p).kind # "wake"
                     /\ Call(p).kind = "wait" => Cardinality(EndsOf(released, p, op[p])) = 1
  PROVE  Exact(p)'
<1>1. Exact(p) /\ op[p] \in Nat
  BY Zenon DEF ReleaseInv, ControlInv, Typed
<1>2. CASE at'[p] = "call" /\ op'[p] = op[p] + 1 /\ ret'[p] = Append(ret[p], r)
  <2>1. \A kind \in {"wake", "wait"} : Results(p, kind, "ok")' \subseteq
           Results(p, kind, "ok") \cup
             (IF r = "ok" /\ script[p][op[p]].kind = kind THEN {op[p]} ELSE {})
    BY Zenon, <1>2, NewResult
  <2>0. op'[p] = op[p] + 1 /\ at'[p] = "call" /\ op'[p] \in Nat
    BY <1>1, <1>2
  <2>6. \A k \in Nat : k > op[p] => EndedBy(released, p, k) = {} /\ EndsOf(released, p, k) = {}
    BY Zenon, <1>1 DEF Exact
  <2>2. \A k \in Nat : k >= op'[p] => EndedBy(released, p, k) = {} /\ EndsOf(released, p, k) = {}
    BY <1>1, <2>0, <2>6
  <2>7. \A k \in Results(p, "wake", "ok") :
          Cardinality(EndedBy(released, p, k)) = script[p][k].nr /\ SameId(script, released, p, k)
    BY Zenon, <1>1 DEF Exact
  <2>3. \A k \in Results(p, "wake", "ok")' : k \in Results(p, "wake", "ok")
    BY Zenon, <2>1 DEF Call
  <2>4. \A k \in Results(p, "wait", "ok")' : Cardinality(EndsOf(released, p, k)) = 1
    BY Zenon, <1>1, <2>1 DEF Exact, Call
  <2>5. EndedBy(released, p, op'[p]) = {} /\ EndsOf(released, p, op'[p]) = {}
    BY <2>0, <2>2
  <2>8. \A k \in Nat : k > op'[p] => EndedBy(released, p, k) = {} /\ EndsOf(released, p, k) = {}
    BY <2>0, <2>2
  <2>9. QED
    BY Zenon, <2>0, <2>7, <2>3, <2>4, <2>5, <2>8 DEF Exact
<1>3. CASE at'[p] = "dead" /\ op'[p] = op[p] /\ ret'[p] = Append(ret[p], "TBROK")
  <2>1. \A kind : Results(p, kind, "ok")' \subseteq Results(p, kind, "ok")
    BY Zenon, <1>3, NewResult DEF Values
  <2>2. QED
    BY Zenon, <1>1, <1>3, <2>1 DEF Exact, SameId
<1>4. QED
  BY Zenon, <1>2, <1>3 DEF Ends

\* The sleepers a FUTEX_WAKE of p meets, and the waits it ends.
Met(p) == Sleepers(Call(p).id)
NewEnd(p, q) == [waiter |-> <<q, op[q]>>, waker |-> <<p, op[p]>>]
NewEnds(p) == {NewEnd(p, q) : q \in Met(p)}
After(p) == released \cup NewEnds(p)

\* The account after a FUTEX_WAKE of p: its sum is right, each sleeper is ended once,
\* and the calls before these keep what they had.
Adds(p) ==
  /\ IsFiniteSet(After(p)) /\ After(p) \subseteq [waiter : Proc \X Nat, waker : Proc \X Nat]
  /\ Cardinality(EndedBy(After(p), p, op[p])) = waked[p] + Cardinality(Met(p))
  /\ SameId(script, After(p), p, op[p])
  /\ \A q \in Proc : \A k \in Nat :
       q # p \/ k # op[p] => EndedBy(After(p), q, k) = EndedBy(released, q, k)
  /\ \A q \in Proc : \A k \in Nat :
       q \notin Met(p) \/ k # op[q] => EndsOf(After(p), q, k) = EndsOf(released, q, k)
  /\ \A q \in Met(p) : Cardinality(EndsOf(After(p), q, op[q])) = 1

\* FUTEX_WAKE with INT_MAX keeps the account of who ended whom.
LEMMA WakeStep ==
  ASSUME ControlInv, ReleaseInv, NEW p \in Proc, FutexWake(p), Adds(p)
  PROVE  ReleaseInv'
<1> DEFINE W == Met(p)
           n == waked[p] + Cardinality(W)
           awake == [q \in Proc |-> IF q \in W THEN "woken" ELSE at[q]]
<1>1. /\ at[p] = "wake" /\ released' = After(p) /\ script' = script
      /\ waked' = [waked EXCEPT ![p] = n]
      /\ \/ /\ n = Call(p).nr /\ ret' = [ret EXCEPT ![p] = Append(@, "ok")]
            /\ at' = [awake EXCEPT ![p] = "call"] /\ op' = [op EXCEPT ![p] = @ + 1]
         \/ at' = [awake EXCEPT ![p] = "nap"] /\ UNCHANGED <<ret, op>>
  BY Zenon DEF FutexWake, Enough, Returned, test, Met, NewEnds, NewEnd, After
<1>2. /\ IsFiniteSet(released')
      /\ released' \subseteq [waiter : Proc \X Nat, waker : Proc \X Nat]
      /\ Cardinality(EndedBy(released', p, op[p])) = n
      /\ SameId(script, released', p, op[p])
      /\ \A q \in Proc : \A k \in Nat :
           q # p \/ k # op[p] => EndedBy(released', q, k) = EndedBy(released, q, k)
      /\ \A q \in Proc : \A k \in Nat :
           q \notin W \/ k # op[q] => EndsOf(released', q, k) = EndsOf(released, q, k)
      /\ \A q \in W : Cardinality(EndsOf(released', q, op[q])) = 1
  BY Zenon, <1>1 DEF Adds
<1>3. Typed /\ W \subseteq Proc /\ p \notin W /\ \A q \in W : at[q] = "asleep"
  BY Zenon, <1>1 DEF Met, Sleepers, ControlInv
<1> HIDE DEF W
<1>4. ASSUME NEW q \in Proc \ {p} PROVE Exact(q)'
  <2>1. /\ op'[q] = op[q] /\ ret'[q] = ret[q] /\ waked'[q] = waked[q] /\ op[q] \in Nat
        /\ at'[q] = IF q \in W THEN "woken" ELSE at[q]
    BY <1>1, <1>3, Zenon DEF Typed
  <2>2. Exact(q) /\ \A kind : Results(q, kind, "ok")' = Results(q, kind, "ok")
    BY Zenon, <1>1, <2>1 DEF ReleaseInv, Results
  <2>3. \A kind : Results(q, kind, "ok") \subseteq Nat
    BY <1>3 DEF Results, Typed
  <2>4. \A k \in Nat : EndedBy(released', q, k) = EndedBy(released, q, k)
    BY Zenon, <1>2
  <2>5. \A k \in Nat : SameId(script, released, q, k) => SameId(script, released', q, k)
    BY Zenon, <1>1, <2>4 DEF SameId
  <2>6. CASE q \in W
    <3>1. at[q] = "asleep" /\ at'[q] = "woken" /\ Len(ret[q]) = op[q] - 1
      BY Zenon, <1>3, <2>1, <2>6 DEF ControlInv, Place
    <3>2. \A kind : op[q] \notin Results(q, kind, "ok")
      BY <1>3, <3>1 DEF Results, Typed
    <3>3. \A k \in Nat \ {op[q]} : EndsOf(released', q, k) = EndsOf(released, q, k)
      BY Zenon, <1>2
    <3>4. Cardinality(EndsOf(released', q, op[q])) = 1
      BY Zenon, <1>2, <2>6
    <3>5. \A k \in Results(q, "wait", "ok") : Cardinality(EndsOf(released', q, k)) = 1
      BY Zenon, <2>2, <2>3, <3>2, <3>3 DEF Exact
    <3>6. \A k \in Results(q, "wake", "ok") :
            /\ Cardinality(EndedBy(released', q, k)) = script[q][k].nr
            /\ SameId(script, released', q, k)
      BY Zenon, <2>2, <2>3, <2>4, <2>5 DEF Exact
    <3>7. \A k \in Nat : k > op[q] =>
            EndedBy(released', q, k) = {} /\ EndsOf(released', q, k) = {}
      <4>1. \A k \in Nat : k > op[q] =>
              EndedBy(released, q, k) = {} /\ EndsOf(released, q, k) = {}
        BY Zenon, <2>2 DEF Exact
      <4>2. op[q] \in Nat
        BY Zenon, <2>1
      <4>3. QED
        BY <2>4, <3>3, <4>1, <4>2
    <3>8. EndedBy(released', q, op[q]) = {}
      BY Zenon, <2>1, <2>2, <2>4, <3>1 DEF Exact
    <3>9. QED
      BY <1>1, <2>1, <2>2, <3>1, <3>4, <3>5, <3>6, <3>7, <3>8, ZenonT(60) DEF Exact
  <2>7. CASE q \notin W
    <3>1. \A k \in Nat : EndsOf(released', q, k) = EndsOf(released, q, k)
      BY Zenon, <1>2, <2>7
    <3>2. \A k \in Results(q, "wake", "ok") :
            /\ Cardinality(EndedBy(released', q, k)) = script[q][k].nr
            /\ SameId(script, released', q, k)
      BY Zenon, <2>2, <2>3, <2>4, <2>5 DEF Exact
    <3>3. \A k \in Results(q, "wait", "ok") : Cardinality(EndsOf(released', q, k)) = 1
      BY Zenon, <2>2, <2>3, <3>1 DEF Exact
    <3>4. QED
      BY Zenon, <1>1, <2>1, <2>2, <2>4, <2>5, <2>7, <3>1, <3>2, <3>3 DEF Exact
  <2>8. QED
    BY Zenon, <2>6, <2>7
<1>5. Exact(p)'
  <2>0. op[p] \in Nat
    BY Zenon, <1>3 DEF Typed
  <2>1. Exact(p) /\ op[p] \in Nat \ {0} /\ waked'[p] = n /\ Len(ret[p]) = op[p] - 1
    BY Zenon, <1>1, <1>3 DEF ReleaseInv, Typed, ControlInv, Place
  <2>2. \A kind : Results(p, kind, "ok") \subseteq Nat \ {op[p]}
    BY <1>3, <2>1 DEF Results, Typed
  <2>3. \A k \in Nat : EndsOf(released', p, k) = EndsOf(released, p, k)
    BY Zenon, <1>2, <1>3
  <2>4. \A k \in Nat \ {op[p]} : EndedBy(released', p, k) = EndedBy(released, p, k)
    BY Zenon, <1>2
  <2>5. \A k \in Nat \ {op[p]} : SameId(script, released, p, k) => SameId(script, released', p, k)
    BY Zenon, <1>1, <2>4 DEF SameId
  <2>7. \A k \in Results(p, "wake", "ok") :
          /\ Cardinality(EndedBy(released', p, k)) = script[p][k].nr
          /\ SameId(script, released', p, k)
    BY Zenon, <2>1, <2>2, <2>4, <2>5 DEF Exact
  <2>8. \A k \in Results(p, "wait", "ok") : Cardinality(EndsOf(released', p, k)) = 1
    BY Zenon, <2>1, <2>2, <2>3 DEF Exact
  <2>9. \A k \in Nat : k > op[p] =>
          EndedBy(released', p, k) = {} /\ EndsOf(released', p, k) = {}
    BY <2>1, <2>3, <2>4, SMTT(40) DEF Exact
  <2>10. CASE at' = [awake EXCEPT ![p] = "nap"] /\ UNCHANGED <<ret, op>>
    <3>1. at'[p] = "nap" /\ op'[p] = op[p] /\ EndsOf(released', p, op[p]) = {}
      BY <1>1, <2>1, <2>3, <2>10, Zenon DEF Exact
    <3>2. \A kind : Results(p, kind, "ok")' = Results(p, kind, "ok")
      BY Zenon, <1>1, <2>10 DEF Results
    <3>3. /\ Cardinality(EndedBy(released', p, op'[p])) = waked'[p]
          /\ SameId(script', released', p, op'[p])
      BY Zenon, <1>1, <1>2, <2>1, <3>1
    <3>4. \A k \in Nat : k > op'[p] =>
            EndedBy(released', p, k) = {} /\ EndsOf(released', p, k) = {}
      BY Zenon, <2>9, <3>1
    <3>5. QED
      BY <1>1, <2>7, <2>8, <3>1, <3>2, <3>3, <3>4, Zenon DEF Exact
  <2>11. CASE /\ n = Call(p).nr /\ ret' = [ret EXCEPT ![p] = Append(@, "ok")]
              /\ at' = [awake EXCEPT ![p] = "call"] /\ op' = [op EXCEPT ![p] = @ + 1]
    <3>1. /\ at'[p] = "call" /\ op'[p] = op[p] + 1 /\ ret'[p] = Append(ret[p], "ok")
      BY Zenon, <1>3, <2>11 DEF Typed
    <3>2. \A kind \in {"wait", "wake"} : Results(p, kind, "ok")' \subseteq
            Results(p, kind, "ok") \cup
              (IF "ok" = "ok" /\ script[p][op[p]].kind = kind THEN {op[p]} ELSE {})
      BY Zenon, <1>1, <3>1, NewResult DEF Values
    <3>3. Call(p).kind = "wake"
      BY Zenon, <1>1 DEF ControlInv, Place
    <3>4. \A k \in Results(p, "wait", "ok")' : k \in Results(p, "wait", "ok")
      BY Zenon, <3>2, <3>3 DEF Call
    <3>5. \A k \in Results(p, "wake", "ok")' : k \in Results(p, "wake", "ok") \/ k = op[p]
      BY Zenon, <3>2
    <3>6. Cardinality(EndedBy(released', p, op[p])) = script[p][op[p]].nr
      BY Zenon, <1>2, <2>11 DEF Call
    <3>0. op'[p] = op[p] + 1 /\ at'[p] = "call" /\ op[p] \in Nat
      BY Zenon, <2>0, <3>1
    <3>7. \A k \in Nat : k >= op'[p] =>
            EndedBy(released', p, k) = {} /\ EndsOf(released', p, k) = {}
      BY <2>9, <3>0, SMTT(40)
    <3>8. \A k \in Results(p, "wake", "ok")' :
            Cardinality(EndedBy(released', p, k)) = script'[p][k].nr
              /\ SameId(script', released', p, k)
      BY Zenon, <1>1, <1>2, <2>7, <3>5, <3>6
    <3>9. op'[p] \in Nat
      BY <3>0
    <3>10. QED
      BY <2>8, <3>0, <3>4, <3>7, <3>8, <3>9 DEF Exact
  <2>12. QED
    BY Zenon, <1>1, <2>10, <2>11
<1>6. QED
  BY Zenon, <1>2, <1>4, <1>5 DEF ReleaseInv

\* Every step keeps the account of which wake ended which wait.
LEMMA ReleaseStep ==
  ASSUME ControlInv, ReleaseInv, [Next]_vars, Cardinality({}) = 0,
         \A p \in Proc : at[p] = "wake" => Adds(p)
  PROVE  ReleaseInv'
<1>1. CASE UNCHANGED vars
  <2>1. ASSUME NEW q \in Proc PROVE Exact(q)'
    <3>1. Exact(q) /\ UNCHANGED <<script, op, at, waked, ret, released>>
      BY Zenon, <1>1 DEF vars, ReleaseInv
    <3>2. QED
      BY Zenon, <3>1 DEF Exact, Results
  <2>2. QED
    BY Zenon, <1>1, <2>1 DEF vars, ReleaseInv
<1>2. ASSUME NEW p \in Proc, Step(p) \/ Interrupted(p) \/ Killed(p) PROVE ReleaseInv'
  <2>0. Typed /\ Place(p) /\ Exact(p) /\ op[p] \in Nat
    BY Zenon DEF ControlInv, ReleaseInv, Typed
  <2>1. CASE FutexWake(p)
    BY Zenon, <2>1, WakeStep DEF FutexWake
  <2>2. SUFFICES ASSUME ~FutexWake(p)
                 PROVE  Others(p) /\ released' = released /\ script' = script /\ Exact(p)'
    <3>1. ASSUME Others(p) /\ released' = released /\ script' = script /\ Exact(p)'
          PROVE  ReleaseInv'
      <4>1. \A q \in Proc \ {p} : Exact(q)'
        BY Zenon, <3>1, OtherExact
      <4>2. QED
        BY Zenon, <3>1, <4>1 DEF ReleaseInv
    <3>2. QED
      BY Zenon, <2>1, <3>1
  <2>3. ASSUME NEW r \in Values, UNCHANGED <<test, released>>, at[p] # "dead",
               Return(p, r) \/ Brok(p) \/ (/\ Returned(p, r) /\ op' = [op EXCEPT ![p] = @ + 1]
                                           /\ at' = at /\ at[p] = "call"),
               \A q \in Proc \ {p} : waked'[q] = waked[q] /\ msecs'[q] = msecs[q],
               r = "ok" => /\ Call(p).kind # "wake"
                           /\ Call(p).kind = "wait" => Cardinality(EndsOf(released, p, op[p])) = 1
        PROVE  Others(p) /\ released' = released /\ script' = script /\ Exact(p)'
    <3>1. /\ Ends(p, r)
          /\ \A q \in Proc \ {p} : op'[q] = op[q] /\ at'[q] = at[q] /\ ret'[q] = ret[q]
      BY Zenon, <2>3, EndFacts
    <3>2. Others(p) /\ released' = released /\ script' = script
      BY <2>3, <3>1, Zenon DEF Others, test
    <3>3. Exact(p)'
      BY <2>3, <3>1, <3>2, EndExact, Zenon
    <3>4. QED
      BY Zenon, <3>2, <3>3
  <2>4. ASSUME NEW l, Goto(p, l), UNCHANGED <<test, released>>,
               \A q \in Proc \ {p} : waked'[q] = waked[q] /\ msecs'[q] = msecs[q]
        PROVE  /\ Others(p) /\ released' = released /\ script' = script
               /\ op' = op /\ at'[p] = l
               /\ \A kind : Results(p, kind, "ok")' = Results(p, kind, "ok")
    BY <2>0, <2>4, Zenon DEF Goto, Others, test, Typed, Results
  <2>5. CASE Exec(p) \/ Reinit(p)
    <3>1. /\ at[p] = "call" /\ Call(p).kind \in {"exec", "reinit"}
          /\ UNCHANGED <<test, released, waked, msecs>>
          /\ \E r \in Values : Return(p, r) \/ Brok(p) \/
               (/\ Returned(p, r) /\ op' = [op EXCEPT ![p] = @ + 1] /\ at' = at /\ at[p] = "call")
      BY Zenon, <2>5 DEF Exec, Reinit, Calls, Values
    <3>2. QED
      BY Zenon, <3>1, <2>3
  <2>6. CASE Begin(p)
    <3>1. /\ at[p] = "call" /\ Call(p).kind \in {"wait", "wake"}
          /\ UNCHANGED <<test, released>> /\ waked'[p] = 0
          /\ \A q \in Proc \ {p} : waked'[q] = waked[q] /\ msecs'[q] = msecs[q]
      BY Zenon, <2>0, <2>6 DEF Begin, Calls, Locals, Typed
    <3>2. CASE Brok(p) \/ Return(p, "EOVERFLOW")
      BY Zenon, <2>3, <3>1, <3>2 DEF Values
    <3>3. CASE Goto(p, Call(p).kind)
      <4>1. /\ Others(p) /\ released' = released /\ script' = script
            /\ op' = op /\ at'[p] \in {"wait", "wake"}
            /\ \A kind : Results(p, kind, "ok")' = Results(p, kind, "ok")
        BY Zenon, <2>4, <3>1, <3>3
      <4>2. EndedBy(released, p, op[p]) = {} /\ EndsOf(released, p, op[p]) = {}
        BY Zenon, <2>0, <3>1 DEF Exact
      <4>3. Cardinality(EndedBy(released, p, op[p])) = 0 /\ SameId(script, released, p, op[p])
        BY Zenon, <4>2 DEF SameId
      <4>4. Exact(p)'
        BY ZenonT(60), <2>0, <3>1, <4>1, <4>2, <4>3 DEF Exact
      <4>5. QED
        BY Zenon, <4>1, <4>4
    <3>4. QED
      BY Zenon, <2>6, <3>2, <3>3 DEF Begin
  <2>7. CASE FutexWait(p) \/ Interrupted(p)
    <3>1. /\ UNCHANGED <<test, released, waked, msecs>> /\ at[p] \in {"wait", "asleep"}
          /\ \E l \in {"wait", "asleep"} : Goto(p, l)
      BY Zenon, <2>7 DEF FutexWait, Interrupted
    <3>2. /\ Others(p) /\ released' = released /\ script' = script
          /\ op' = op /\ at'[p] \in {"wait", "asleep"}
          /\ \A kind : Results(p, kind, "ok")' = Results(p, kind, "ok")
      BY Zenon, <2>4, <3>1
    <3>3. Exact(p)'
      BY <2>0, <3>1, <3>2, Zenon DEF Exact
    <3>4. QED
      BY Zenon, <3>2, <3>3
  <2>8. CASE SleepTick(p) \/ Killed(p)
    <3>1. /\ Others(p) /\ UNCHANGED <<script, released, op, ret, waked>>
          /\ at'[p] = at[p] \/ at'[p] = "dead"
      BY Zenon, <2>0, <2>8 DEF SleepTick, Killed, Others, test, Typed
    <3>2. Exact(p)'
      BY <2>0, <3>1, ZenonT(60) DEF Exact, Results
    <3>3. QED
      BY Zenon, <3>1, <3>2
  <2>9. CASE TimedOut(p)
    BY <2>3, <2>9, Zenon DEF TimedOut, Values
  <2>10. CASE WaitReturns(p)
    <3>1. Cardinality(EndsOf(released, p, op[p])) = 1 /\ Call(p).kind = "wait"
      BY Zenon, <2>0, <2>10 DEF WaitReturns, Exact, Place
    <3>2. QED
      BY <2>3, <2>10, <3>1, Zenon DEF WaitReturns, Values
  <2>11. CASE Nap(p)
    <3>1. /\ at[p] = "nap" /\ UNCHANGED <<test, released, waked>>
          /\ \A q \in Proc \ {p} : waked'[q] = waked[q] /\ msecs'[q] = msecs[q]
      BY Zenon, <2>0, <2>11 DEF Nap, Typed
    <3>2. CASE Return(p, "ETIMEDOUT")
      BY <2>3, <3>1, <3>2, Zenon DEF Values
    <3>3. CASE Goto(p, "wake")
      <4>1. /\ Others(p) /\ released' = released /\ script' = script
            /\ op' = op /\ at'[p] = "wake"
            /\ \A kind : Results(p, kind, "ok")' = Results(p, kind, "ok")
        BY Zenon, <2>4, <3>1, <3>3
      <4>2. Exact(p)'
        BY <2>0, <3>1, <4>1, Zenon DEF Exact
      <4>3. QED
        BY Zenon, <4>1, <4>2
    <3>4. QED
      BY Zenon, <2>11, <3>2, <3>3 DEF Nap
  <2>12. QED
    BY Zenon, <1>2, <2>2, <2>5, <2>6, <2>7, <2>8, <2>9, <2>10, <2>11 DEF Step
<1>3. QED
  BY Zenon, <1>1, <1>2 DEF Next, Finished

-----------------------------------------------------------------------------
(* How far a wake counts.                                                    *)

\* A wait that was ended is a wait, and of another process than the one that ended it.
Waiter(r) ==
  LET q == r.waiter[1]
      k == r.waiter[2]
  IN q # r.waker[1] /\ k \in DOMAIN script[q] /\ script[q][k].kind = "wait"

WaiterInv == \A r \in released : Waiter(r)

\* A wake that asks for the one process that ever waits there has counted nobody yet.
Lone(p) == Call(p).nr = 1 /\ Cardinality(Rivals(p, Call(p).id)) = 1
LoneInv == \A p \in Proc : at[p] \in {"wake", "nap"} /\ Lone(p) => waked[p] = 0

\* Only FUTEX_WAKE ends waits.
LEMMA OnlyWakes ==
  ASSUME [Next]_vars
  PROVE  script' = script /\ (released' = released \/ \E p \in Proc : FutexWake(p))
BY ZenonT(60)
  DEF Next, Finished, vars, Step, Exec, Reinit, Begin, FutexWait, SleepTick, TimedOut,
      WaitReturns, FutexWake, Nap, Interrupted, Killed, test

\* The sleepers FUTEX_WAKE meets wait on its checkpoint, and p is none of them.
LEMMA MetWaits ==
  ASSUME ControlInv, NEW p \in Proc, at[p] = "wake", NEW q \in Met(p)
  PROVE  /\ q \in Proc \ {p} /\ op[q] \in DOMAIN script[q]
         /\ script[q][op[q]].kind = "wait" /\ script[q][op[q]].id = Call(p).id
<1>1. q \in Proc /\ at[q] = "asleep" /\ Call(q).id = Call(p).id /\ q # p
  BY Zenon DEF Met, Sleepers
<1>2. op[q] <= Len(script[q]) /\ Call(q).kind = "wait" /\ op[q] \in Nat \ {0}
  BY <1>1 DEF ControlInv, Place, Typed
<1>3. op[q] \in DOMAIN script[q]
  BY <1>1, <1>2, CallType DEF Calling
<1>4. QED
  BY Zenon, <1>1, <1>2, <1>3 DEF Call

\* Every step ends waits of others only.
LEMMA WaiterStep == ControlInv /\ WaiterInv /\ [Next]_vars => WaiterInv'
<1> SUFFICES ASSUME ControlInv, WaiterInv, [Next]_vars, NEW r \in released' PROVE Waiter(r)'
  BY Zenon DEF WaiterInv
<1>1. script' = script /\ (released' = released \/ \E p \in Proc : FutexWake(p))
  BY Zenon, OnlyWakes
<1>2. CASE r \in released
  BY Zenon, <1>1, <1>2 DEF WaiterInv, Waiter
<1>3. CASE r \notin released
  <2>1. PICK p \in Proc : FutexWake(p)
    BY Zenon, <1>1, <1>3
  <2>2. at[p] = "wake" /\ r \in NewEnds(p)
    BY Zenon, <1>3, <2>1 DEF FutexWake, NewEnds, NewEnd, Met
  <2>3. PICK q \in Met(p) : r = NewEnd(p, q)
    BY Zenon, <2>2 DEF NewEnds
  <2>4. r.waiter[1] = q /\ r.waiter[2] = op[q] /\ r.waker[1] = p
    BY Zenon, <2>3 DEF NewEnd
  <2>5. q # p /\ op[q] \in DOMAIN script[q] /\ script[q][op[q]].kind = "wait"
    BY Zenon, <2>2, MetWaits
  <2>6. QED
    BY Zenon, <1>1, <2>4, <2>5 DEF Waiter
<1>4. QED
  BY Zenon, <1>2, <1>3

\* A process in a wake has just begun it, has just counted, or has counted nobody since.
LEMMA CountStep ==
  ASSUME ControlInv, [Next]_vars, NEW p \in Proc, at'[p] \in {"wake", "nap"}
  PROVE  \/ waked'[p] = 0
         \/ at[p] \in {"wake", "nap"} /\ op'[p] = op[p] /\ waked'[p] = waked[p]
         \/ /\ at[p] = "wake" /\ op'[p] = op[p] /\ waked'[p] # Call(p).nr
            /\ waked'[p] = waked[p] + Cardinality(Met(p))
<1>0. Typed
  BY Zenon DEF ControlInv
<1>1. CASE UNCHANGED vars
  BY Zenon, <1>1 DEF vars
<1>2. ASSUME NEW a \in Proc, Step(a) \/ Interrupted(a) \/ Killed(a), a # p
      PROVE  at[p] = at'[p] /\ op'[p] = op[p] /\ waked'[p] = waked[p]
  <2>1. CASE FutexWake(a)
    BY Zenon, <1>0, <1>2, <2>1 DEF FutexWake, Returned, Typed
  <2>2. CASE Exec(a) \/ Reinit(a) \/ Begin(a)
    BY ZenonT(60), <1>0, <1>2, <2>2 DEF Exec, Reinit, Begin, Typed, Brok, Return, Goto, Locals
  <2>3. CASE FutexWait(a) \/ SleepTick(a) \/ Interrupted(a) \/ Killed(a)
    BY Zenon, <1>0, <1>2, <2>3 DEF FutexWait, SleepTick, Interrupted, Killed, Goto, Typed
  <2>4. CASE TimedOut(a) \/ WaitReturns(a) \/ Nap(a)
    BY SMTT(60), <1>0, <1>2, <2>4 DEF TimedOut, WaitReturns, Nap, Return, Brok, Goto, Typed
  <2>5. QED
    BY Zenon, <1>2, <2>1, <2>2, <2>3, <2>4 DEF Step
<1>3. CASE Begin(p)
  BY Zenon, <1>0, <1>3 DEF Begin, Locals, Typed
<1>4. CASE Nap(p)
  BY Zenon, <1>0, <1>4 DEF Nap, Return, Brok, Goto, Typed
<1>5. CASE FutexWake(p)
  BY Zenon, <1>0, <1>5 DEF FutexWake, Enough, Met, Typed
<1>6. CASE Exec(p) \/ Reinit(p) \/ FutexWait(p) \/ SleepTick(p) \/ Interrupted(p) \/ Killed(p)
  BY Zenon, <1>0, <1>6
    DEF Exec, Reinit, Calls, Brok, FutexWait, SleepTick, Interrupted, Killed, Goto, Typed
<1>7. CASE TimedOut(p) \/ WaitReturns(p)
  BY Zenon, <1>0, <1>7 DEF TimedOut, WaitReturns, Return, Brok, Typed
<1>8. QED
  BY Zenon, <1>1, <1>2, <1>3, <1>4, <1>5, <1>6, <1>7 DEF Next, Finished, Step

-----------------------------------------------------------------------------
(* Counting.  The facts about cardinalities enter here, for what is above does *)
(* without them.                                                               *)
INSTANCE FiniteSetTheorems

\* There are finitely many processes.
LEMMA SleepersCounted == Counted
<1>1. \A id : IsFiniteSet(Sleepers(id))
  BY Zenon, ScriptsAssumption, FS_Subset DEF Sleepers
<1>2. QED
  BY Zenon, <1>1, FS_CardinalityType DEF Counted

\* The processes stay in place.
LEMMA ControlInvariant == Spec => []ControlInv
<1>1. ControlInv /\ [Next]_vars => ControlInv'
  BY Zenon, SleepersCounted, ControlStep
<1>2. QED
  BY <1>1, ControlInit, PTL DEF Spec

\* No wait has been ended when the test starts.
LEMMA ReleaseInit == Init => ReleaseInv
<1> SUFFICES ASSUME Init PROVE ReleaseInv
  OBVIOUS
<1>1. released = {} /\ IsFiniteSet(released)
  BY Zenon, FS_EmptySet DEF Init
<1>2. ASSUME NEW p \in Proc PROVE Exact(p)
  <2>1. at[p] = "call" /\ ret[p] = <<>>
    BY ZenonT(60) DEF Init
  <2>2. \A kind : Results(p, kind, "ok") = {}
    BY <2>1 DEF Results
  <2>3. QED
    BY Zenon, <1>1, <2>1, <2>2 DEF Exact, EndedBy, EndsOf
<1>3. QED
  BY Zenon, <1>1, <1>2 DEF ReleaseInv

\* FUTEX_WAKE: one entry for each sleeper, and none of them is old.
LEMMA WakeSets ==
  ASSUME ControlInv, ReleaseInv, NEW p \in Proc, at[p] = "wake"
  PROVE  /\ IsFiniteSet(Met(p)) /\ IsFiniteSet(NewEnds(p))
         /\ Cardinality(NewEnds(p)) = Cardinality(Met(p))
         /\ NewEnds(p) \subseteq [waiter : Proc \X Nat, waker : Proc \X Nat]
         /\ NewEnds(p) \cap released = {}
         /\ \A r \in NewEnds(p) :
              r.waker = <<p, op[p]>> /\ \E q \in Met(p) : r.waiter = <<q, op[q]>>
         /\ \A q \in Met(p) : EndsOf(NewEnds(p), q, op[q]) = {NewEnd(p, q)}
<1> DEFINE f == [q \in Met(p) |-> NewEnd(p, q)]
<1>0. Met(p) \subseteq Proc /\ \A q \in Met(p) : at[q] = "asleep"
  BY Zenon DEF Met, Sleepers
<1>1. IsFiniteSet(Met(p))
  BY Zenon, <1>0, ScriptsAssumption, FS_Subset
<1>2. ExistsBijection(Met(p), NewEnds(p))
  <2>1. f \in [Met(p) -> NewEnds(p)]
    BY Zenon DEF NewEnds
  <2>2. \A a, b \in Met(p) : f[a] = f[b] => a = b
    <3> SUFFICES ASSUME NEW a \in Met(p), NEW b \in Met(p), f[a] = f[b] PROVE a = b
      OBVIOUS
    <3>1. NewEnd(p, a).waiter = NewEnd(p, b).waiter
      OBVIOUS
    <3>2. <<a, op[a]>> = <<b, op[b]>>
      BY Zenon, <3>1 DEF NewEnd
    <3>3. QED
      BY Zenon, <3>2
  <2>3. \A x \in NewEnds(p) : \E a \in Met(p) : f[a] = x
    BY Zenon DEF NewEnds
  <2>4. f \in Bijection(Met(p), NewEnds(p))
    BY Zenon, <2>1, <2>2, <2>3 DEF Bijection, Injection, Surjection, IsInjective
  <2>5. QED
    BY Zenon, <2>4 DEF ExistsBijection
<1>3. IsFiniteSet(NewEnds(p)) /\ Cardinality(NewEnds(p)) = Cardinality(Met(p))
  BY Zenon, <1>1, <1>2, FS_Bijection
<1>4. \A r \in NewEnds(p) : r.waker = <<p, op[p]>> /\ \E q \in Met(p) : r.waiter = <<q, op[q]>>
  BY DEF NewEnds, NewEnd
<1>5. NewEnds(p) \subseteq [waiter : Proc \X Nat, waker : Proc \X Nat]
  BY <1>0 DEF ControlInv, Typed, NewEnds, NewEnd
<1>6. NewEnds(p) \cap released = {}
  <2> SUFFICES ASSUME NEW r \in NewEnds(p), r \in released PROVE FALSE
    OBVIOUS
  <2>1. PICK q \in Met(p) : r.waiter = <<q, op[q]>>
    BY Zenon, <1>4
  <2>2. r \in EndsOf(released, q, op[q])
    BY Zenon, <2>1 DEF EndsOf
  <2>3. EndsOf(released, q, op[q]) = {}
    BY Zenon, <1>0, <2>1 DEF ReleaseInv, Exact
  <2>4. QED
    BY Zenon, <2>2, <2>3
<1>7. ASSUME NEW q \in Met(p)
      PROVE  EndsOf(NewEnds(p), q, op[q]) = {NewEnd(p, q)}
  BY DEF EndsOf, NewEnds, NewEnd
<1>8. QED
  BY Zenon, <1>1, <1>3, <1>4, <1>5, <1>6, <1>7

\* So is the account after it.
LEMMA WakeAdds ==
  ASSUME ControlInv, ReleaseInv, NEW p \in Proc, at[p] = "wake"
  PROVE  Adds(p)
<1>1. /\ IsFiniteSet(Met(p)) /\ IsFiniteSet(NewEnds(p))
      /\ Cardinality(NewEnds(p)) = Cardinality(Met(p))
      /\ NewEnds(p) \subseteq [waiter : Proc \X Nat, waker : Proc \X Nat]
      /\ NewEnds(p) \cap released = {}
      /\ \A r \in NewEnds(p) :
           r.waker = <<p, op[p]>> /\ \E q \in Met(p) : r.waiter = <<q, op[q]>>
      /\ \A q \in Met(p) : EndsOf(NewEnds(p), q, op[q]) = {NewEnd(p, q)}
  BY Zenon, WakeSets
<1>2. IsFiniteSet(released) /\ Exact(p) /\ op[p] \in Nat /\ waked[p] \in Nat
  BY Zenon DEF ReleaseInv, ControlInv, Typed
<1>3. IsFiniteSet(After(p)) /\ After(p) \subseteq [waiter : Proc \X Nat, waker : Proc \X Nat]
  BY <1>1, <1>2, FS_Union, ZenonT(60) DEF ReleaseInv, After
<1>4. Cardinality(EndedBy(After(p), p, op[p])) = waked[p] + Cardinality(Met(p))
  <2> DEFINE E == EndedBy(released, p, op[p])
  <2>1. E \subseteq released /\ EndedBy(After(p), p, op[p]) = E \cup NewEnds(p)
    BY Zenon, <1>1 DEF EndedBy, After
  <2>2. IsFiniteSet(E) /\ Cardinality(E) = waked[p]
    BY ZenonT(60), <1>2, <2>1, FS_Subset DEF Exact
  <2>3. E \cap NewEnds(p) = {}
    BY Zenon, <1>1, <2>1
  <2>4. Cardinality(E \cup NewEnds(p)) =
          Cardinality(E) + Cardinality(NewEnds(p)) - Cardinality(E \cap NewEnds(p))
    BY ZenonT(60), <1>1, <2>2, FS_Union
  <2>5. Cardinality(E \cap NewEnds(p)) = 0 /\ Cardinality(NewEnds(p)) \in Nat
    BY <1>1, <2>3, FS_EmptySet, FS_CardinalityType, ZenonT(60)
  <2> HIDE DEF E
  <2>6. Cardinality(E \cup NewEnds(p)) = waked[p] + Cardinality(Met(p))
    BY SMTT(60), <1>1, <1>2, <2>2, <2>4, <2>5
  <2>7. QED
    BY <2>1, <2>6, Zenon
<1>5. SameId(script, After(p), p, op[p])
  <2> SUFFICES ASSUME NEW r \in After(p), r.waker = <<p, op[p]>>
               PROVE  script[r.waiter[1]][r.waiter[2]].id = script[p][op[p]].id
    BY Zenon DEF SameId, EndedBy
  <2>1. CASE r \in released
    BY ZenonT(60), <1>2, <2>1 DEF Exact, SameId, EndedBy
  <2>2. CASE r \in NewEnds(p)
    <3>1. PICK q \in Met(p) : r.waiter = <<q, op[q]>>
      BY Zenon, <1>1, <2>2
    <3>2. QED
      BY <3>1 DEF Met, Sleepers, Call
  <2>3. QED
    BY Zenon, <2>1, <2>2 DEF After
<1>6. ASSUME NEW q \in Proc, NEW k \in Nat, q # p \/ k # op[p]
      PROVE  EndedBy(After(p), q, k) = EndedBy(released, q, k)
  BY <1>1, <1>6 DEF EndedBy, After
<1>7. ASSUME NEW q \in Proc, NEW k \in Nat, q \notin Met(p) \/ k # op[q]
      PROVE  EndsOf(After(p), q, k) = EndsOf(released, q, k)
  BY <1>1, <1>7 DEF EndsOf, After
<1>8. ASSUME NEW q \in Met(p) PROVE Cardinality(EndsOf(After(p), q, op[q])) = 1
  <2>1. EndsOf(released, q, op[q]) = {}
    BY Zenon DEF Met, Sleepers, ReleaseInv, Exact
  <2>2. EndsOf(After(p), q, op[q]) = {NewEnd(p, q)}
    BY Zenon, <1>1, <2>1 DEF EndsOf, After
  <2>3. QED
    BY <2>2, FS_Singleton, Zenon
<1>9. QED
  BY ZenonT(60), <1>3, <1>4, <1>5, <1>6, <1>7, <1>8 DEF Adds

-----------------------------------------------------------------------------
\* The account of which wake ended which wait stays right.
LEMMA ReleaseInvariant == Spec => []ReleaseInv
<1>1. ControlInv /\ ReleaseInv /\ [Next]_vars => ReleaseInv'
  BY Zenon, ReleaseStep, WakeAdds, FS_EmptySet
<1>2. QED
  BY <1>1, ControlInvariant, ReleaseInit, PTL DEF Spec

\* A wake that returns 0 has ended exactly as many waits as it was asked to, all on its
\* own checkpoint, and a wait that returns 0 has been ended by one wake: for any
\* number of processes, whatever they call, are interrupted by or die of.
THEOREM MatchedHolds == Spec => []Matched
<1>1. ControlInv /\ ReleaseInv => Matched
  <2> SUFFICES ASSUME ControlInv, ReleaseInv PROVE Matched
    OBVIOUS
  <2>1. TypeOK
    <3>1. ASSUME NEW p \in Proc
          PROVE  /\ op[p] \in 1..(Len(script[p]) + 1) /\ Len(ret[p]) <= Len(script[p])
                 /\ at[p] \in {"wake", "nap"} => msecs[p] = 0 \/ msecs[p] < Timeout(Call(p))
      <4>1. Len(script[p]) \in Nat /\ Place(p) /\ op[p] \in Nat \ {0} /\ Len(ret[p]) \in Nat
        BY SMTT(60), CallType DEF ControlInv, Typed
      <4>2. QED
        BY <4>1 DEF Place
    <3>2. QED
      BY Zenon, <3>1 DEF TypeOK, ControlInv, Typed, Places
  <2>2. WakeExact
    BY Zenon DEF WakeExact, ReleaseInv, Exact, EndedBy, SameId
  <2>3. WaitHeld
    BY Zenon DEF WaitHeld, ReleaseInv, Exact, EndsOf
  <2>4. QED
    BY Zenon, <2>1, <2>2, <2>3 DEF Matched
<1>2. QED
  BY <1>1, ControlInvariant, ReleaseInvariant, PTL

\* Every step keeps a wake that asks for the only waiter at none.
LEMMA LoneStep == ControlInv /\ LoneInv /\ [Next]_vars => LoneInv'
<1> SUFFICES ASSUME ControlInv, LoneInv, [Next]_vars, NEW p \in Proc,
                    at'[p] \in {"wake", "nap"}, Lone(p)'
             PROVE  waked'[p] = 0
  BY Zenon DEF LoneInv
<1>1. script' = script
  BY Zenon, OnlyWakes
<1>2. CASE op'[p] = op[p] /\ at[p] \in {"wake", "nap"}
  <2>1. Call(p)' = Call(p) /\ Lone(p) /\ waked[p] = 0
    BY ZenonT(60), <1>1, <1>2 DEF Lone, Call, Rivals, Waits, LoneInv
  <2>2. CASE /\ at[p] = "wake" /\ waked'[p] # Call(p).nr
             /\ waked'[p] = waked[p] + Cardinality(Met(p))
    <3>1. Met(p) \subseteq Rivals(p, Call(p).id)
      BY Zenon, <2>2, MetWaits DEF Rivals, Waits
    <3>2. IsFiniteSet(Rivals(p, Call(p).id))
      BY Zenon, ScriptsAssumption, FS_Subset DEF Rivals
    <3>3. Cardinality(Met(p)) <= 1 /\ Cardinality(Met(p)) \in Nat
      BY Zenon, <2>1, <3>1, <3>2, FS_Subset, FS_CardinalityType DEF Lone
    <3>4. QED
      BY <2>1, <2>2, <3>3 DEF Lone
  <2>3. QED
    BY Zenon, <2>1, <2>2, CountStep
<1>3. QED
  BY Zenon, <1>2, CountStep

\* The waits a test makes on a checkpoint are finitely many.
LEMMA WaitsFinite ==
  ASSUME ControlInv, NEW S \in SUBSET Proc, NEW id
  PROVE  IsFiniteSet(UNION {{q} \X Waits(q, id) : q \in S})
<1> DEFINE F(q) == {q} \X Waits(q, id)
           T == {F(q) : q \in S}
           f == [q \in S |-> F(q)]
<1>1. ASSUME NEW q \in S PROVE IsFiniteSet(F(q))
  <2>1. Len(script[q]) \in Nat /\ Waits(q, id) \subseteq 1..Len(script[q])
    BY CallType DEF Waits, Calling
  <2>2. IsFiniteSet(1..Len(script[q]))
    BY <2>1, FS_Interval
  <2>3. IsFiniteSet(Waits(q, id)) /\ IsFiniteSet({q})
    BY ZenonT(60), <2>1, <2>2, FS_Subset, FS_Singleton
  <2>4. QED
    BY Zenon, <2>3, FS_Product
<1>2. IsFiniteSet(T)
  <2>1. f \in Surjection(S, T)
    BY Zenon DEF Surjection
  <2>2. IsFiniteSet(S)
    BY Zenon, ScriptsAssumption, FS_Subset
  <2>3. QED
    BY Zenon, <2>1, <2>2, FS_Surjection
<1>3. \A U \in T : IsFiniteSet(U)
  BY Zenon, <1>1
<1>4. QED
  BY Zenon, <1>2, <1>3, FS_UNION

\* A wake that meets no more waits than it asks for never counts past that number: it
\* can still succeed, whatever the other processes of the test do.
THEOREM NoOvershootHolds == Spec => []NoOvershoot
<1>1. Init => WaiterInv /\ LoneInv
  BY Zenon DEF Init, WaiterInv, LoneInv
<1>2. ControlInv /\ ReleaseInv /\ WaiterInv /\ LoneInv => NoOvershoot
  <2> SUFFICES ASSUME ControlInv, ReleaseInv, WaiterInv, LoneInv, NEW p \in Proc,
                      at[p] \in {"wake", "nap"}, Disciplined(p)
               PROVE  waked[p] <= Call(p).nr
    BY Zenon DEF NoOvershoot
  <2> DEFINE id == Call(p).id
             E == EndedBy(released, p, op[p])
             D == UNION {{q} \X Waits(q, id) : q \in Rivals(p, id)}
             f == [r \in E |-> r.waiter]
  <2>1. Cardinality(E) = waked[p] /\ SameId(script, released, p, op[p])
    BY Zenon DEF ReleaseInv, Exact
  <2>2. CASE Call(p).nr = 1 /\ Cardinality(Rivals(p, id)) = 1
    BY <2>2 DEF LoneInv, Lone, ControlInv, Typed
  <2>3. CASE Cardinality(D) <= Call(p).nr
    <3>0. Rivals(p, id) \in SUBSET Proc
      BY Zenon DEF Rivals
    <3>1. IsFiniteSet(D)
      BY Zenon, <3>0, WaitsFinite
    <3>2. ASSUME NEW r \in E PROVE r.waiter \in D
      <4>1. /\ r \in [waiter : Proc \X Nat, waker : Proc \X Nat]
            /\ r.waker = <<p, op[p]>> /\ Waiter(r)
        BY Zenon DEF EndedBy, ReleaseInv, WaiterInv
      <4>2. PICK q \in Proc, k \in Nat : r.waiter = <<q, k>>
        BY SMTT(60), <4>1
      <4>3. /\ q # p /\ k \in DOMAIN script[q] /\ script[q][k].kind = "wait"
            /\ script[q][k].id = id
        BY <2>1, <4>1, <4>2 DEF Waiter, SameId, Call
      <4>4. k \in Waits(q, id) /\ q \in Rivals(p, id)
        BY Zenon, <4>3 DEF Waits, Rivals
      <4>5. QED
        BY <4>2, <4>4
    <3>3. ASSUME NEW r \in E, NEW t \in E, r.waiter = t.waiter PROVE r = t
      BY <3>3 DEF EndedBy, ReleaseInv
    <3>4. f \in Injection(E, D)
      BY Zenon, <3>2, <3>3 DEF Injection, IsInjective
    <3> HIDE DEF D, E, f
    <3>5. Cardinality(E) <= Cardinality(D)
      BY ZenonT(60), <3>1, <3>4, FS_Injection
    <3>6. waked[p] \in Nat /\ Cardinality(D) \in Nat
      BY Zenon, <3>1, FS_CardinalityType DEF ControlInv, Typed
    <3>7. Call(p).nr \in Nat
      <4>1. op[p] <= Len(script[p]) /\ Call(p).kind = "wake"
        BY Zenon DEF ControlInv, Place
      <4>2. QED
        BY Zenon, <4>1, CallType DEF WaitCall, WakeCall, ImageCall
    <3>8. QED
      BY <2>1, <2>3, <3>5, <3>6, <3>7
  <2>4. QED
    BY Zenon, <2>2, <2>3 DEF Disciplined
<1>3. QED
  BY <1>1, <1>2, ControlInvariant, ReleaseInvariant, WaiterStep, LoneStep, PTL DEF Spec
=============================================================================
