-------------------------- MODULE FuzzySyncProofs ---------------------------
(***************************************************************************)
(* Proofs that the fuzzy-sync pair is the barrier its header promises, for *)
(* every INT_MAX >= 2, and keeps its plain fields race free.               *)
(*                                                                         *)
(* Count(t) counts t's arrivals modulo the folds at INT_MAX.  The invariant*)
(* the comment in tst_fzsync_pair_wait speaks of is Balance: the thread    *)
(* with the higher count is ahead, by one, and waits; the fold suspends it *)
(* only while both threads are inside the same barrier.                    *)
(***************************************************************************)
EXTENDS FuzzySync, TLAPS

\* t's own arrivals are counted in the other thread's cntr.
Count(t) == cntr[Other(t)]

\* t has brought Count(t) to INT_MAX and not yet folded it.
Folding == {"pos", "max", "spinw", "zero"}

FoldInv ==
  \A t \in Thread :
    /\ pc[t] \in Folding <=> Count(t) = INT_MAX
    /\ pc[t] = "low" => Count(t) = 0

Ahead(t) == arrived[t] = arrived[Other(t)] + 1
Level == arrived["a"] = arrived["b"]

\* t has seen that it entered the barrier first, or is about to.
First(t) ==
  \/ pc[t] \in {"spinn", "spinw"}
  \/ pc[t] = "cmp" /\ our[t] < Count(t)

\* Until exit is requested: one thread waits one barrier ahead, or they are
\* level, with equal counts but for a fold that only one of them has done.
Balance ==
  /\ Level \/ Ahead("a") \/ Ahead("b")
  /\ \A t \in Thread : Ahead(t) =>
       /\ Count(t) = Count(Other(t)) + 1
       /\ pc[t] \in Waiting \ {"zero", "low"}
       /\ pc[t] = "cmp" => our[t] = Count(Other(t))
  /\ Level =>
       /\ \/ Count("a") = Count("b")
          \/ \E t \in Thread :
               Count(t) = INT_MAX /\ Count(Other(t)) = 0 /\ pc[Other(t)] = "low"
       /\ ~(First("a") /\ First("b"))

\* The call whose barrier t entered last; "end" before the first.
Last(t) ==
  IF pc[t] \in Waiting \cup {"ret", "race"} THEN call[t]
  ELSE IF pc[t] = "upd" THEN "run"
  ELSE IF pc[t] = "inc"
       THEN (CASE call[t] = "run" -> "end" [] call[t] = "start" -> "run"
               [] OTHER -> "start")
  ELSE "end"

Follows(c, d) ==
  \/ c = "run" /\ d = "end"
  \/ c = "start" /\ d = "run"
  \/ c = "end" /\ d = "start"

\* The threads go through run, start_race and end_race in step.
Aligned ==
  /\ Level => Last("a") = Last("b")
  /\ \A t \in Thread : Ahead(t) => Follows(Last(t), Last(Other(t)))

\* Where each thread can be in each call, and what A knows about B and exit.
CallInv ==
  /\ call["a"] = "reset" => pc["a"] \in {"cleanup", "join", "ret"}
  /\ call["a"] = "stop" => pc["a"] \in {"cleanup", "join", "ret", "out"}
  /\ call["a"] = "run" => pc["a"] \in Waiting \cup {"inc", "ret", "entry"}
  /\ call["a"] = "start" => pc["a"] \in Waiting \cup {"inc", "ret", "upd", "race"}
  /\ call["a"] = "end" => pc["a"] \in Waiting \cup {"inc", "ret", "entry"}
  /\ call["b"] = "run" => pc["b"] \in Waiting \cup {"inc", "ret", "off"}
  /\ call["b"] = "start" => pc["b"] \in Waiting \cup {"inc", "ret", "race"}
  /\ call["b"] = "end" => pc["b"] \in Waiting \cup {"inc", "ret"}
  /\ call["b"] \in {"run", "start", "end"}
  /\ call["a"] \in {"start", "end"} \/ (call["a"] = "run" /\ pc["a"] = "entry")
       => ~exit
  /\ call["a"] \in {"run", "start", "end"} => thread_b
  /\ call["a"] = "reset" /\ pc["a"] = "ret" => ~thread_b
  /\ ~thread_b => pc["b"] = "off"
  /\ call["a"] \in {"run", "start", "end"} /\ ~exit => pc["b"] # "off"

\* A is in its loop and exit is not requested.
InLoop == call["a"] \in {"run", "start", "end"} /\ ~exit

IInv ==
  /\ TypeOK
  /\ FoldInv
  /\ CallInv
  /\ ~exit => Balance
  /\ InLoop => Aligned

-----------------------------------------------------------------------------

LEMMA Two == /\ Thread = {"a", "b"} /\ Other("a") = "b" /\ Other("b") = "a"
  BY Zenon DEF Thread, Other

LEMMA InitInv == Init => IInv
<1> SUFFICES ASSUME Init PROVE IInv
  OBVIOUS
<1> USE Two, IntMaxAssumption, MaxUsesAssumption
<1>1. TypeOK
  <2>1. /\ pc \in [Thread -> Control]
        /\ call \in [Thread -> {"reset", "run", "start", "end", "stop"}]
    BY Zenon DEF Init, Control
  <2>2. cntr \in [Thread -> 0..INT_MAX] /\ our \in [Thread -> 0..INT_MAX]
    BY DEF Init
  <2>3. exec_loop \in Nat /\ uses \in 0..MaxUses /\ arrived \in [Thread -> Nat]
    BY DEF Init
  <2>4. exit \in BOOLEAN /\ thread_b \in BOOLEAN
    BY Zenon DEF Init
  <2> QED
    BY Zenon, <2>1, <2>2, <2>3, <2>4 DEF TypeOK
<1>2. FoldInv
  BY DEF Init, FoldInv, Folding, Count
<1>3. CallInv
  BY Zenon DEF Init, CallInv
<1>4. Balance
  BY DEF Init, Balance, Level, Ahead, Count, First
<1>5. ~InLoop
  BY Zenon DEF Init, InLoop
<1> QED
  BY Zenon, <1>1, <1>2, <1>3, <1>4, <1>5 DEF IInv

LEMMA TypeStep == IInv /\ [Next]_vars => TypeOK'
<1> SUFFICES ASSUME IInv, [Next]_vars PROVE TypeOK'
  OBVIOUS
<1> USE Two, IntMaxAssumption, MaxUsesAssumption
<1>t. TypeOK
  BY Zenon DEF IInv
<1>1. ASSUME NEW t \in Thread, PairWait(t) PROVE TypeOK'
  <2>1. CASE Increment(t)
    <3>1. cntr[Other(t)] # INT_MAX
      BY Zenon, <2>1 DEF IInv, FoldInv, Count, Increment, Folding
    <3>2. cntr[Other(t)] + 1 \in 0..INT_MAX
      BY <1>t, <3>1 DEF TypeOK
    <3> QED
      BY <2>1, <1>t, <3>2 DEF Increment, Goto, TypeOK, Control, Waiting
  <2>2. CASE StoreZero(t)
    BY <2>2, <1>t DEF StoreZero, Goto, TypeOK, Control, Waiting
  <2>3. CASE LoadOur(t)
    BY Zenon, <2>3, <1>t DEF LoadOur, Goto, TypeOK, Control, Waiting
  <2>4. CASE WrapPositive(t) \/ WrapBelowMax(t) \/ WrapSpin(t)
    BY Zenon, <2>4, <1>t DEF WrapPositive, WrapBelowMax, WrapSpin, Goto, data, TypeOK,
      Control, Waiting
  <2>5. CASE WaitLow(t) \/ Compare(t) \/ Spin(t)
    BY ZenonT(60), <2>5, <1>t DEF WaitLow, Compare, Spin, Goto, data, TypeOK, Control, Waiting
  <2> QED
    BY Zenon, <1>1, <2>1, <2>2, <2>3, <2>4, <2>5 DEF PairWait
<1>2. CASE BeginReset
  BY <1>2, <1>t DEF BeginReset, Enters, Goto, TypeOK, Control
<1>10. CASE JoinB
  BY Zenon, <1>10, <1>t DEF JoinB, Goto, TypeOK, Control
<1>3. CASE PairCleanup
  <2>1. exit' \in BOOLEAN
    BY Zenon, <1>3 DEF PairCleanup
  <2> QED
    BY Zenon, <1>3, <1>t, <2>1 DEF PairCleanup, Goto, TypeOK, Control
<1>7. CASE PairReset
  <2>1. /\ pc' \in [Thread -> Control]
        /\ call' \in [Thread -> {"reset", "run", "start", "end", "stop"}]
    BY Zenon, <1>7 DEF PairReset, Control
  <2>2. cntr' \in [Thread -> 0..INT_MAX] /\ arrived' \in [Thread -> Nat]
    BY <1>7 DEF PairReset
  <2>3. exit' \in BOOLEAN /\ thread_b' \in BOOLEAN
    BY Zenon, <1>7 DEF PairReset
  <2> QED
    BY Zenon, <1>7, <1>t, <2>1, <2>2, <2>3 DEF PairReset, TypeOK
<1>8. CASE RunA
  <2>1. exit' \in BOOLEAN
    BY Zenon, <1>8 DEF RunA
  <2> QED
    BY <1>8, <1>t, <2>1 DEF RunA, Enters, Goto, TypeOK, Control
<1>9. CASE RunAReturns \/ PairUpdate \/ EndRaceAReturns \/ StopReturns \/ Break
  BY Zenon, <1>9, <1>t DEF RunAReturns, PairUpdate, EndRaceAReturns, StopReturns,
    Break, Enters, Goto, data, TypeOK, Control, Waiting
<1>4. ASSUME NEW t \in Thread, StartRaceReturns(t) \/ EndRace(t) PROVE TypeOK'
  BY Zenon, <1>4, <1>t DEF StartRaceReturns, EndRace, Enters, Goto, data, TypeOK,
    Control, Waiting
<1>5. CASE RunBReturns \/ EndRaceBReturns
  BY ZenonT(60), <1>5, <1>t DEF RunBReturns, EndRaceBReturns, Enters, Goto, TypeOK, Control,
    Waiting
<1>6. CASE UNCHANGED vars
  BY Zenon, <1>6, <1>t DEF vars, TypeOK
<1> QED
  BY Zenon, <1>1, <1>2, <1>3, <1>4, <1>5, <1>6, <1>7, <1>8, <1>9, <1>10
  DEF Next, ThreadA, ThreadB

LEMMA FoldStep == IInv /\ [Next]_vars => FoldInv'
<1> SUFFICES ASSUME IInv, [Next]_vars PROVE FoldInv'
  OBVIOUS
<1> USE Two, IntMaxAssumption DEF Count, Folding
<1>t. TypeOK /\ FoldInv
  BY Zenon DEF IInv
<1>1. ASSUME NEW t \in Thread, PairWait(t) PROVE FoldInv'
  <2>1. CASE Increment(t)
    BY <2>1, <1>t DEF Increment, Goto, TypeOK, FoldInv
  <2>2. CASE StoreZero(t)
    BY <2>2, <1>t DEF StoreZero, Goto, TypeOK, FoldInv
  <2>3. CASE LoadOur(t)
    BY Zenon, <2>3, <1>t DEF LoadOur, Goto, TypeOK, FoldInv
  <2>4. CASE WrapPositive(t) \/ WrapBelowMax(t) \/ WrapSpin(t)
    BY <2>4, <1>t DEF WrapPositive, WrapBelowMax, WrapSpin, Goto, data, TypeOK,
      FoldInv
  <2>5. CASE WaitLow(t) \/ Compare(t) \/ Spin(t)
    BY <2>5, <1>t DEF WaitLow, Compare, Spin, Goto, data, TypeOK, FoldInv
  <2> QED
    BY Zenon, <1>1, <2>1, <2>2, <2>3, <2>4, <2>5 DEF PairWait
<1>2. CASE PairReset
  BY <1>2, <1>t DEF PairReset, TypeOK, FoldInv
<1>3. CASE BeginReset \/ PairCleanup \/ JoinB \/ StopReturns
  BY <1>3, <1>t DEF BeginReset, PairCleanup, JoinB, StopReturns, Enters, Goto,
    data, TypeOK, FoldInv
<1>4. CASE RunA \/ RunAReturns \/ PairUpdate \/ EndRaceAReturns \/ Break
  BY <1>4, <1>t DEF RunA, RunAReturns, PairUpdate, EndRaceAReturns, Break,
    Enters, Goto, data, TypeOK, FoldInv
<1>5. ASSUME NEW t \in Thread, StartRaceReturns(t) \/ EndRace(t) PROVE FoldInv'
  BY <1>5, <1>t DEF StartRaceReturns, EndRace, Enters, Goto, data, TypeOK, FoldInv
<1>6. CASE RunBReturns \/ EndRaceBReturns
  BY <1>6, <1>t DEF RunBReturns, EndRaceBReturns, Enters, Goto, TypeOK, FoldInv
<1>7. CASE UNCHANGED vars
  BY Zenon, <1>7, <1>t DEF vars, FoldInv
<1> QED
  BY Zenon, <1>1, <1>2, <1>3, <1>4, <1>5, <1>6, <1>7 DEF Next, ThreadA, ThreadB

LEMMA CallStep == IInv /\ [Next]_vars => CallInv'
<1> SUFFICES ASSUME IInv, [Next]_vars PROVE CallInv'
  OBVIOUS
<1> USE Two DEF Waiting
<1>t. TypeOK /\ CallInv
  BY Zenon DEF IInv
<1>1. ASSUME NEW t \in Thread, PairWait(t) PROVE CallInv'
  <2>1. /\ UNCHANGED <<call, exit, thread_b>>
        /\ pc[t] \in Waiting \cup {"inc"}
        /\ \E p \in Waiting \cup {"ret"} : pc' = [pc EXCEPT ![t] = p]
    BY Zenon, <1>1 DEF PairWait, Increment, WrapPositive, WrapBelowMax, WrapSpin,
      StoreZero, WaitLow, LoadOur, Compare, Spin, Goto, data
  <2> QED
    BY <2>1, <1>t DEF TypeOK, CallInv
<1>2. CASE PairReset
  BY Zenon, <1>2, <1>t DEF PairReset, TypeOK, CallInv
<1>3. CASE BeginReset \/ PairCleanup \/ JoinB \/ StopReturns
  BY <1>3, <1>t DEF BeginReset, PairCleanup, JoinB, StopReturns, Enters, Goto,
    data, TypeOK, CallInv
<1>4. CASE RunA \/ RunAReturns \/ PairUpdate \/ EndRaceAReturns \/ Break
  BY <1>4, <1>t DEF RunA, RunAReturns, PairUpdate, EndRaceAReturns, Break,
    Enters, Goto, data, TypeOK, CallInv
<1>5. ASSUME NEW t \in Thread, StartRaceReturns(t) \/ EndRace(t) PROVE CallInv'
  BY <1>5, <1>t DEF StartRaceReturns, EndRace, Enters, Goto, data, TypeOK, CallInv
<1>6. CASE RunBReturns \/ EndRaceBReturns
  BY <1>6, <1>t DEF RunBReturns, EndRaceBReturns, Enters, Goto, TypeOK, CallInv
<1>7. CASE UNCHANGED vars
  BY <1>7, <1>t DEF vars, CallInv
<1> QED
  BY Zenon, <1>1, <1>2, <1>3, <1>4, <1>5, <1>6, <1>7 DEF Next, ThreadA, ThreadB

LEMMA BalanceStep == IInv /\ [Next]_vars => (~exit => Balance)'
<1> SUFFICES ASSUME IInv, [Next]_vars, ~exit' PROVE Balance'
  OBVIOUS
<1> USE Two, IntMaxAssumption DEF Count, Folding
<1>t. TypeOK /\ FoldInv /\ CallInv
  BY Zenon DEF IInv
<1>1. ASSUME NEW t \in Thread, PairWait(t) PROVE Balance'
  <2> USE DEF Balance, Ahead, Level, First, Waiting
  <2>0. Balance
    BY Zenon, <1>1 DEF IInv, PairWait, Increment, WrapPositive, WrapBelowMax, WrapSpin,
      StoreZero, WaitLow, LoadOur, Compare, Spin, data
  <2>1. CASE Increment(t)
    BY <2>1, <2>0, <1>t DEF Increment, Goto, TypeOK, FoldInv
  <2>2. CASE StoreZero(t)
    BY <2>2, <2>0, <1>t DEF StoreZero, Goto, TypeOK, FoldInv
  <2>3. CASE LoadOur(t)
    BY <2>3, <2>0, <1>t DEF LoadOur, Goto, TypeOK, FoldInv
  <2>4. CASE WrapPositive(t)
    BY <2>4, <2>0, <1>t DEF WrapPositive, Goto, data, TypeOK, FoldInv
  <2>5. CASE WrapBelowMax(t)
    BY <2>5, <2>0, <1>t DEF WrapBelowMax, Goto, data, TypeOK, FoldInv
  <2>6. CASE WrapSpin(t)
    BY <2>6, <2>0, <1>t DEF WrapSpin, Goto, data, TypeOK, FoldInv
  <2>7. CASE WaitLow(t)
    BY <2>7, <2>0, <1>t DEF WaitLow, Goto, data, TypeOK, FoldInv
  <2>8. CASE Compare(t)
    BY <2>8, <2>0, <1>t DEF Compare, Goto, data, TypeOK, FoldInv
  <2>9. CASE Spin(t)
    BY <2>9, <2>0, <1>t DEF Spin, Goto, data, TypeOK, FoldInv
  <2> QED
    BY Zenon, <1>1, <2>1, <2>2, <2>3, <2>4, <2>5, <2>6, <2>7, <2>8, <2>9 DEF PairWait
<1>2. CASE PairReset
  BY <1>2, <1>t DEF PairReset, TypeOK, Balance, Ahead, Level, First
\* The other actions move a thread between calls: not waiting, so not ahead.
<1>3. ASSUME NEW t \in Thread, pc[t] \notin Waiting, pc'[t] \notin Waiting,
             pc'[Other(t)] = pc[Other(t)], ~exit,
             UNCHANGED <<cntr, our, arrived>>
      PROVE  Balance'
  <2> QED
    BY <1>3, <1>t DEF IInv, TypeOK, Balance, Ahead, Level, First, Waiting
<1>4. CASE BeginReset \/ PairCleanup \/ JoinB \/ StopReturns
  BY Zenon, <1>3, <1>4, <1>t DEF BeginReset, PairCleanup, JoinB, StopReturns, Enters,
    Goto, data, TypeOK, CallInv, Waiting
<1>5. CASE RunA \/ RunAReturns \/ PairUpdate \/ EndRaceAReturns \/ Break
  BY ZenonT(60), <1>3, <1>5, <1>t DEF RunA, RunAReturns, PairUpdate, EndRaceAReturns, Break,
    Enters, Goto, data, TypeOK, Waiting
<1>6. ASSUME NEW t \in Thread, StartRaceReturns(t) \/ EndRace(t) PROVE Balance'
  BY Zenon, <1>3, <1>6, <1>t DEF StartRaceReturns, EndRace, Enters, Goto, data, TypeOK,
    Waiting
<1>7. CASE RunBReturns \/ EndRaceBReturns
  BY ZenonT(60), <1>3, <1>7, <1>t DEF RunBReturns, EndRaceBReturns, Enters, Goto, TypeOK,
    Waiting
<1>8. CASE UNCHANGED vars
  BY Zenon, <1>8 DEF vars, IInv, Balance, Ahead, Level, First
<1> QED
  BY Zenon, <1>1, <1>2, <1>4, <1>5, <1>6, <1>7, <1>8 DEF Next, ThreadA, ThreadB

LEMMA AlignedStep == IInv /\ [Next]_vars => (InLoop => Aligned)'
<1> SUFFICES ASSUME IInv, [Next]_vars, InLoop' PROVE Aligned'
  OBVIOUS
<1> USE Two DEF InLoop
<1>t. TypeOK /\ CallInv
  BY Zenon DEF IInv
<1>1. ASSUME NEW t \in Thread, PairWait(t) PROVE Aligned'
  <2> USE DEF Aligned, Ahead, Level, Last, Follows, Waiting
  <2>0. Aligned /\ Balance
    BY Zenon, <1>1 DEF IInv, PairWait, Increment, WrapPositive, WrapBelowMax, WrapSpin,
      StoreZero, WaitLow, LoadOur, Compare, Spin, data
  <2>1. CASE Increment(t)
    BY <2>1, <2>0, <1>t DEF Increment, Goto, TypeOK, CallInv, Balance
  <2>2. CASE StoreZero(t) \/ LoadOur(t)
    BY <2>2, <2>0, <1>t DEF StoreZero, LoadOur, Goto, TypeOK
  <2>3. CASE WrapPositive(t) \/ WrapBelowMax(t) \/ WrapSpin(t)
    BY <2>3, <2>0, <1>t DEF WrapPositive, WrapBelowMax, WrapSpin, Goto, data,
      TypeOK
  <2>4. CASE WaitLow(t) \/ Compare(t) \/ Spin(t)
    BY <2>4, <2>0, <1>t DEF WaitLow, Compare, Spin, Goto, data, TypeOK
  <2> QED
    BY Zenon, <1>1, <2>1, <2>2, <2>3, <2>4 DEF PairWait
<1>2. CASE PairReset
  BY <1>2, <1>t DEF PairReset, TypeOK, Aligned, Ahead, Level, Last, Waiting
<1>3. CASE BeginReset \/ PairCleanup \/ JoinB \/ StopReturns \/ Break
  BY Zenon, <1>3, <1>t DEF BeginReset, PairCleanup, JoinB, StopReturns, Break, Enters,
    Goto, data, TypeOK, CallInv
\* The other actions leave the call whose barrier was entered last alone.
<1>4. ASSUME Aligned, UNCHANGED arrived, \A t \in Thread : Last(t)' = Last(t)
      PROVE  Aligned'
  BY ZenonT(60), <1>4 DEF Aligned, Ahead, Level, Follows
<1>5. CASE RunA \/ RunAReturns \/ PairUpdate \/ EndRaceAReturns
  BY <1>4, <1>5, <1>t DEF IInv, RunA, RunAReturns, PairUpdate, EndRaceAReturns,
    Enters, Goto, data, TypeOK, CallInv, Last, Waiting
<1>6. ASSUME NEW t \in Thread, StartRaceReturns(t) \/ EndRace(t) PROVE Aligned'
  BY <1>4, <1>6, <1>t DEF IInv, StartRaceReturns, EndRace, Enters, Goto, data,
    TypeOK, CallInv, Last, Waiting
<1>7. CASE RunBReturns \/ EndRaceBReturns
  BY <1>4, <1>7, <1>t DEF IInv, RunBReturns, EndRaceBReturns, Enters, Goto,
    TypeOK, CallInv, Last, Waiting
<1>8. CASE UNCHANGED vars
  BY <1>8 DEF vars, IInv, Aligned, Ahead, Level, Last
<1> QED
  BY Zenon, <1>1, <1>2, <1>3, <1>5, <1>6, <1>7, <1>8 DEF Next, ThreadA, ThreadB

LEMMA Inductive == Spec => []IInv
<1>1. IInv /\ [Next]_vars => IInv'
  BY Zenon, TypeStep, FoldStep, CallStep, BalanceStep, AlignedStep DEF IInv
<1> QED
  BY InitInv, <1>1, PTL DEF Spec

-----------------------------------------------------------------------------

\* The counters of the pair never leave 0..INT_MAX: no increment of
\* tst_fzsync_pair_wait overflows, at whatever point the threads are.
THEOREM CountersInRange == Spec => []TypeOK
  BY Inductive, PTL DEF IInv

\* pair->delay, pair->spins and the time stamps are never accessed by both
\* threads at once, whatever INT_MAX and however many loops are run.
THEOREM FieldsRaceFree == Spec => []PlainFieldsExclusive
<1>1. IInv => PlainFieldsExclusive
  <2> SUFFICES ASSUME IInv PROVE PlainFieldsExclusive
    OBVIOUS
  <2> USE Two
  <2>t. TypeOK /\ CallInv
    BY Zenon DEF IInv
  <2>1. pc["a"] = "upd" => pc["b"] # "race" /\ ~WritesSpins("b")
    BY Zenon, <2>t DEF IInv, TypeOK, CallInv, InLoop, Balance, Aligned, Level, Ahead,
      Last, Follows, WritesSpins, Waiting
  <2>2. ~(WritesSpins("a") /\ WritesSpins("b"))
    <3> SUFFICES ASSUME WritesSpins("a"), WritesSpins("b") PROVE FALSE
      OBVIOUS
    <3>1. InLoop /\ Last("a") = "end" /\ Last("b") = "end"
      BY Zenon, <2>t DEF CallInv, InLoop, WritesSpins, Last, Waiting
    <3>2. Level
      BY Zenon, <3>1 DEF IInv, InLoop, Balance, Aligned, Follows
    <3> QED
      BY Zenon, <3>1, <3>2 DEF IInv, InLoop, Balance, First, WritesSpins
  <2> QED
    BY Zenon, <2>1, <2>2 DEF PlainFieldsExclusive
<1> QED
  BY Inductive, <1>1, PTL

\* The race regions of A and B that overlap are those of the same loop.
THEOREM RacesMeet == Spec => []SameRace
<1>1. IInv => SameRace
  <2> SUFFICES ASSUME IInv PROVE SameRace
    OBVIOUS
  <2> USE Two
  <2>t. TypeOK /\ CallInv
    BY Zenon DEF IInv
  <2>1. CASE pc["a"] = "race"
    <3>1. InLoop /\ Last("a") = "start"
      BY Zenon, <2>t, <2>1 DEF TypeOK, CallInv, InLoop, Last, Waiting
    <3>2. Level \/ Ahead("b")
      BY Zenon, <3>1, <2>1 DEF IInv, InLoop, Balance, Waiting
    <3> QED
      BY ZenonT(60), <2>t, <3>1, <3>2 DEF IInv, TypeOK, InLoop, CallInv, Balance, Aligned,
        Level, Ahead, Last, Follows, Waiting, SameRace
  <2>2. CASE pc["a"] # "race"
    BY Zenon, <2>2 DEF SameRace
  <2> QED
    BY Zenon, <2>1, <2>2
<1> QED
  BY Inductive, <1>1, PTL

\* tst_fzsync_pair_reset zeroes the counters only after thread B was joined.
THEOREM ResetIsAlone == Spec => ResetAlone
<1>1. IInv => [PairReset => pc["b"] = "off"]_vars
  BY Zenon DEF IInv, CallInv, PairReset
<1> QED
  BY Inductive, <1>1, PTL DEF ResetAlone, Spec

-----------------------------------------------------------------------------
(* tst_fzsync_pair_wait implements the barrier *)

Inside == [t \in Thread |-> pc[t] \in Waiting]

\* A thread leaves a barrier only after the other has entered it, or on exit.
LEMMA LeaveStep ==
  ASSUME IInv, NEW t \in Thread, WaitLow(t) \/ Compare(t) \/ Spin(t),
         pc'[t] \notin Waiting
  PROVE  exit \/ \A o \in Thread : arrived[o] >= arrived[t]
<1> USE Two
<1> SUFFICES ASSUME ~exit PROVE \A o \in Thread : arrived[o] >= arrived[t]
  OBVIOUS
<1>1. ~Ahead(t)
  BY DEF IInv, Balance, TypeOK, FoldInv, Count, WaitLow, Compare, Spin, Goto, data,
    Waiting
<1> QED
  BY <1>1 DEF IInv, Balance, Level, Ahead, TypeOK

LEMMA BarrierStep ==
  IInv /\ [Next]_vars => [Barrier!RNext]_<<arrived, Inside, exit>>
<1> SUFFICES ASSUME IInv, [Next]_vars
             PROVE  Barrier!RNext \/ UNCHANGED <<arrived, Inside, exit>>
  OBVIOUS
<1> USE Two
<1>t. TypeOK
  BY Zenon DEF IInv
<1>1. ASSUME NEW t \in Thread, PairWait(t)
      PROVE  Barrier!RNext \/ UNCHANGED <<arrived, Inside, exit>>
  <2>1. CASE Increment(t)
    <3>1. Inside' = [Inside EXCEPT ![t] = TRUE]
      BY Zenon, <2>1, <1>t DEF Increment, Goto, TypeOK, Inside, Waiting
    <3>2. ~Inside[t]
      BY Zenon, <2>1 DEF Increment, Inside, Waiting
    <3>3. Barrier!Enter(t)
      BY Zenon, <2>1, <3>1, <3>2 DEF Increment, Barrier!Enter, Inside
    <3> QED
      BY Zenon, <3>3 DEF Barrier!RNext
  <2>2. CASE StoreZero(t) \/ LoadOur(t)
    BY <2>2, <1>t DEF StoreZero, LoadOur, Goto, TypeOK, Inside, Waiting
  <2>3. CASE WrapPositive(t) \/ WrapBelowMax(t) \/ WrapSpin(t)
    BY <2>3, <1>t DEF WrapPositive, WrapBelowMax, WrapSpin, Goto, data, TypeOK,
      Inside, Waiting
  <2>4. CASE WaitLow(t) \/ Compare(t) \/ Spin(t)
    <3>1. CASE pc'[t] \in Waiting
      BY <2>4, <3>1, <1>t DEF WaitLow, Compare, Spin, Goto, data, TypeOK, Inside,
        Waiting
    <3>2. CASE pc'[t] \notin Waiting
      <4>1. exit \/ \A o \in Thread : arrived[o] >= arrived[t]
        BY Zenon, <2>4, <3>2, LeaveStep
      <4>a. pc[t] \in Waiting /\ pc' = [pc EXCEPT ![t] = "ret"]
        BY Zenon, <2>4, <3>2, <1>t DEF WaitLow, Compare, Spin, Goto, TypeOK, Waiting
      <4>b. "ret" \notin Waiting
        BY Zenon DEF Waiting
      <4>c. /\ (pc'[t] \in Waiting) = FALSE
            /\ \A o \in Thread : o # t => (pc'[o] \in Waiting) = (pc[o] \in Waiting)
        BY <4>a, <4>b, <1>t DEF TypeOK
      <4>d. Inside[t]
        BY Zenon, <4>a DEF Inside
      <4>2. Inside' = [Inside EXCEPT ![t] = FALSE]
        BY Zenon, <4>c DEF Inside
      <4>3. Barrier!Leave(t)
        BY Zenon, <2>4, <4>1, <4>2, <4>d
        DEF WaitLow, Compare, Spin, data, Barrier!Leave, Inside
      <4> QED
        BY Zenon, <4>3 DEF Barrier!RNext
    <3> QED
      BY Zenon, <3>1, <3>2
  <2> QED
    BY Zenon, <1>1, <2>1, <2>2, <2>3, <2>4 DEF PairWait
<1>2. CASE PairReset
  <2>1. \A t \in Thread : ~Inside[t]
    BY Zenon, <1>2, <1>t DEF PairReset, IInv, CallInv, Inside, Waiting
  <2>a. \A t \in Thread : pc[t] \notin Waiting
    BY Zenon, <2>1 DEF Inside
  <2>b. \A t \in Thread : pc'[t] \notin Waiting
    BY Zenon, <1>2 DEF PairReset, Waiting
  <2>c. \A t \in Thread : (pc'[t] \in Waiting) = (pc[t] \in Waiting)
    BY <2>a, <2>b
  <2>2. Inside' = Inside
    BY Zenon, <2>c DEF Inside
  <2> QED
    BY Zenon, <1>2, <2>1, <2>2 DEF PairReset, Barrier!RNext, Barrier!Restart, Inside
\* The other actions move a thread outside the barrier, and may request exit.
<1>3. ASSUME NEW t \in Thread, NEW p \in Control \ Waiting, pc[t] \notin Waiting,
             Goto(t, p), UNCHANGED arrived, exit' = exit \/ exit' = TRUE
      PROVE  Barrier!RNext \/ UNCHANGED <<arrived, Inside, exit>>
  <2>1. Inside' = Inside
    BY <1>3, <1>t DEF Goto, TypeOK, Inside
  <2> QED
    BY Zenon, <1>3, <2>1 DEF Barrier!RNext, Barrier!Open, Inside
<1>4. CASE BeginReset \/ PairCleanup \/ JoinB \/ StopReturns
  BY Zenon, <1>3, <1>4, <1>t DEF BeginReset, PairCleanup, JoinB, StopReturns, Enters,
    data, TypeOK, Control, Waiting
<1>5. CASE RunA
  BY Zenon, <1>3, <1>5, <1>t DEF RunA, Enters, TypeOK, Control, Waiting
<1>6. CASE RunAReturns \/ PairUpdate \/ EndRaceAReturns \/ Break
  BY Zenon, <1>3, <1>6, <1>t DEF RunAReturns, PairUpdate, EndRaceAReturns, Break, Enters,
    data, TypeOK, Control, Waiting
<1>7. ASSUME NEW t \in Thread, StartRaceReturns(t) \/ EndRace(t)
      PROVE  Barrier!RNext \/ UNCHANGED <<arrived, Inside, exit>>
  BY Zenon, <1>3, <1>7, <1>t DEF StartRaceReturns, EndRace, Enters, data, TypeOK, Control,
    Waiting
<1>8. CASE RunBReturns \/ EndRaceBReturns
  BY Zenon, <1>3, <1>8, <1>t DEF RunBReturns, EndRaceBReturns, Enters, TypeOK, Control,
    Waiting
<1>9. CASE UNCHANGED vars
  BY Zenon, <1>9 DEF vars, Inside
<1> QED
  BY Zenon, <1>1, <1>2, <1>4, <1>5, <1>6, <1>7, <1>8, <1>9 DEF Next, ThreadA, ThreadB

\* Every behaviour of the pair is one of the two-party barrier: for every
\* INT_MAX >= 2 no thread leaves its n-th call of run, start_race or end_race
\* before the other has entered its n-th, unless exit was requested.
THEOREM PairIsBarrier == Spec => ImplementsBarrier
<1>1. Init => Barrier!RInit
  <2> SUFFICES ASSUME Init PROVE Barrier!RInit
    OBVIOUS
  <2>1. \A t \in Thread : pc[t] \notin Waiting
    BY Zenon, Two DEF Init, Waiting
  <2>2. \A t \in Thread : (pc[t] \in Waiting) = FALSE
    BY <2>1
  <2> QED
    BY Zenon, <2>2 DEF Init, Barrier!RInit
<1>2. IInv /\ [Next]_vars => [Barrier!RNext]_(Barrier!rvars)
  BY Zenon, BarrierStep DEF Barrier!rvars, Inside
<1> QED
  BY <1>1, <1>2, Inductive, PTL DEF Spec, ImplementsBarrier, Barrier!RSpec

=============================================================================
