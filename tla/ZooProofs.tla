----------------------------- MODULE ZooProofs ------------------------------
(* The file of zoolib.c is the bag of ZooSpec, and names the drivers that run, *)
(* for any number of processes, calls, tags, crashes and failing calls.        *)
EXTENDS Zoo, FiniteSetTheorems, TLAPS

Entries == [pid : Pids, tag : Tags]
Lines == {Free} \cup Entries

-----------------------------------------------------------------------------
(* The bag of a file.                                                         *)

\* '#' is no entry: process numbers are not negative.
LEMMA FreeIsNone == Free \notin Entries
BY ZooAssumption DEF Free, Entries

\* A file has finitely many lines with an entry.
LEMMA LinesFinite ==
  ASSUME NEW f \in Seq(Lines), NEW e
  PROVE  IsFiniteSet(LinesWith(f, e)) /\ Cardinality(LinesWith(f, e)) \in Nat
<1>1. LinesWith(f, e) \subseteq 1 .. Len(f) /\ IsFiniteSet(1 .. Len(f))
  BY FS_Interval DEF LinesWith
<1>2. QED
  BY Zenon, <1>1, FS_Subset, FS_CardinalityType

\* g has the lines of f and, at i, one more with e; but for that, and for free lines,
\* the two are alike.
OneMore(f, g, e, i) ==
  /\ i \notin LinesWith(f, e) /\ LinesWith(g, e) = LinesWith(f, e) \cup {i}
  /\ \A x \in Entries : x # e => LinesWith(g, x) = LinesWith(f, x)

\* One line more with e: the bag has e once more.
LEMMA LineMore ==
  ASSUME NEW f \in Seq(Lines), NEW g \in Seq(Lines), NEW e \in Entries, NEW i,
         OneMore(f, g, e, i)
  PROVE  /\ EntriesOf(g) = [EntriesOf(f) EXCEPT ![e] = @ + 1]
         /\ EntriesOf(f) = [EntriesOf(g) EXCEPT ![e] = @ - 1]
         /\ EntriesOf(g)[e] > 0
<1>1. /\ Cardinality(LinesWith(g, e)) = Cardinality(LinesWith(f, e)) + 1
      /\ Cardinality(LinesWith(f, e)) \in Nat
  BY ZenonT(60), LinesFinite, FS_AddElement DEF OneMore
<1>2. ASSUME NEW h PROVE EntriesOf(h) = [x \in Entries |-> Cardinality(LinesWith(h, x))]
  BY Zenon DEF EntriesOf, Entries
<1> DEFINE F == [x \in Entries |-> Cardinality(LinesWith(f, x))]
           G == [x \in Entries |-> Cardinality(LinesWith(g, x))]
<1>3. EntriesOf(f) = F /\ EntriesOf(g) = G
  BY Zenon, <1>2
<1>4. \A x \in Entries : x # e => G[x] = F[x]
  BY Zenon DEF OneMore
<1>5. G[e] = F[e] + 1 /\ F[e] \in Nat
  BY Zenon, <1>1
<1>6. F \in [Entries -> Nat] /\ G \in [Entries -> Nat]
  BY Zenon, LinesFinite
<1> HIDE DEF F, G
<1>7. G = [F EXCEPT ![e] = @ + 1]
  BY Zenon, <1>4, <1>5, <1>6
<1>8. F[e] = G[e] - 1 /\ G[e] > 0
  BY <1>5
<1>9. F = [G EXCEPT ![e] = G[e] - 1]
  BY Zenon, <1>4, <1>6, <1>8
<1>10. QED
  BY Zenon, <1>3, <1>7, <1>8, <1>9

\* The file with a line written at i, or at its end.
Put(f, i, line) == IF i > Len(f) THEN Append(f, line) ELSE [f EXCEPT ![i] = line]

\* At the end of the file it is one more.
LEMMA PutEnd ==
  ASSUME NEW f \in Seq(Lines), NEW i \in Nat \ {0}, NEW line \in Lines, i > Len(f)
  PROVE  /\ Put(f, i, line) \in Seq(Lines) /\ Len(Put(f, i, line)) = Len(f) + 1
         /\ Put(f, i, line)[Len(f) + 1] = line
         /\ \A j \in 1 .. Len(f) : Put(f, i, line)[j] = f[j]
BY DEF Put

\* Inside the file only that line differs.
LEMMA PutOver ==
  ASSUME NEW f \in Seq(Lines), NEW i \in Nat \ {0}, NEW line \in Lines, i <= Len(f)
  PROVE  /\ Put(f, i, line) \in Seq(Lines) /\ Len(Put(f, i, line)) = Len(f)
         /\ Put(f, i, line)[i] = line
         /\ \A j \in 1 .. Len(f) : j # i => Put(f, i, line)[j] = f[j]
BY DEF Put

\* zoo_mark(): an entry over a free line or at the end of the file.
LEMMA PutEntry ==
  ASSUME NEW f \in Seq(Lines), NEW i \in Nat \ {0}, NEW e \in Entries,
         i > Len(f) \/ f[i] = Free
  PROVE  EntriesOf(Put(f, i, e)) = [EntriesOf(f) EXCEPT ![e] = @ + 1]
<1> DEFINE g == Put(f, i, e)
<1>1. e \in Lines /\ e # Free
  BY Zenon, FreeIsNone DEF Lines
<1>2. CASE i > Len(f)
  <2>1. /\ g \in Seq(Lines) /\ Len(g) = Len(f) + 1 /\ g[Len(f) + 1] = e
        /\ \A j \in 1 .. Len(f) : g[j] = f[j]
    BY ZenonT(60), <1>1, <1>2, PutEnd
  <2> HIDE DEF g
  <2>2. OneMore(f, g, e, Len(f) + 1)
    BY <2>1 DEF OneMore, LinesWith
  <2>3. QED
    BY <2>1, <2>2, LineMore DEF g
<1>3. CASE i <= Len(f)
  <2>0. f[i] = Free /\ i \in 1 .. Len(f)
    BY <1>3
  <2>1. /\ g \in Seq(Lines) /\ Len(g) = Len(f) /\ g[i] = e
        /\ \A j \in 1 .. Len(f) : j # i => g[j] = f[j]
    BY ZenonT(60), <1>1, <1>3, PutOver
  <2> HIDE DEF g
  <2>2. \A x : x # e /\ x # Free => LinesWith(g, x) = LinesWith(f, x)
    BY Zenon, <2>0, <2>1 DEF LinesWith
  <2>3. i \notin LinesWith(f, e) /\ LinesWith(g, e) = LinesWith(f, e) \cup {i}
    BY Zenon, <1>1, <2>0, <2>1 DEF LinesWith
  <2>4. OneMore(f, g, e, i)
    BY Zenon, <2>2, <2>3, FreeIsNone DEF OneMore
  <2>5. QED
    BY <2>1, <2>4, LineMore DEF g
<1>4. QED
  BY <1>2, <1>3

\* zoo_clear(): '#' over the line of an entry.
LEMMA PutFree ==
  ASSUME NEW f \in Seq(Lines), NEW i \in Nat \ {0}, i <= Len(f), f[i] # Free
  PROVE  /\ f[i] \in Entries /\ EntriesOf(f)[f[i]] > 0
         /\ EntriesOf(Put(f, i, Free)) = [EntriesOf(f) EXCEPT ![f[i]] = @ - 1]
<1> DEFINE g == Put(f, i, Free)
           e == f[i]
<1>1. e \in Entries /\ e # Free /\ i \in 1 .. Len(f)
  BY DEF Lines
<1>2. /\ g \in Seq(Lines) /\ Len(g) = Len(f) /\ g[i] = Free
      /\ \A j \in 1 .. Len(f) : j # i => g[j] = f[j]
  <2>1. Free \in Lines
    BY Zenon DEF Lines
  <2>2. QED
    BY ZenonT(60), <2>1, PutOver
<1>3. f[i] = e
  OBVIOUS
<1> HIDE DEF g, e
<1>4. \A x : x # e /\ x # Free => LinesWith(g, x) = LinesWith(f, x)
  BY Zenon, <1>1, <1>2, <1>3 DEF LinesWith
<1>5. i \notin LinesWith(g, e) /\ LinesWith(f, e) = LinesWith(g, e) \cup {i}
  BY Zenon, <1>1, <1>2, <1>3 DEF LinesWith
<1>6. OneMore(g, f, e, i)
  BY Zenon, <1>4, <1>5, FreeIsNone DEF OneMore
<1>7. QED
  BY <1>1, <1>2, <1>6, LineMore DEF g, e

-----------------------------------------------------------------------------
(* Who writes has the lock, and the line it has found is still as it was.      *)

PcValues == {"new", "idle", "scan", "write", "unlock", "failed", "done"}
Typed ==
  /\ file \in Seq(Lines) /\ lock \in Clients \cup {NoOne}
  /\ pc \in [Clients -> PcValues]
  /\ ip \in [Clients -> Nat \ {0}] /\ pos \in [Clients -> Nat \ {0}]
  /\ cur \in [Clients -> Op \cup {NoOp}] /\ got \in [Clients -> Pids \cup {NotFound}]

Holds(c) ==
  pc[c] \in {"scan", "write", "unlock"} =>
    lock = c /\ cur[c] \in Op /\ cur[c].do \in {"mark", "clear", "find"}

Found(c) ==
  pc[c] = "write" =>
    \/ cur[c].do = "mark" /\ (pos[c] > Len(file) \/ file[pos[c]] = Free)
    \/ /\ cur[c].do = "clear" /\ pos[c] <= Len(file)
       /\ file[pos[c]] # Free /\ file[pos[c]].pid = cur[c].pid

LockInv == Typed /\ \A c \in Clients : Holds(c) /\ Found(c)

\* The file is empty and nobody has begun.
LEMMA LockInit == Init => LockInv
BY ZooAssumption DEF Init, LockInv, Typed, PcValues, Holds, Found, Lines

\* What a step leaves of the other processes.
Others(c) ==
  \A d \in Clients \ {c} : pc'[d] = pc[d] /\ cur'[d] = cur[d] /\ pos'[d] = pos[d]

\* The other processes keep the lock and the line, if the step neither takes their
\* lock nor writes without it.
LEMMA OthersKeep ==
  ASSUME LockInv, NEW c \in Clients, Others(c),
         lock' = lock \/ lock \in {NoOne, c}, file' = file \/ lock = c
  PROVE  \A d \in Clients \ {c} : Holds(d)' /\ Found(d)'
<1> SUFFICES ASSUME NEW d \in Clients \ {c} PROVE Holds(d)' /\ Found(d)'
  OBVIOUS
<1>1. Holds(d) /\ Found(d) /\ d # NoOne /\ d # c
  BY Zenon, ClientAssumption DEF LockInv
<1>2. pc'[d] = pc[d] /\ cur'[d] = cur[d] /\ pos'[d] = pos[d]
  BY Zenon DEF Others
<1>3. pc[d] \in {"scan", "write", "unlock"} => lock' = lock /\ file' = file
  BY Zenon, <1>1 DEF Holds
<1>4. QED
  BY Zenon, <1>1, <1>2, <1>3 DEF Holds, Found

\* Every step keeps to the lock.
LEMMA LockStep == LockInv /\ [Next]_vars => LockInv'
<1> SUFFICES ASSUME LockInv, [Next]_vars PROVE LockInv'
  OBVIOUS
<1>1. CASE UNCHANGED vars
  BY Zenon, <1>1 DEF LockInv, Typed, Holds, Found, vars
<1>2. ASSUME NEW c \in Clients, Start(c) \/ Step(c) \/ Crash(c) PROVE LockInv'
  <2>0. Typed /\ Holds(c) /\ Found(c) /\ c # NoOne
    BY Zenon, ClientAssumption DEF LockInv
  <2>1. SUFFICES /\ Typed' /\ Holds(c)' /\ Found(c)' /\ Others(c)
                 /\ lock' = lock \/ lock \in {NoOne, c}
                 /\ file' = file \/ lock = c
    BY Zenon, OthersKeep DEF LockInv
  <2>2. ASSUME NEW o \in Op, o.do \in {"mark", "clear", "find"}, Lock(c, o) \/ Refused(c, o),
               file' = file
        PROVE  /\ Holds(c)' /\ Found(c)' /\ Others(c) /\ lock' \in Clients \cup {NoOne}
               /\ lock' = lock \/ lock \in {NoOne, c}
               /\ pc' \in [Clients -> PcValues]
               /\ cur' \in [Clients -> Op \cup {NoOp}] /\ pos' \in [Clients -> Nat \ {0}]
    <3>1. CASE Lock(c, o)
      BY <2>0, <2>2, <3>1 DEF Lock, Goto, Typed, PcValues, Holds, Found, Others
    <3>2. CASE Refused(c, o)
      BY Zenon, <2>0, <2>2, <3>2 DEF Refused, Goto, Typed, PcValues, Holds, Found, Others
    <3>3. QED
      BY Zenon, <2>2, <3>1, <3>2
  <2>3. CASE Call(c)
    <3>1. Prog[c][ip[c]] \in Op
      BY <2>0, <2>3, ZooAssumption DEF Call, Typed
    <3>2. /\ Prog[c][ip[c]].do \in {"mark", "clear", "find"}
          /\ Lock(c, Prog[c][ip[c]]) \/ Refused(c, Prog[c][ip[c]])
          /\ file' = file /\ ip' = ip /\ got' \in [Clients -> Pids \cup {NotFound}]
      BY Zenon, <2>0, <2>3, <3>1 DEF Call, Op, Typed
    <3>3. QED
      BY Zenon, <2>0, <2>2, <3>1, <3>2 DEF Typed
  <2>4. CASE Bump(c)
    <3> DEFINE o == [Prog[c][ip[c]] EXCEPT !.do = "clear", !.pid = got[c]]
    <3>1. Prog[c][ip[c]] \in Op /\ file' = file /\ got' = got
      BY SMTT(60), <2>0, <2>4, ZooAssumption DEF Bump, Typed
    <3>2. CASE got[c] # NotFound /\ (Lock(c, o) \/ Refused(c, o)) /\ ip' = ip
      <4>1. o \in Op /\ o.do = "clear"
        BY Zenon, <2>0, <3>1, <3>2 DEF Op, Typed
      <4> HIDE DEF o
      <4>2. QED
        BY Zenon, <2>0, <2>2, <3>1, <3>2, <4>1 DEF Typed
    <3>3. CASE ip' = [ip EXCEPT ![c] = @ + 1] /\ UNCHANGED <<lock, pc, cur, pos>>
      BY <2>0, <3>1, <3>3 DEF Typed, Holds, Found, Others
    <3>4. QED
      BY Zenon, <2>4, <3>2, <3>3 DEF Bump
  <2>5. CASE Scan(c)
    <3>1. /\ lock = c /\ cur[c].do \in {"mark", "clear", "find"} /\ cur[c] \in Op
          /\ UNCHANGED <<file, lock, ip, cur>>
      BY Zenon, <2>0, <2>5 DEF Scan, Holds
    <3>2. CASE /\ pos[c] <= Len(file) /\ Advance(c) /\ UNCHANGED <<pc, got>>
      BY <2>0, <2>5, <3>1, <3>2 DEF Scan, Advance, Typed, Holds, Found, Others
    <3>3. CASE /\ pos[c] <= Len(file) /\ Looks(c, file[pos[c]]) /\ UNCHANGED pos
               /\ IF cur[c].do = "find"
                  THEN Goto(c, "unlock") /\ got' = [got EXCEPT ![c] = file[pos[c]].pid]
                  ELSE Goto(c, "write") /\ UNCHANGED got
      <4>1. file[pos[c]] \in Lines
        BY <2>0, <3>3 DEF Typed
      <4>2. CASE cur[c].do = "find"
        <5>1. file[pos[c]].pid \in Pids
          BY Zenon, <3>3, <4>1, <4>2 DEF Looks, Lines, Entries
        <5>2. QED
          BY Zenon, <2>0, <3>1, <3>3, <4>2, <5>1
          DEF Goto, Typed, PcValues, Holds, Found, Others
      <4>3. CASE cur[c].do # "find"
        <5>1. \/ cur[c].do = "mark" /\ file[pos[c]] = Free
              \/ /\ cur[c].do = "clear" /\ file[pos[c]] # Free
                 /\ file[pos[c]].pid = cur[c].pid
          BY Zenon, <3>1, <3>3, <4>3 DEF Looks
        <5>2. QED
          BY Zenon, <2>0, <3>1, <3>3, <4>3, <5>1
          DEF Goto, Typed, PcValues, Holds, Found, Others
      <4>4. QED
        BY Zenon, <4>2, <4>3
    <3>4. CASE /\ pos[c] > Len(file) /\ UNCHANGED pos
               /\ Goto(c, IF cur[c].do = "mark" THEN "write" ELSE "unlock")
               /\ got' = IF cur[c].do = "find" THEN [got EXCEPT ![c] = NotFound] ELSE got
      <4>1. got' \in [Clients -> Pids \cup {NotFound}]
        BY Zenon, <2>0, <3>4 DEF Typed
      <4>2. QED
        BY Zenon, <2>0, <3>1, <3>4, <4>1 DEF Goto, Typed, PcValues, Holds, Found, Others
    <3>5. QED
      BY Zenon, <2>5, <3>2, <3>3, <3>4 DEF Scan
  <2>6. CASE Write(c)
    <3> DEFINE line == IF cur[c].do = "mark"
                       THEN [pid |-> cur[c].pid, tag |-> cur[c].tag] ELSE Free
    <3>1. /\ lock = c /\ cur[c] \in Op /\ UNCHANGED <<lock, ip, cur, pos, got>>
      BY Zenon, <2>0, <2>6 DEF Write, Holds
    <3>2. line \in Lines
      BY Zenon, <3>1 DEF Op, Lines, Entries
    <3> HIDE DEF line
    <3>3. file' \in Seq(Lines) /\ (Goto(c, "unlock") \/ Goto(c, "failed"))
      <4>1. CASE file' = IF pos[c] > Len(file) THEN Append(file, line)
                         ELSE [file EXCEPT ![pos[c]] = line]
        BY <2>0, <2>6, <3>2, <4>1 DEF Typed, Write
      <4>2. CASE UNCHANGED file
        BY Zenon, <2>0, <2>6, <4>2 DEF Typed, Write
      <4>3. QED
        BY Zenon, <2>6, <4>1, <4>2 DEF Write, line
    <3>4. QED
      BY Zenon, <2>0, <2>6, <3>1, <3>3 DEF Write, Goto, Typed, PcValues, Holds, Found, Others
  <2>7. CASE Unlock(c)
    <3>1. CASE /\ Drop(c) /\ ip' = [ip EXCEPT ![c] = @ + 1] /\ Forget(c) /\ got' = got
               /\ Goto(c, IF cur[c].hard /\ Missed(c) THEN "done" ELSE "idle")
      BY <2>0, <2>7, <3>1 DEF Unlock, Drop, Goto, Forget, Typed, PcValues, Holds, Found, Others
    <3>2. CASE /\ Goto(c, "failed") /\ UNCHANGED <<lock, ip, cur, pos>>
               /\ got' = IF cur[c].do = "find" THEN [got EXCEPT ![c] = NotFound] ELSE got
      <4>1. got' \in [Clients -> Pids \cup {NotFound}]
        BY Zenon, <2>0, <3>2 DEF Typed
      <4>2. QED
        BY Zenon, <2>0, <2>7, <3>2, <4>1
        DEF Unlock, Goto, Typed, PcValues, Holds, Found, Others
    <3>3. QED
      BY Zenon, <2>7, <3>1, <3>2 DEF Unlock
  <2>8. CASE Failed(c)
    <3>1. /\ pc[c] = "failed" /\ UNCHANGED <<file, got>> /\ Forget(c)
          /\ \/ Goto(c, "done") /\ Drop(c) /\ UNCHANGED ip
             \/ Goto(c, "idle") /\ ip' = [ip EXCEPT ![c] = @ + 1] /\ UNCHANGED lock
      BY <2>8, Zenon DEF Failed
    <3>2. CASE Goto(c, "done") /\ Drop(c) /\ UNCHANGED ip
      BY <2>0, <3>1, <3>2 DEF Drop, Goto, Forget, Typed, PcValues, Holds, Found, Others
    <3>3. CASE Goto(c, "idle") /\ ip' = [ip EXCEPT ![c] = @ + 1] /\ UNCHANGED lock
      BY <2>0, <3>1, <3>3 DEF Goto, Forget, Typed, PcValues, Holds, Found, Others
    <3>4. QED
      BY Zenon, <3>1, <3>2, <3>3
  <2>9. CASE Finish(c)
    BY Zenon, <2>0, <2>9 DEF Finish, Drop, Goto, Typed, PcValues, Holds, Found, Others
  <2>10. CASE Crash(c)
    BY <2>0, <2>10 DEF Crash, Drop, Goto, Forget, Typed, PcValues, Holds, Found, Others
  <2>11. CASE Start(c)
    BY Zenon, <2>0, <2>11 DEF Start, Goto, Typed, PcValues, Holds, Found, Others
  <2>12. QED
    BY ZenonT(60), <1>2, <2>3, <2>4, <2>5, <2>6, <2>7, <2>8, <2>9, <2>10, <2>11 DEF Step
<1>3. QED
  BY Zenon, <1>1, <1>2 DEF Next, Done

-----------------------------------------------------------------------------
\* zoo_mark() and zoo_clear(): the write is a mark or a clear of the bag.
LEMMA WriteStep ==
  ASSUME LockInv, NEW c \in Clients, Write(c), file' # file
  PROVE  Abs!Next
<1>1. /\ file \in Seq(Lines) /\ pos[c] \in Nat \ {0} /\ cur[c] \in Op /\ Found(c)
      /\ pc[c] = "write"
      /\ file' = Put(file, pos[c], IF cur[c].do = "mark"
                                   THEN [pid |-> cur[c].pid, tag |-> cur[c].tag] ELSE Free)
  BY Zenon DEF LockInv, Typed, Holds, Write, Put
<1>2. CASE cur[c].do = "mark" /\ (pos[c] > Len(file) \/ file[pos[c]] = Free)
  <2> DEFINE e == [pid |-> cur[c].pid, tag |-> cur[c].tag]
  <2>1. e \in Entries /\ file' = Put(file, pos[c], e)
    BY Zenon, <1>1, <1>2 DEF Op, Entries
  <2> HIDE DEF e
  <2>2. EntriesOf(file') = [EntriesOf(file) EXCEPT ![e] = @ + 1]
    BY <1>1, <1>2, <2>1, PutEntry
  <2>3. EntriesOf(file')[e] > EntriesOf(file)[e]
    <3>1. EntriesOf(file) = [x \in Entries |-> Cardinality(LinesWith(file, x))]
      BY Zenon DEF EntriesOf, Entries
    <3>2. EntriesOf(file) \in [Entries -> Nat]
      BY Zenon, <1>1, <3>1, LinesFinite
    <3>3. EntriesOf(file')[e] = EntriesOf(file)[e] + 1
      BY Zenon, <2>1, <2>2, <3>2
    <3>4. QED
      BY <2>1, <3>2, <3>3
  <2>4. QED
    BY Zenon, <2>1, <2>2, <2>3 DEF Abs!Next, Abs!Mark, Abs!Entry, Entries
<1>3. CASE /\ cur[c].do = "clear" /\ pos[c] <= Len(file)
           /\ file[pos[c]] # Free /\ file[pos[c]].pid = cur[c].pid
  <2> DEFINE e == file[pos[c]]
  <2>1. file' = Put(file, pos[c], Free) /\ cur[c].pid \in Pids
    BY Zenon, <1>1, <1>3 DEF Op
  <2>2. /\ e \in Entries /\ EntriesOf(file)[e] > 0
        /\ EntriesOf(file') = [EntriesOf(file) EXCEPT ![e] = @ - 1]
    BY Zenon, <1>1, <1>3, <2>1, PutFree
  <2> HIDE DEF e
  <2>3. EntriesOf(file)[e] > EntriesOf(file')[e]
    <3>1. EntriesOf(file) = [x \in Entries |-> Cardinality(LinesWith(file, x))]
      BY Zenon DEF EntriesOf, Entries
    <3>2. EntriesOf(file) \in [Entries -> Nat]
      BY Zenon, <1>1, <3>1, LinesFinite
    <3>3. EntriesOf(file')[e] = EntriesOf(file)[e] - 1
      BY Zenon, <2>2, <3>2
    <3>4. QED
      BY <2>2, <3>2, <3>3
  <2>4. QED
    BY Zenon, <2>2, <2>3 DEF Abs!Next, Abs!Clear, Abs!Entry, Entries
<1>4. QED
  BY Zenon, <1>1, <1>2, <1>3 DEF Found

\* The zoo file is the bag of its entries: whatever zoo_mark() and zoo_clear() of any
\* number of drivers and of ltp-bump do to it adds one whole entry or removes one, whoever
\* is killed and whatever call fails.
THEOREM ZooImplements == Spec => Implements
<1>1. Init => Abs!Init
  <2> SUFFICES ASSUME Init PROVE Abs!Init
    OBVIOUS
  <2>1. \A e : LinesWith(file, e) = {}
    BY DEF Init, LinesWith
  <2>2. QED
    BY Zenon, <2>1, FS_EmptySet DEF Abs!Init, Abs!Entry, EntriesOf
<1>2. LockInv /\ [Next]_vars => [Abs!Next]_(EntriesOf(file))
  <2> SUFFICES ASSUME LockInv, [Next]_vars, file' # file PROVE Abs!Next
    OBVIOUS
  <2>1. PICK c \in Clients : Write(c)
    BY Zenon
    DEF Next, Start, Step, Done, vars, Call, Bump, Scan, Unlock, Failed, Finish, Crash
  <2>2. QED
    BY Zenon, <2>1, WriteStep
<1>3. QED
  BY <1>1, <1>2, LockInit, LockStep, PTL DEF Spec, Implements, Abs!Spec

-----------------------------------------------------------------------------
(* Whom the file names.  Each mark that a running process has made and not yet  *)
(* cleared has a line of its own with its process number: not always the line   *)
(* it wrote, because a clear takes the first line with the number, and the      *)
(* placeholders of all drivers have the same one.                              *)

\* The mark that a clear is for.
Mate ==
  [c \in Clients |-> CHOOSE m \in [Calls(c, "clear") -> Calls(c, "mark")] : Mated(c, m)]

\* Every clear has one (the order of ltp-pan's calls).
LEMMA MateMated ==
  ASSUME NEW c \in Clients
  PROVE  Mate[c] \in [Calls(c, "clear") -> Calls(c, "mark")] /\ Mated(c, Mate[c])
BY Zenon, CallAssumption DEF Mate

\* The call has taken effect, or has failed; the mark has taken effect, its clear has not
\* been made, and no ltp-bump may take it.
Past(c, i) == i < ip[c] \/ (i = ip[c] /\ pc[c] = "unlock")
Tried(c, i) == i < ip[c] \/ (i = ip[c] /\ pc[c] \in {"unlock", "failed"})
Owed(c, m) ==
  /\ pc[c] # "done" /\ m \in Calls(c, "mark") /\ Prog[c][m].hard /\ Past(c, m)
  /\ Prog[c][m].pid \in Safe
  /\ \A i \in Calls(c, "clear") : Mate[c][i] = m => ~Tried(c, i)

\* h gives each mark that is owed a line.
Has(f, p, i) == i \in 1 .. Len(f) /\ f[i] # Free /\ f[i].pid = p
Backs(h) ==
  /\ \A c \in Clients : \A m \in Nat : Owed(c, m) => Has(file, Prog[c][m].pid, h[c][m])
  /\ \A c, d \in Clients : \A m, n \in Nat :
       Owed(c, m) /\ Owed(d, n) /\ h[c][m] = h[d][n] => c = d /\ m = n
Backed == \E h \in [Clients -> [Nat -> Nat]] : Backs(h)

\* The lines are of marks of processes that have begun, and what zoo_getpid() has found
\* is the number of one whose tag somebody looks for.
Enters(p, t) ==
  \E d \in Clients : pc[d] # "new" /\ \E k \in Calls(d, "mark") :
    Prog[d][k].pid = p /\ Prog[d][k].tag = t
Known == \A i \in 1 .. Len(file) : file[i] = Free \/ Enters(file[i].pid, file[i].tag)
Learnt(c) == got[c] = NotFound \/ \E t : Enters(got[c], t) /\ Sought(t)

\* The call a process is in is the one its program is at, or ltp-bump's clear, which if
\* anybody may still rely on the number is of its only owner, who is dead.
Own(c) == cur[c] = Prog[c][ip[c]] /\ Prog[c][ip[c]].do # "bump"
Buries(c) ==
  /\ Prog[c][ip[c]].do = "bump" /\ cur[c].do = "clear"
  /\ cur[c].pid \in Safe => \E d \in Clients : Sole(d, cur[c].pid) /\ pc[d] = "done"
Doing(c) ==
  pc[c] \in {"scan", "write", "unlock", "failed"} =>
    ip[c] \in 1 .. Len(Prog[c]) /\ (Own(c) \/ Buries(c))

\* The lines a clear has read are not the one it looks for.
Passed(c) ==
  pc[c] = "scan" /\ cur[c].do = "clear" => \A j \in 1 .. pos[c] - 1 : ~Has(file, cur[c].pid, j)

\* Who comes to the end of the file in a clear enters nobody.
Misses(c) ==
  pc[c] = "unlock" /\ Missed(c) /\ cur[c].pid \in Safe => Calls(c, "mark") = {}

\* A driver that has entered itself is in the file as itself.
Driver(c) ==
  /\ 1 \in Calls(c, "mark") /\ Prog[c][1].hard /\ Pid[c] \in Safe /\ Pid[c] \in Private
  /\ Prog[c][1] = [do |-> "mark", pid |-> Pid[c], tag |-> Prog[c][1].tag, hard |-> TRUE]
Named(c) ==
  \E i \in 1 .. Len(file) : file[i] = [pid |-> Pid[c], tag |-> Prog[c][1].tag]
Within(c) ==
  ip[c] \in 2 .. Len(Prog[c]) /\ (ip[c] = Len(Prog[c]) => pc[c] \notin {"unlock", "failed"})
Entered(c) ==
  Driver(c) /\ pc[c] # "done" /\ (Within(c) \/ (ip[c] = 1 /\ pc[c] = "unlock"))
Live(c) == Entered(c) => Named(c)

\* Nobody has made a call before it begins; of one number, at most one process exists.
Fresh(c) == pc[c] = "new" => ip[c] = 1
OneAlive == \A c, d \in Clients : Alive(c) /\ Alive(d) /\ Pid[c] = Pid[d] => c = d

ClientInv(c) == Learnt(c) /\ Doing(c) /\ Passed(c) /\ Misses(c) /\ Fresh(c)
ZooInv ==
  /\ LockInv /\ OneAlive /\ Known /\ Backed /\ NoneMissing
  /\ \A c \in Clients : ClientInv(c) /\ Live(c)

\* Nobody has made a call.
LEMMA ZooInit == Init => ZooInv
<1> SUFFICES ASSUME Init PROVE ZooInv
  OBVIOUS
<1>1. LockInv
  BY Zenon, LockInit
<1>2. Known /\ NoneMissing /\ OneAlive
  BY DEF Init, Known, NoneMissing, OneAlive, Alive
<1>3. ASSUME NEW c \in Clients, NEW m \in Nat PROVE ~Owed(c, m)
  BY DEF Init, Owed, Past, Calls
<1>4. Backed
  <2>1. [c \in Clients |-> [m \in Nat |-> 0]] \in [Clients -> [Nat -> Nat]]
    OBVIOUS
  <2>2. QED
    BY Zenon, <1>3, <2>1 DEF Backed, Backs
<1>5. ASSUME NEW c \in Clients PROVE ClientInv(c) /\ Live(c)
  <2>1. pc[c] = "new" /\ ip[c] = 1 /\ got[c] = NotFound
    BY Zenon DEF Init
  <2>2. ClientInv(c)
    BY Zenon, <2>1 DEF ClientInv, Learnt, Doing, Passed, Misses, Fresh
  <2>3. ~Entered(c)
    BY <2>1 DEF Entered, Within
  <2>4. QED
    BY Zenon, <2>2, <2>3 DEF Live
<1>6. QED
  BY Zenon, <1>1, <1>2, <1>4, <1>5 DEF ZooInv

\* What a step of one process leaves of the others.
Rest(c) ==
  /\ Others(c) /\ \A d \in Clients \ {c} : ip'[d] = ip[d] /\ got'[d] = got[d]
  /\ pc[c] # "done" /\ pc'[c] # "new"

\* A step is of one process, which exists or begins.
LEMMA RestFacts ==
  ASSUME Typed, NEW c \in Clients, Start(c) \/ Step(c) \/ Crash(c)
  PROVE  Rest(c) /\ (Alive(c) \/ Start(c))
<1>1. CASE Call(c)
  BY ZenonT(60), <1>1 DEF Typed, Rest, Others, Call, Lock, Refused, Goto, Alive
<1>2. CASE Bump(c)
  BY Zenon, <1>2 DEF Typed, Rest, Others, Bump, Lock, Refused, Goto, Alive
<1>3. CASE Scan(c)
  BY ZenonT(60), <1>3 DEF Typed, Rest, Others, Scan, Advance, Goto, Alive
<1>4. CASE Write(c)
  BY Zenon, <1>4 DEF Typed, Rest, Others, Write, Goto, Alive
<1>5. CASE Unlock(c)
  BY Zenon, <1>5 DEF Typed, Rest, Others, Unlock, Goto, Forget, Alive
<1>6. CASE Failed(c)
  BY Zenon, <1>6 DEF Typed, Rest, Others, Failed, Goto, Forget, Alive
<1>7. CASE Finish(c)
  BY Zenon, <1>7 DEF Typed, Rest, Others, Finish, Goto, Alive
<1>8. CASE Crash(c)
  BY Zenon, <1>8 DEF Typed, Rest, Others, Crash, Goto, Forget, Alive
<1>9. CASE Start(c)
  BY Zenon, <1>9 DEF Typed, Rest, Others, Start, Goto
<1>10. QED
  BY Zenon, <1>1, <1>2, <1>3, <1>4, <1>5, <1>6, <1>7, <1>8, <1>9 DEF Step

\* A process begins only with a number that no other has.
LEMMA AliveStep == Typed /\ OneAlive /\ [Next]_vars => OneAlive'
<1> SUFFICES ASSUME Typed, OneAlive, [Next]_vars PROVE OneAlive'
  OBVIOUS
<1>1. CASE UNCHANGED vars
  BY Zenon, <1>1 DEF OneAlive, Alive, vars
<1>2. ASSUME NEW c \in Clients, Start(c) \/ Step(c) \/ Crash(c) PROVE OneAlive'
  <2>1. Rest(c) /\ (Alive(c) \/ Start(c))
    BY Zenon, <1>2, RestFacts
  <2>2. \A d \in Clients : d # c => (Alive(d)' <=> Alive(d))
    BY Zenon, <2>1 DEF Rest, Others, Alive
  <2>3. CASE Alive(c)
    BY Zenon, <2>2, <2>3 DEF OneAlive
  <2>4. CASE Start(c)
    <3>1. \A d \in Clients : Pid[d] = Pid[c] => ~Alive(d)
      BY Zenon, <2>4 DEF Start, Gone
    <3>2. QED
      BY Zenon, <2>2, <3>1 DEF OneAlive
  <2>5. QED
    BY Zenon, <2>1, <2>3, <2>4
<1>3. QED
  BY Zenon, <1>1, <1>2 DEF Next, Done

\* Who has begun has begun.
LEMMA EntersStays ==
  ASSUME NEW c \in Clients, Rest(c), NEW p, NEW t, Enters(p, t)
  PROVE  Enters(p, t)'
<1>1. \A d \in Clients : pc[d] # "new" => pc'[d] # "new"
  BY Zenon DEF Rest, Others
<1>2. QED
  BY Zenon, <1>1 DEF Enters

\* The other processes keep what they know and where they are.
LEMMA RestKeep ==
  ASSUME ZooInv, NEW c \in Clients, Rest(c), file' = file \/ lock = c,
         NEW d \in Clients, d # c
  PROVE  /\ ClientInv(d)' /\ Entered(d)' = Entered(d)
         /\ \A m \in Nat : Owed(d, m)' = Owed(d, m)
<1>1. /\ pc'[d] = pc[d] /\ cur'[d] = cur[d] /\ pos'[d] = pos[d]
      /\ ip'[d] = ip[d] /\ got'[d] = got[d]
  BY Zenon DEF Rest, Others
<1>2. \A e \in Clients : pc[e] = "done" => pc'[e] = "done"
  BY Zenon DEF Rest, Others
<1>3. ClientInv(d) /\ Holds(d)
  BY Zenon DEF ZooInv, LockInv
<1>4. Learnt(d)' /\ Doing(d)'
  <2>1. Learnt(d)'
    BY Zenon, <1>1, <1>3, EntersStays DEF ClientInv, Learnt
  <2>2. QED
    BY Zenon, <1>1, <1>2, <1>3, <2>1 DEF ClientInv, Doing, Own, Buries
<1>5. pc[d] \in {"scan", "unlock"} => file' = file
  BY Zenon, <1>3 DEF Holds
<1>6. Passed(d)' /\ Misses(d)' /\ Fresh(d)'
  BY Zenon, <1>1, <1>3, <1>5 DEF ClientInv, Passed, Has, Misses, Missed, Fresh
<1>7. QED
  BY Zenon, <1>1, <1>4, <1>6 DEF ClientInv, Entered, Within, Owed, Past, Tried

\* A step that does not write, and owes no more than before.
LEMMA QuietStep ==
  ASSUME ZooInv, NEW c \in Clients, Rest(c), LockInv', OneAlive', file' = file,
         NoneMissing', ClientInv(c)', Entered(c)' => Entered(c),
         \A m \in Nat : Owed(c, m)' => Owed(c, m)
  PROVE  ZooInv'
<1>1. ASSUME NEW d \in Clients, NEW m \in Nat, Owed(d, m)' PROVE Owed(d, m)
  BY Zenon, <1>1, RestKeep
<1>2. Backed'
  <2>1. PICK h \in [Clients -> [Nat -> Nat]] : Backs(h)
    BY Zenon DEF ZooInv, Backed
  <2>2. \A d \in Clients : \A m \in Nat : Owed(d, m)' => Has(file', Prog[d][m].pid, h[d][m])
    BY Zenon, <1>1, <2>1 DEF Backs, Has
  <2>3. \A d, e \in Clients : \A m, n \in Nat :
          Owed(d, m)' /\ Owed(e, n)' /\ h[d][m] = h[e][n] => d = e /\ m = n
    BY Zenon, <1>1, <2>1 DEF Backs
  <2>4. Backs(h)'
    BY Zenon, <2>2, <2>3 DEF Backs
  <2>5. QED
    BY Zenon, <2>4 DEF Backed
<1>3. ASSUME NEW d \in Clients PROVE ClientInv(d)' /\ Live(d)'
  <2>1. ClientInv(d)' /\ (Entered(d)' => Entered(d))
    BY Zenon, RestKeep
  <2>2. Live(d)
    BY Zenon DEF ZooInv
  <2>3. QED
    BY Zenon, <2>1, <2>2 DEF Live, Named
<1>4. Known'
  BY Zenon, EntersStays DEF ZooInv, Known
<1>5. QED
  BY Zenon, <1>2, <1>3, <1>4 DEF ZooInv

\* How far a process is: it stays before the effect of its call, fails, returns, ends a
\* call that is no mark, or ends.
Still(c) ==
  pc[c] \notin {"unlock", "failed", "done"} /\ pc'[c] # "unlock" /\ ip'[c] = ip[c]
Fails(c) == pc[c] # "done" /\ pc'[c] = "failed" /\ ip'[c] = ip[c]
Returns(c) == pc[c] = "unlock" /\ pc'[c] # "unlock" /\ ip'[c] = ip[c] + 1
HardMark(c, i) == i \in Calls(c, "mark") /\ Prog[c][i].hard
MarksNone(c) ==
  /\ ~HardMark(c, ip[c]) /\ pc[c] \notin {"unlock", "done"}
  /\ \/ ip'[c] = ip[c] /\ pc'[c] = "unlock"
     \/ ip'[c] = ip[c] + 1 /\ pc'[c] # "unlock"
Turns(c) == pc'[c] = "done" \/ Still(c) \/ Fails(c) \/ Returns(c) \/ MarksNone(c)

\* A mark is no more owed, if those that have taken effect and are hard had done so before,
\* and the clears that were tried still are.
LEMMA OwedBack ==
  ASSUME NEW c \in Clients, pc[c] # "done",
         \A i \in Nat : /\ Past(c, i)' /\ HardMark(c, i) => Past(c, i)
                        /\ Tried(c, i) => Tried(c, i)'
  PROVE  \A m \in Nat : Owed(c, m)' => Owed(c, m)
<1>1. \A i \in Calls(c, "clear") : i \in Nat
  BY DEF Calls
<1>2. QED
  BY Zenon, <1>1 DEF Owed, HardMark

\* None of these owes another mark, or makes a process enter itself.
LEMMA OwesNoMore ==
  ASSUME NEW c \in Clients, ip[c] \in Nat \ {0}, Turns(c)
  PROVE  (Entered(c)' => Entered(c)) /\ \A m \in Nat : Owed(c, m)' => Owed(c, m)
<1>1. CASE pc'[c] = "done"
  BY Zenon, <1>1 DEF Entered, Owed
<1>2. CASE Still(c) \/ Fails(c)
  <2>1. Entered(c)' => Entered(c)
    BY Zenon, <1>2 DEF Entered, Within, Still, Fails
  <2>2. QED
    BY Zenon, <1>2, <2>1, OwedBack DEF Past, Tried, Still, Fails
<1>3. CASE Returns(c)
  <2>1. Entered(c)' => Entered(c)
    BY <1>3 DEF Entered, Within, Returns, Driver
  <2>2. ASSUME NEW i \in Nat
        PROVE  (Past(c, i)' => Past(c, i)) /\ (Tried(c, i) => Tried(c, i)')
    BY <1>3 DEF Past, Tried, Returns
  <2>3. QED
    BY Zenon, <1>3, <2>1, <2>2, OwedBack DEF Returns
<1>4. CASE MarksNone(c)
  <2>1. Entered(c)' => Entered(c)
    <3>1. Driver(c) => ip[c] # 1
      BY Zenon, <1>4 DEF MarksNone, HardMark, Driver
    <3>2. QED
      BY <1>4, <3>1 DEF Entered, Within, MarksNone, Driver
  <2>2. ASSUME NEW i \in Nat
        PROVE  (Past(c, i)' => Past(c, i) \/ i = ip[c]) /\ (Tried(c, i) => Tried(c, i)')
    BY <1>4 DEF Past, Tried, MarksNone
  <2>3. QED
    BY Zenon, <1>4, <2>1, <2>2, OwedBack DEF MarksNone
<1>5. QED
  BY Zenon, <1>1, <1>2, <1>3, <1>4 DEF Turns

\* So all but the writes keep the invariant, if the process itself is where it should be.
LEMMA TurnStep ==
  ASSUME ZooInv, NEW c \in Clients, Start(c) \/ Step(c) \/ Crash(c), LockInv', OneAlive',
         file' = file, NoneMissing', ClientInv(c)', Turns(c)
  PROVE  ZooInv'
<1>1. Typed /\ ip[c] \in Nat \ {0}
  BY Zenon DEF ZooInv, LockInv, Typed
<1>2. Rest(c)
  BY Zenon, <1>1, RestFacts
<1>3. QED
  BY Zenon, <1>1, <1>2, OwesNoMore, QuietStep

\* zoo_mark(), zoo_clear() or zoo_getpid() is called.
LEMMA CallKeeps ==
  ASSUME ZooInv, NEW c \in Clients, Call(c), LockInv', OneAlive'
  PROVE  ZooInv'
<1>1. Typed /\ ClientInv(c) /\ NoneMissing
  BY Zenon DEF ZooInv, LockInv
<1>2. /\ ip[c] \in 1 .. Len(Prog[c]) /\ Prog[c][ip[c]].do # "bump" /\ pc[c] = "idle"
      /\ file' = file /\ ip' = ip /\ warned' = warned
  BY <1>1 DEF Typed, Call
<1>3. /\ pc'[c] \in {"scan", "failed"} /\ cur'[c] = Prog[c][ip[c]]
      /\ pc'[c] = "scan" => pos'[c] = 1
      /\ got'[c] \in {got[c], NotFound}
  BY Zenon, <1>1 DEF Typed, Call, Lock, Refused, Goto
<1>4. Learnt(c)' /\ Doing(c)' /\ Misses(c)' /\ Fresh(c)'
  <2>1. Rest(c)
    BY Zenon, <1>1, RestFacts DEF Step
  <2>2. QED
    BY Zenon, <1>1, <1>2, <1>3, <2>1, EntersStays
    DEF ClientInv, Learnt, Doing, Own, Misses, Fresh
<1>5. Passed(c)'
  <2>1. pos'[c] = 1 => \A j \in 1 .. pos'[c] - 1 : FALSE
    OBVIOUS
  <2>2. QED
    BY Zenon, <1>3, <2>1 DEF Passed
<1>6. Turns(c) /\ NoneMissing'
  BY Zenon, <1>1, <1>2, <1>3 DEF Turns, Still, NoneMissing
<1>7. QED
  BY Zenon, <1>2, <1>4, <1>5, <1>6, TurnStep DEF ClientInv, Step

\* A process begins.
LEMMA StartKeeps ==
  ASSUME ZooInv, NEW c \in Clients, Start(c), LockInv', OneAlive'
  PROVE  ZooInv'
<1>1. Typed /\ ClientInv(c) /\ NoneMissing
  BY Zenon DEF ZooInv, LockInv
<1>2. /\ pc[c] = "new" /\ pc'[c] = "idle" /\ file' = file /\ ip' = ip /\ got' = got
      /\ warned' = warned
  BY Zenon, <1>1 DEF Typed, Start, Goto
<1>3. Rest(c)
  BY Zenon, <1>1, RestFacts
<1>4. ClientInv(c)'
  BY Zenon, <1>1, <1>2, <1>3, EntersStays
  DEF ClientInv, Learnt, Doing, Passed, Misses, Fresh
<1>5. Turns(c) /\ NoneMissing'
  BY Zenon, <1>1, <1>2 DEF Turns, Still, NoneMissing
<1>6. QED
  BY Zenon, <1>2, <1>4, <1>5, TurnStep

\* ltp-bump clears what is dead, and if anybody relies on the number, its only owner.
LEMMA BumpKeeps ==
  ASSUME ZooInv, NEW c \in Clients, Bump(c), LockInv', OneAlive'
  PROVE  ZooInv'
<1>1. Typed /\ ClientInv(c) /\ NoneMissing
  BY Zenon DEF ZooInv, LockInv
<1>2. /\ ip[c] \in 1 .. Len(Prog[c]) /\ Prog[c][ip[c]].do = "bump" /\ pc[c] = "idle"
      /\ file' = file /\ got' = got /\ warned' = warned
  BY <1>1 DEF Typed, Bump
<1>3. Rest(c)
  BY Zenon, <1>1, RestFacts DEF Step
<1>4. NoneMissing' /\ Learnt(c)'
  BY Zenon, <1>1, <1>2, <1>3, EntersStays DEF NoneMissing, ClientInv, Learnt
<1>5. Doing(c)' /\ Passed(c)' /\ Misses(c)' /\ Fresh(c)' /\ Turns(c)
  <2> DEFINE o == [Prog[c][ip[c]] EXCEPT !.do = "clear", !.pid = got[c]]
  <2>1. CASE got[c] # NotFound /\ Gone(got[c]) /\ (Lock(c, o) \/ Refused(c, o)) /\ ip' = ip
    <3>1. o.do = "clear" /\ o.pid = got[c]
      <4>1. Prog[c][ip[c]] \in Op
        BY <1>2, ZooAssumption
      <4>2. QED
        BY Zenon, <4>1 DEF Op
    <3> HIDE DEF o
    <3>2. got[c] \in Safe => \E d \in Clients : Sole(d, got[c]) /\ pc[d] = "done"
      <4>1. SUFFICES ASSUME got[c] \in Safe
                     PROVE  \E d \in Clients : Sole(d, got[c]) /\ pc[d] = "done"
        OBVIOUS
      <4>2. PICK d \in Clients : pc[d] # "new" /\ \E k \in Calls(d, "mark") :
              Prog[d][k].pid = got[c] /\ Sought(Prog[d][k].tag)
        BY Zenon, <1>1, <2>1 DEF ClientInv, Learnt, Enters
      <4>3. ~Unsought(got[c]) /\ got[c] # 0
        BY Zenon, <2>1, <4>2 DEF Unsought, Gone
      <4>4. PICK b \in Clients : Sole(b, got[c])
        BY Zenon, <4>1, <4>3 DEF Safe
      <4>5. b = d /\ ~Alive(b)
        BY Zenon, <2>1, <4>2, <4>4 DEF Sole, Gone
      <4>6. QED
        BY Zenon, <4>2, <4>4, <4>5 DEF Alive
    <3>3. /\ pc'[c] \in {"scan", "failed"} /\ cur'[c] = o
          /\ pc'[c] = "scan" => pos'[c] = 1
          /\ \A d \in Clients : pc[d] = "done" => pc'[d] = "done"
      BY Zenon, <1>1, <1>2, <2>1 DEF Typed, Lock, Refused, Goto
    <3>4. Doing(c)'
      BY Zenon, <1>2, <2>1, <3>1, <3>2, <3>3 DEF Doing, Buries
    <3>5. pos'[c] = 1 => \A j \in 1 .. pos'[c] - 1 : FALSE
      OBVIOUS
    <3>6. QED
      BY Zenon, <1>2, <2>1, <3>3, <3>4, <3>5 DEF Passed, Misses, Fresh, Turns, Still
  <2>2. CASE ip' = [ip EXCEPT ![c] = @ + 1] /\ UNCHANGED <<lock, pc, cur, pos, mishaps>>
    <3>1. ip'[c] = ip[c] + 1 /\ pc'[c] = "idle"
      BY Zenon, <1>1, <1>2, <2>2 DEF Typed
    <3>2. ~HardMark(c, ip[c])
      BY Zenon, <1>2 DEF HardMark, Calls
    <3>3. QED
      BY Zenon, <1>2, <3>1, <3>2 DEF Doing, Passed, Misses, Fresh, Turns, MarksNone
  <2>3. QED
    BY Zenon, <2>1, <2>2 DEF Bump
<1>6. QED
  BY Zenon, <1>2, <1>4, <1>5, TurnStep DEF ClientInv, Step

\* A process that is about to clear what it entered has a mark that is owed.
LEMMA ClearOwed ==
  ASSUME NEW c \in Clients, ip[c] \in Calls(c, "clear"), pc[c] \in {"scan", "write"},
         Prog[c][ip[c]].pid \in Safe, ip[c] \in Nat
  PROVE  /\ Mate[c][ip[c]] \in Nat /\ Owed(c, Mate[c][ip[c]])
         /\ Prog[c][Mate[c][ip[c]]].pid = Prog[c][ip[c]].pid
<1> DEFINE m == Mate[c][ip[c]]
<1>1. /\ m \in Calls(c, "mark") /\ m < ip[c] /\ Prog[c][m].hard
      /\ Prog[c][m].pid = Prog[c][ip[c]].pid
      /\ \A i \in Calls(c, "clear") : Mate[c][i] = m => i = ip[c]
  BY ZenonT(60), MateMated DEF Mated
<1>2. m \in Nat /\ ~Tried(c, ip[c])
  BY <1>1 DEF Tried, Calls
<1>3. QED
  BY Zenon, <1>1, <1>2 DEF Owed, Past

\* It finds a line: the clear does not come to the end of the file.
LEMMA ClearFinds ==
  ASSUME ZooInv, NEW c \in Clients, pc[c] = "scan", cur[c].do = "clear", Own(c),
         pos[c] > Len(file), cur[c].pid \in Safe
  PROVE  FALSE
<1>1. Typed /\ Doing(c) /\ Passed(c)
  BY Zenon DEF ZooInv, LockInv, ClientInv
<1>2. ip[c] \in Calls(c, "clear") /\ cur[c].pid = Prog[c][ip[c]].pid /\ ip[c] \in Nat
  BY Zenon, <1>1 DEF Doing, Own, Calls, Typed
<1>3. PICK h \in [Clients -> [Nat -> Nat]] : Backs(h)
  BY Zenon DEF ZooInv, Backed
<1>4. Has(file, cur[c].pid, h[c][Mate[c][ip[c]]])
  BY Zenon, <1>2, <1>3, ClearOwed DEF Backs
<1>5. \A j \in 1 .. Len(file) : j \in 1 .. pos[c] - 1
  BY <1>1 DEF Typed
<1>6. QED
  BY Zenon, <1>1, <1>4, <1>5 DEF Passed, Has

\* A line is read, or the end of the file.
LEMMA ScanKeeps ==
  ASSUME ZooInv, NEW c \in Clients, Scan(c), LockInv', OneAlive'
  PROVE  ZooInv'
<1>1. Typed /\ ClientInv(c) /\ NoneMissing /\ Holds(c)
  BY Zenon DEF ZooInv, LockInv
<1>2. /\ pc[c] = "scan" /\ file' = file /\ ip' = ip /\ cur' = cur /\ pos[c] \in Nat \ {0}
      /\ ip[c] \in 1 .. Len(Prog[c]) /\ (Own(c) \/ Buries(c)) /\ warned' = warned
      /\ cur[c].do \in {"mark", "clear", "find"}
  BY Zenon, <1>1 DEF Typed, Scan, ClientInv, Doing, Holds
<1>3. Rest(c)
  BY Zenon, <1>1, RestFacts DEF Step
<1>4. ASSUME pc'[c] \in {"scan", "write", "unlock"}
      PROVE  Doing(c)' /\ NoneMissing' /\ Fresh(c)'
  <2>1. \A d \in Clients : pc[d] = "done" => pc'[d] = "done"
    BY Zenon, <1>3 DEF Rest, Others
  <2>2. QED
    BY Zenon, <1>1, <1>2, <1>4, <2>1 DEF Doing, Own, Buries, NoneMissing, Fresh
<1>5. got'[c] \in {got[c], NotFound} => Learnt(c)'
  BY Zenon, <1>1, <1>3, EntersStays DEF ClientInv, Learnt
<1>6. SUFFICES NoneMissing' /\ ClientInv(c)' /\ Turns(c)
  BY Zenon, <1>2, TurnStep DEF Step
<1>7. CASE /\ pos[c] <= Len(file) /\ ~Looks(c, file[pos[c]])
           /\ Advance(c) /\ UNCHANGED <<pc, got>>
  <2>1. pos'[c] = pos[c] + 1 /\ pc' = pc /\ got' = got
    BY Zenon, <1>1, <1>7 DEF Typed, Advance
  <2>2. Passed(c)'
    <3>1. SUFFICES ASSUME cur[c].do = "clear", NEW j \in 1 .. pos[c]
                   PROVE  ~Has(file, cur[c].pid, j)
      <4>1. pos'[c] - 1 = pos[c]
        BY <1>2, <2>1
      <4>2. QED
        BY Zenon, <1>2, <4>1 DEF Passed, Has
    <3>2. ~Has(file, cur[c].pid, pos[c])
      BY Zenon, <1>7, <3>1 DEF Looks, Has
    <3>3. j # pos[c] => j \in 1 .. pos[c] - 1
      BY <1>2
    <3>4. QED
      BY Zenon, <1>1, <1>2, <3>1, <3>2, <3>3 DEF ClientInv, Passed
  <2>3. Misses(c)' /\ Turns(c)
    BY Zenon, <1>2, <2>1 DEF Misses, Turns, Still
  <2>4. QED
    BY Zenon, <1>2, <1>4, <1>5, <2>1, <2>2, <2>3 DEF ClientInv
<1>8. CASE /\ pos[c] <= Len(file) /\ Looks(c, file[pos[c]]) /\ UNCHANGED pos
           /\ IF cur[c].do = "find"
              THEN Goto(c, "unlock") /\ got' = [got EXCEPT ![c] = file[pos[c]].pid]
              ELSE Goto(c, "write") /\ UNCHANGED got
  <2>1. CASE cur[c].do = "find"
    <3>1. pc'[c] = "unlock" /\ got'[c] = file[pos[c]].pid
      BY Zenon, <1>1, <1>8, <2>1 DEF Typed, Goto
    <3>2. ip[c] \in Calls(c, "find") /\ cur[c] = Prog[c][ip[c]]
      BY Zenon, <1>2, <2>1 DEF Own, Buries, Calls
    <3>3. ~HardMark(c, ip[c])
      BY Zenon, <3>2 DEF HardMark, Calls
    <3>4. file[pos[c]] # Free /\ Sought(file[pos[c]].tag) /\ pos[c] \in 1 .. Len(file)
      <4>1. file[pos[c]] # Free /\ IsPrefix[<<file[pos[c]].tag, cur[c].tag>>]
        BY Zenon, <1>8, <2>1 DEF Looks
      <4>2. pos[c] \in 1 .. Len(file)
        BY <1>1, <1>2, <1>8 DEF Typed
      <4>3. QED
        BY Zenon, <3>2, <4>1, <4>2 DEF Sought
    <3>5. Learnt(c)'
      <4>1. Enters(file[pos[c]].pid, file[pos[c]].tag)
        BY Zenon, <3>4 DEF ZooInv, Known
      <4>2. \E t : Enters(got'[c], t) /\ Sought(t)
        BY Zenon, <3>1, <3>4, <4>1
      <4>3. QED
        BY Zenon, <1>3, <4>2, EntersStays DEF Learnt
    <3>6. Misses(c)' /\ Passed(c)' /\ Turns(c)
      BY Zenon, <1>2, <2>1, <3>1, <3>3 DEF Misses, Missed, Passed, Turns, MarksNone
    <3>7. QED
      BY Zenon, <1>4, <3>1, <3>5, <3>6 DEF ClientInv
  <2>2. CASE cur[c].do # "find"
    <3>1. pc'[c] = "write" /\ got' = got
      BY Zenon, <1>1, <1>8, <2>2 DEF Typed, Goto
    <3>2. Misses(c)' /\ Passed(c)' /\ Turns(c)
      BY Zenon, <1>2, <3>1 DEF Misses, Passed, Turns, Still
    <3>3. QED
      BY Zenon, <1>4, <1>5, <3>1, <3>2 DEF ClientInv
  <2>3. QED
    BY Zenon, <2>1, <2>2
<1>9. CASE /\ pos[c] > Len(file) /\ UNCHANGED pos
           /\ Goto(c, IF cur[c].do = "mark" THEN "write" ELSE "unlock")
           /\ got' = IF cur[c].do = "find" THEN [got EXCEPT ![c] = NotFound] ELSE got
  <2>1. /\ pc'[c] = IF cur[c].do = "mark" THEN "write" ELSE "unlock"
        /\ got'[c] \in {got[c], NotFound}
    BY Zenon, <1>1, <1>9 DEF Typed, Goto
  <2>2. Turns(c)
    <3>1. CASE cur[c].do = "mark"
      BY Zenon, <1>2, <2>1, <3>1 DEF Turns, Still
    <3>2. CASE cur[c].do # "mark"
      <4>1. ~HardMark(c, ip[c])
        BY Zenon, <1>2, <3>2 DEF HardMark, Calls, Own, Buries
      <4>2. QED
        BY Zenon, <1>2, <2>1, <3>2, <4>1 DEF Turns, MarksNone
    <3>3. QED
      BY Zenon, <3>1, <3>2
  <2>3. Misses(c)'
    <3>1. SUFFICES ASSUME cur[c].do = "clear", cur[c].pid \in Safe
                   PROVE  Calls(c, "mark") = {}
      BY Zenon, <1>2 DEF Misses, Missed
    <3>2. ip[c] \in Calls(c, "bump")
      BY Zenon, <1>2, <1>9, <3>1, ClearFinds DEF Buries, Calls
    <3>3. QED
      BY Zenon, <3>2, CallAssumption
  <2>4. Passed(c)'
    BY Zenon, <2>1 DEF Passed
  <2>5. QED
    BY Zenon, <1>4, <1>5, <2>1, <2>2, <2>3, <2>4 DEF ClientInv
<1>10. QED
  BY Zenon, <1>7, <1>8, <1>9 DEF Scan

\* A call returns, or fails, or its process ends or is killed.
LEMMA EndKeeps ==
  ASSUME ZooInv, NEW c \in Clients, Unlock(c) \/ Failed(c) \/ Finish(c) \/ Crash(c),
         LockInv', OneAlive'
  PROVE  ZooInv'
<1>1. Typed /\ ClientInv(c) /\ NoneMissing
  BY Zenon DEF ZooInv, LockInv
<1>2. /\ file' = file /\ got'[c] \in {got[c], NotFound}
      /\ pc'[c] \in {"idle", "done", "failed"}
  BY Zenon, <1>1 DEF Typed, Unlock, Failed, Finish, Crash, Goto
<1>3. Rest(c)
  BY Zenon, <1>1, RestFacts DEF Step
<1>4. Learnt(c)' /\ Passed(c)' /\ Misses(c)' /\ Fresh(c)'
  BY Zenon, <1>1, <1>2, <1>3, EntersStays DEF ClientInv, Learnt, Passed, Misses, Fresh
<1>5. pc'[c] # "failed" => Doing(c)'
  BY Zenon, <1>2 DEF Doing
<1>6. CASE pc[c] = "unlock" /\ pc'[c] = "failed" /\ warned' = warned
           /\ ip' = ip /\ cur' = cur
  <2>1. \A d \in Clients : pc[d] = "done" => pc'[d] = "done"
    BY Zenon, <1>3 DEF Rest, Others
  <2>2. Doing(c)'
    BY Zenon, <1>1, <1>6, <2>1 DEF ClientInv, Doing, Own, Buries
  <2>3. NoneMissing' /\ Turns(c)
    BY Zenon, <1>1, <1>6 DEF NoneMissing, Turns, Fails
  <2>4. QED
    BY Zenon, <1>2, <1>4, <2>2, <2>3, TurnStep DEF Step, ClientInv
<1>7. CASE Unlock(c) /\ ip' = [ip EXCEPT ![c] = @ + 1] /\ pc'[c] \in {"idle", "done"}
           /\ warned' = IF Missed(c) THEN warned \cup {<<c, cur[c].pid>>} ELSE warned
  <2>1. pc[c] = "unlock" /\ ip'[c] = ip[c] + 1
    BY Zenon, <1>1, <1>7 DEF Typed, Unlock
  <2>2. Turns(c)
    BY Zenon, <1>7, <2>1 DEF Turns, Returns
  <2>3. NoneMissing'
    <3>1. CASE ~Missed(c)
      BY Zenon, <1>1, <1>7, <3>1 DEF NoneMissing
    <3>2. CASE Missed(c)
      <4>1. cur[c].pid \in Safe => Calls(c, "mark") = {}
        BY Zenon, <1>1, <2>1, <3>2 DEF ClientInv, Misses
      <4>2. <<c, cur[c].pid>>[1] = c /\ <<c, cur[c].pid>>[2] = cur[c].pid
        OBVIOUS
      <4>3. QED
        BY Zenon, <1>1, <1>7, <3>2, <4>1, <4>2 DEF NoneMissing
    <3>3. QED
      BY Zenon, <3>1, <3>2
  <2>4. QED
    BY Zenon, <1>2, <1>4, <1>5, <1>7, <2>2, <2>3, TurnStep DEF Step, ClientInv
<1>8. CASE Failed(c) \/ Finish(c) \/ Crash(c)
  <2>1. warned' = warned /\ pc'[c] # "failed"
    BY Zenon, <1>1, <1>8 DEF Typed, Failed, Finish, Crash, Goto
  <2>2. NoneMissing'
    BY Zenon, <1>1, <2>1 DEF NoneMissing
  <2>3. Turns(c)
    <3>1. CASE Failed(c) /\ pc'[c] # "done"
      <4>1. pc[c] = "failed" /\ ~cur[c].hard /\ ip'[c] = ip[c] + 1
        BY Zenon, <1>1, <3>1 DEF Typed, Failed, Goto
      <4>2. Own(c) \/ Buries(c)
        BY Zenon, <1>1, <4>1 DEF ClientInv, Doing
      <4>3. ~HardMark(c, ip[c])
        BY Zenon, <4>1, <4>2 DEF HardMark, Own, Buries, Calls
      <4>4. QED
        BY Zenon, <1>2, <2>1, <4>1, <4>3 DEF Turns, MarksNone
    <3>2. CASE Finish(c) \/ Crash(c)
      BY Zenon, <1>1, <3>2 DEF Typed, Finish, Crash, Goto, Turns
    <3>3. QED
      BY Zenon, <1>8, <3>1, <3>2 DEF Turns
  <2>4. QED
    BY Zenon, <1>2, <1>4, <1>5, <1>8, <2>1, <2>2, <2>3, TurnStep DEF Step, ClientInv
<1>9. QED
  <2>1. CASE Unlock(c)
    BY Zenon, <1>1, <1>6, <1>7, <2>1 DEF Unlock, Typed, Goto
  <2>2. QED
    BY Zenon, <1>8, <2>1

\* A write: the line at i becomes what the call makes of it, and the call has taken effect.
Writes(c, i, line) ==
  /\ pc[c] = "write" /\ pc'[c] = "unlock" /\ ip'[c] = ip[c] /\ lock = c
  /\ cur'[c] = cur[c] /\ got'[c] = got[c] /\ warned' = warned /\ ~Missed(c)'
  /\ i \in 1 .. Len(file') /\ file'[i] = line
  /\ \A j \in 1 .. Len(file) : j \in 1 .. Len(file') /\ (j # i => file'[j] = file[j])
  /\ \A j \in 1 .. Len(file') : j # i => j \in 1 .. Len(file)

\* A call that writes: a mark of its own on a line that was not an entry, or a clear on
\* the line of its process.
LEMMA WriteFacts ==
  ASSUME ZooInv, NEW c \in Clients, Write(c), pc'[c] # "failed"
  PROVE  \E i \in Nat :
           \/ /\ cur[c].do = "mark" /\ (i \in 1 .. Len(file) => file[i] = Free)
              /\ Writes(c, i, [pid |-> cur[c].pid, tag |-> cur[c].tag])
           \/ cur[c].do = "clear" /\ Has(file, cur[c].pid, i) /\ Writes(c, i, Free)
<1> DEFINE line == IF cur[c].do = "mark"
                   THEN [pid |-> cur[c].pid, tag |-> cur[c].tag] ELSE Free
<1>1. Typed /\ Holds(c) /\ Found(c)
  BY Zenon DEF ZooInv, LockInv
<1>2. /\ pc[c] = "write" /\ pc'[c] = "unlock" /\ ip'[c] = ip[c] /\ lock = c
      /\ cur'[c] = cur[c] /\ got'[c] = got[c] /\ warned' = warned
      /\ cur[c] \in Op /\ file' = Put(file, pos[c], line) /\ pos' = pos
      /\ file \in Seq(Lines) /\ pos[c] \in Nat \ {0}
  BY Zenon, <1>1 DEF Typed, Holds, Write, Goto, Put
<1>3. line \in Lines
  BY Zenon, <1>2 DEF Op, Lines, Entries
<1>4. /\ cur[c].do = "mark" => line = [pid |-> cur[c].pid, tag |-> cur[c].tag]
      /\ cur[c].do = "clear" => line = Free
  BY Zenon
<1> HIDE DEF line
<1>5. CASE pos[c] > Len(file)
  <2>1. /\ Len(file') = Len(file) + 1 /\ file'[Len(file) + 1] = line
        /\ \A j \in 1 .. Len(file) : file'[j] = file[j]
    BY ZenonT(60), <1>2, <1>3, <1>5, PutEnd
  <2>2. Len(file) + 1 \in Nat /\ Len(file) + 1 \notin 1 .. Len(file)
    BY <1>2
  <2>3. cur[c].do = "mark"
    <3>1. ~(pos[c] <= Len(file))
      BY <1>2, <1>5
    <3>2. QED
      BY Zenon, <1>1, <1>2, <3>1 DEF Found
  <2>4. Writes(c, Len(file) + 1, line)
    <3>1. /\ Len(file) + 1 \in 1 .. Len(file')
          /\ \A j \in 1 .. Len(file) : j \in 1 .. Len(file')
          /\ \A j \in 1 .. Len(file') : j # Len(file) + 1 => j \in 1 .. Len(file)
      BY <1>2, <2>1
    <3>2. ~Missed(c)'
      BY Zenon, <1>2, <2>3 DEF Missed
    <3>3. QED
      BY Zenon, <1>2, <2>1, <3>1, <3>2 DEF Writes
  <2>5. QED
    BY Zenon, <1>4, <2>2, <2>3, <2>4
<1>6. CASE pos[c] <= Len(file)
  <2>1. /\ Len(file') = Len(file) /\ file'[pos[c]] = line
        /\ \A j \in 1 .. Len(file) : j # pos[c] => file'[j] = file[j]
    BY ZenonT(60), <1>2, <1>3, <1>6, PutOver
  <2>2. pos[c] \in 1 .. Len(file) /\ ~(pos[c] > Len(file))
    BY <1>2, <1>6
  <2>3. Writes(c, pos[c], line)
    <3>1. ~Missed(c)'
      BY Zenon, <1>2, <2>1, <2>2 DEF Missed
    <3>2. QED
      BY Zenon, <1>2, <2>1, <2>2, <3>1 DEF Writes
  <2>4. \/ cur[c].do = "mark" /\ file[pos[c]] = Free
        \/ cur[c].do = "clear" /\ Has(file, cur[c].pid, pos[c])
    BY Zenon, <1>1, <1>2, <2>2 DEF Found, Has
  <2>5. QED
    BY Zenon, <1>2, <1>4, <2>3, <2>4
<1>7. QED
  BY <1>2, <1>5, <1>6

\* The call that has taken effect is the only one more.
LEMMA WritesPast ==
  ASSUME NEW c \in Clients, NEW i, NEW line, Writes(c, i, line), ip[c] \in Nat
  PROVE  /\ \A k \in Nat : k = ip[c] => Tried(c, k)'
         /\ \A m \in Nat : Owed(c, m)' => Owed(c, m) \/ (m = ip[c] /\ HardMark(c, m))
<1>1. ASSUME NEW k \in Nat
      PROVE  (Past(c, k)' <=> Past(c, k) \/ k = ip[c]) /\ (Tried(c, k) => Tried(c, k)')
  BY Zenon DEF Past, Tried, Writes
<1>2. ASSUME NEW k \in Calls(c, "clear") PROVE k \in Nat
  BY DEF Calls
<1>3. ASSUME NEW m \in Nat, Owed(c, m)' PROVE Owed(c, m) \/ (m = ip[c] /\ HardMark(c, m))
  <2>1. /\ m \in Calls(c, "mark") /\ Prog[c][m].hard /\ (Past(c, m) \/ m = ip[c])
        /\ Prog[c][m].pid \in Safe
        /\ \A k \in Calls(c, "clear") : Mate[c][k] = m => ~Tried(c, k)
    BY Zenon, <1>1, <1>2, <1>3 DEF Owed
  <2>2. QED
    BY Zenon, <2>1 DEF Owed, HardMark, Writes
<1>4. QED
  BY Zenon, <1>3 DEF Tried, Writes

\* The process that has written is still where it should be.
LEMMA WritesClient ==
  ASSUME ZooInv, NEW c \in Clients, Rest(c), NEW i, NEW line, Writes(c, i, line)
  PROVE  NoneMissing' /\ \A d \in Clients : ClientInv(d)'
<1>1. ClientInv(c) /\ NoneMissing /\ lock = c
  BY Zenon DEF ZooInv, Writes
<1>2. \A e \in Clients : pc[e] = "done" => pc'[e] = "done"
  BY Zenon DEF Rest, Others
<1>3. ClientInv(c)'
  <2>1. Learnt(c)'
    BY Zenon, <1>1, EntersStays DEF ClientInv, Learnt, Writes
  <2>2. Doing(c)'
    BY Zenon, <1>1, <1>2 DEF ClientInv, Doing, Own, Buries, Writes
  <2>3. QED
    BY Zenon, <2>1, <2>2 DEF ClientInv, Passed, Misses, Fresh, Writes
<1>4. QED
  BY Zenon, <1>1, <1>3, RestKeep DEF NoneMissing, Writes

\* zoo_mark() writes: the new line is the new mark's, the others keep theirs.
LEMMA MarkKeeps ==
  ASSUME ZooInv, NEW c \in Clients, Rest(c), LockInv', OneAlive', NEW i \in Nat,
         cur[c].do = "mark", i \in 1 .. Len(file) => file[i] = Free,
         Writes(c, i, [pid |-> cur[c].pid, tag |-> cur[c].tag])
  PROVE  ZooInv'
<1> DEFINE e == [pid |-> cur[c].pid, tag |-> cur[c].tag]
<1>1. Typed /\ Doing(c) /\ lock = c /\ ip[c] \in Nat
  BY Zenon DEF ZooInv, LockInv, ClientInv, Typed, Writes
<1>2. /\ ip[c] \in Calls(c, "mark") /\ cur[c] = Prog[c][ip[c]] /\ cur[c] \in Op
      /\ pc[c] = "write"
  <2>1. cur[c] \in Op /\ pc[c] = "write"
    BY Zenon DEF ZooInv, LockInv, Holds, Writes
  <2>2. QED
    BY Zenon, <1>1, <2>1 DEF Doing, Own, Buries, Calls
<1>3. e # Free /\ e.pid = Prog[c][ip[c]].pid /\ e.tag = Prog[c][ip[c]].tag
  <2>1. e \in Entries /\ e.pid = cur[c].pid /\ e.tag = cur[c].tag
    BY Zenon, <1>2 DEF Op, Entries
  <2>2. QED
    BY Zenon, <1>2, <2>1, FreeIsNone
<1>4. i \in 1 .. Len(file') /\ file'[i] = e
  BY Zenon DEF Writes
<1>5. \A j \in 1 .. Len(file) : file[j] # Free => j \in 1 .. Len(file') /\ file'[j] = file[j]
  BY Zenon DEF Writes
<1>6. \A j \in 1 .. Len(file') : j # i => j \in 1 .. Len(file) /\ file'[j] = file[j]
  BY Zenon DEF Writes
<1> HIDE DEF e
<1>7. Known'
  <2>1. pc'[c] # "new" /\ \E k \in Calls(c, "mark") :
          Prog[c][k].pid = e.pid /\ Prog[c][k].tag = e.tag
    BY Zenon, <1>2, <1>3 DEF Writes
  <2>2. Known
    BY Zenon DEF ZooInv
  <2>3. QED
    <3>1. SUFFICES ASSUME NEW j \in 1 .. Len(file'), file'[j] # Free
                   PROVE  Enters(file[j].pid, file[j].tag)'
      BY Zenon DEF Known
    <3>2. CASE j = i
      BY Zenon, <1>4, <2>1, <3>2 DEF Enters
    <3>3. CASE j # i
      BY Zenon, <1>6, <2>2, <3>1, <3>3, EntersStays DEF Known
    <3>4. QED
      BY Zenon, <3>2, <3>3
<1>8. Backed'
  <2>1. PICK h \in [Clients -> [Nat -> Nat]] : Backs(h)
    BY Zenon DEF ZooInv, Backed
  <2>2. PICK g \in [Clients -> [Nat -> Nat]] :
          /\ g[c][ip[c]] = i
          /\ \A d \in Clients : \A m \in Nat : ~(d = c /\ m = ip[c]) => g[d][m] = h[d][m]
    <3> DEFINE g == [h EXCEPT ![c] = [h[c] EXCEPT ![ip[c]] = i]]
    <3>1. /\ g \in [Clients -> [Nat -> Nat]] /\ g[c][ip[c]] = i
          /\ \A d \in Clients : \A m \in Nat : ~(d = c /\ m = ip[c]) => g[d][m] = h[d][m]
      BY Zenon, <1>1, <2>1
    <3> HIDE DEF g
    <3>2. QED
      BY Zenon, <3>1
  <2>3. ASSUME NEW d \in Clients, NEW m \in Nat, Owed(d, m)'
        PROVE  Owed(d, m) \/ (d = c /\ m = ip[c])
    <3>1. CASE d = c
      BY Zenon, <1>1, <2>3, <3>1, WritesPast
    <3>2. CASE d # c
      BY Zenon, <1>1, <2>3, <3>2, RestKeep
    <3>3. QED
      BY Zenon, <3>1, <3>2
  <2>4. ASSUME NEW d \in Clients, NEW m \in Nat, Owed(d, m)
        PROVE  Has(file', Prog[d][m].pid, h[d][m]) /\ h[d][m] # i
    <3>1. Has(file, Prog[d][m].pid, h[d][m])
      BY Zenon, <2>1, <2>4 DEF Backs
    <3>2. QED
      BY Zenon, <1>5, <3>1 DEF Has
  <2>5. Has(file', Prog[c][ip[c]].pid, i)
    BY Zenon, <1>3, <1>4 DEF Has
  <2>6. ASSUME NEW d \in Clients, NEW m \in Nat, Owed(d, m)'
        PROVE  Has(file', Prog[d][m].pid, g[d][m])
    <3>1. CASE d = c /\ m = ip[c]
      BY Zenon, <2>2, <2>5, <3>1
    <3>2. CASE ~(d = c /\ m = ip[c])
      BY Zenon, <2>2, <2>3, <2>4, <2>6, <3>2
    <3>3. QED
      BY Zenon, <3>1, <3>2
  <2>7. ASSUME NEW d \in Clients, NEW b \in Clients, NEW m \in Nat, NEW n \in Nat,
               Owed(d, m)', Owed(b, n)', g[d][m] = g[b][n]
        PROVE  d = b /\ m = n
    <3>1. ASSUME NEW a \in Clients, NEW k \in Nat, Owed(a, k)', ~(a = c /\ k = ip[c])
          PROVE  Owed(a, k) /\ g[a][k] = h[a][k] /\ g[a][k] # i
      <4>1. Owed(a, k) /\ g[a][k] = h[a][k]
        BY Zenon, <2>2, <2>3, <3>1
      <4>2. QED
        BY Zenon, <2>4, <4>1
    <3>2. CASE d = c /\ m = ip[c]
      <4>1. g[b][n] = i
        BY Zenon, <2>2, <2>7, <3>2
      <4>2. QED
        BY Zenon, <2>7, <3>1, <3>2, <4>1
    <3>3. CASE b = c /\ n = ip[c]
      <4>1. g[d][m] = i
        BY Zenon, <2>2, <2>7, <3>3
      <4>2. QED
        BY Zenon, <2>7, <3>1, <3>3, <4>1
    <3>4. CASE ~(d = c /\ m = ip[c]) /\ ~(b = c /\ n = ip[c])
      <4>1. Owed(d, m) /\ Owed(b, n) /\ h[d][m] = h[b][n]
        BY Zenon, <2>7, <3>1, <3>4
      <4>2. QED
        BY Zenon, <2>1, <4>1 DEF Backs
    <3>5. QED
      BY Zenon, <3>2, <3>3, <3>4
  <2>8. Backs(g)'
    BY Zenon, <2>6, <2>7 DEF Backs
  <2>9. QED
    BY Zenon, <2>2, <2>8 DEF Backed
<1>9. ASSUME NEW d \in Clients PROVE Live(d)'
  <2>1. SUFFICES ASSUME Entered(d)' PROVE Named(d)'
    BY Zenon DEF Live
  <2>2. CASE Entered(d)
    <3>1. PICK j \in 1 .. Len(file) : file[j] = [pid |-> Pid[d], tag |-> Prog[d][1].tag]
      BY Zenon, <2>2 DEF ZooInv, Live, Named
    <3>2. file[j] # Free
      BY <3>1, ZooAssumption DEF Free
    <3>3. QED
      BY Zenon, <1>5, <3>1, <3>2 DEF Named
  <2>3. CASE ~Entered(d)
    <3>1. d = c
      BY Zenon, <1>1, <2>1, <2>3, RestKeep
    <3>2. Driver(c) /\ ip[c] = 1
      BY ZenonT(60), <1>2, <2>1, <2>3, <3>1 DEF Entered, Within, Writes
    <3>3. Prog[c][1].pid = Pid[c]
      BY <3>2 DEF Driver
    <3>4. e = [pid |-> Pid[c], tag |-> Prog[c][1].tag]
      BY Zenon, <1>2, <3>2, <3>3 DEF e
    <3>5. QED
      BY Zenon, <1>4, <3>1, <3>4 DEF Named
  <2>4. QED
    BY Zenon, <2>2, <2>3
<1>10. QED
  BY Zenon, <1>7, <1>8, <1>9, WritesClient DEF ZooInv

\* ltp-bump's clear takes no line that is owed or that names a running driver: the number
\* has one owner, who is done.
LEMMA BuriesNoOther ==
  ASSUME NEW c \in Clients, Buries(c)
  PROVE  /\ \A d \in Clients : \A m \in Nat : Owed(d, m) => Prog[d][m].pid # cur[c].pid
         /\ \A d \in Clients : Pid[d] \in Safe /\ pc[d] # "done" => Pid[d] # cur[c].pid
<1>1. cur[c].pid \in Safe => \E b \in Clients : Sole(b, cur[c].pid) /\ pc[b] = "done"
  BY Zenon DEF Buries
<1>2. ASSUME NEW d \in Clients, Pid[d] \in Safe, pc[d] # "done" PROVE Pid[d] # cur[c].pid
  BY Zenon, <1>1, <1>2 DEF Sole
<1>3. ASSUME NEW d \in Clients, NEW m \in Nat, Owed(d, m) PROVE Prog[d][m].pid # cur[c].pid
  BY Zenon, <1>1, <1>3 DEF Owed, Sole
<1>4. QED
  BY Zenon, <1>2, <1>3

\* zoo_clear() writes.  When the line was another mark's, that one takes over the line
\* of the mark that is cleared, which has the same process number.
LEMMA ClearKeeps ==
  ASSUME ZooInv, NEW c \in Clients, Rest(c), LockInv', OneAlive', NEW i \in Nat,
         cur[c].do = "clear", Has(file, cur[c].pid, i), Writes(c, i, Free)
  PROVE  ZooInv'
<1>1. Typed /\ Doing(c) /\ lock = c /\ ip[c] \in Nat /\ pc[c] = "write"
  BY Zenon DEF ZooInv, LockInv, ClientInv, Typed, Writes
<1>2. \/ ip[c] \in Calls(c, "clear") /\ cur[c] = Prog[c][ip[c]]
      \/ Buries(c) /\ ip[c] \in Calls(c, "bump")
  BY Zenon, <1>1 DEF Doing, Own, Buries, Calls
<1>3. i \in 1 .. Len(file') /\ file'[i] = Free
  BY Zenon DEF Writes
<1>4. \A j \in 1 .. Len(file) : j # i => j \in 1 .. Len(file') /\ file'[j] = file[j]
  BY Zenon DEF Writes
<1>5. \A j \in 1 .. Len(file') : j # i => j \in 1 .. Len(file) /\ file'[j] = file[j]
  BY Zenon DEF Writes
<1>6. Known'
  BY Zenon, <1>3, <1>5, EntersStays DEF ZooInv, Known
<1>7. ~HardMark(c, ip[c])
  BY Zenon, <1>2 DEF HardMark, Calls
<1>8. ASSUME NEW d \in Clients, NEW m \in Nat, Owed(d, m)' PROVE Owed(d, m)
  BY ZenonT(60), <1>1, <1>7, <1>8, WritesPast, RestKeep
<1>9. ASSUME NEW p, NEW j, Has(file, p, j), j # i PROVE Has(file', p, j)
  BY Zenon, <1>4, <1>9 DEF Has
<1>10. PICK h \in [Clients -> [Nat -> Nat]] : Backs(h)
  BY Zenon DEF ZooInv, Backed
<1>11. Backed'
  <2>1. CASE Buries(c)
    <3>1. ASSUME NEW d \in Clients, NEW m \in Nat, Owed(d, m)'
          PROVE  Has(file', Prog[d][m].pid, h[d][m])
      <4>1. Has(file, Prog[d][m].pid, h[d][m]) /\ Prog[d][m].pid # cur[c].pid
        BY Zenon, <1>8, <1>10, <2>1, <3>1, BuriesNoOther DEF Backs
      <4>2. h[d][m] # i
        BY Zenon, <4>1 DEF Has
      <4>3. QED
        BY Zenon, <1>9, <4>1, <4>2
    <3>2. \A d, b \in Clients : \A m, n \in Nat :
            Owed(d, m)' /\ Owed(b, n)' /\ h[d][m] = h[b][n] => d = b /\ m = n
      BY Zenon, <1>8, <1>10 DEF Backs
    <3>3. Backs(h)'
      BY Zenon, <3>1, <3>2 DEF Backs
    <3>4. QED
      BY Zenon, <1>10, <3>3 DEF Backed
  <2>2. CASE ip[c] \in Calls(c, "clear") /\ cur[c] = Prog[c][ip[c]] /\ cur[c].pid \in Safe
    <3>1. PICK k \in Nat :
            /\ k = Mate[c][ip[c]] /\ Owed(c, k) /\ Prog[c][k].pid = cur[c].pid
      BY Zenon, <1>1, <2>2, ClearOwed
    <3>2. ~Owed(c, k)'
      <4>1. PICK a \in Calls(c, "clear") : a = ip[c] /\ a \in Nat
        BY Zenon, <1>1, <2>2
      <4>2. Tried(c, a)'
        BY Zenon, <1>1, <4>1, WritesPast
      <4>3. QED
        BY Zenon, <3>1, <4>1, <4>2 DEF Owed
    <3>3. Has(file, cur[c].pid, h[c][k])
      BY Zenon, <1>10, <3>1 DEF Backs
    <3>4. PICK g \in [Clients -> [Nat -> Nat]] :
            \A d \in Clients : \A m \in Nat :
              g[d][m] = IF h[d][m] = i THEN h[c][k] ELSE h[d][m]
      <4> DEFINE g == [d \in Clients |->
                         [m \in Nat |-> IF h[d][m] = i THEN h[c][k] ELSE h[d][m]]]
      <4>1. /\ g \in [Clients -> [Nat -> Nat]]
            /\ \A d \in Clients : \A m \in Nat :
                 g[d][m] = IF h[d][m] = i THEN h[c][k] ELSE h[d][m]
        BY Zenon, <1>10, <3>1
      <4> HIDE DEF g
      <4>2. QED
        BY Zenon, <4>1
    <3>5. ASSUME NEW d \in Clients, NEW m \in Nat, Owed(d, m)'
          PROVE  /\ Owed(d, m) /\ h[d][m] # h[c][k]
                 /\ Has(file, Prog[d][m].pid, h[d][m])
      <4>1. Owed(d, m) /\ ~(d = c /\ m = k)
        BY Zenon, <1>8, <3>2, <3>5
      <4>2. QED
        BY Zenon, <1>10, <3>1, <4>1 DEF Backs
    <3>6. ASSUME NEW d \in Clients, NEW m \in Nat, Owed(d, m)'
          PROVE  Has(file', Prog[d][m].pid, g[d][m])
      <4>1. CASE h[d][m] = i
        <5>1. Prog[d][m].pid = cur[c].pid /\ g[d][m] = h[c][k] /\ h[c][k] # i
          BY Zenon, <3>4, <3>5, <3>6, <4>1 DEF Has
        <5>2. QED
          BY Zenon, <1>9, <3>3, <5>1
      <4>2. CASE h[d][m] # i
        BY Zenon, <1>9, <3>4, <3>5, <3>6, <4>2
      <4>3. QED
        BY Zenon, <4>1, <4>2
    <3>7. ASSUME NEW d \in Clients, NEW b \in Clients, NEW m \in Nat, NEW n \in Nat,
                 Owed(d, m)', Owed(b, n)', g[d][m] = g[b][n]
          PROVE  d = b /\ m = n
      <4>1. /\ Owed(d, m) /\ h[d][m] # h[c][k] /\ Owed(b, n) /\ h[b][n] # h[c][k]
        BY Zenon, <3>5, <3>7
      <4>2. h[d][m] = h[b][n]
        BY Zenon, <3>4, <3>7, <4>1
      <4>3. QED
        BY Zenon, <1>10, <4>1, <4>2 DEF Backs
    <3>8. Backs(g)'
      BY Zenon, <3>6, <3>7 DEF Backs
    <3>9. QED
      BY Zenon, <3>4, <3>8 DEF Backed
  <2>3. CASE cur[c].pid \notin Safe
    <3>1. ASSUME NEW d \in Clients, NEW m \in Nat, Owed(d, m)'
          PROVE  Has(file', Prog[d][m].pid, h[d][m])
      <4>1. Has(file, Prog[d][m].pid, h[d][m]) /\ Prog[d][m].pid # cur[c].pid
        BY Zenon, <1>8, <1>10, <2>3, <3>1 DEF Backs, Owed
      <4>2. h[d][m] # i
        BY Zenon, <4>1 DEF Has
      <4>3. QED
        BY Zenon, <1>9, <4>1, <4>2
    <3>2. \A d, b \in Clients : \A m, n \in Nat :
            Owed(d, m)' /\ Owed(b, n)' /\ h[d][m] = h[b][n] => d = b /\ m = n
      BY Zenon, <1>8, <1>10 DEF Backs
    <3>3. Backs(h)'
      BY Zenon, <3>1, <3>2 DEF Backs
    <3>4. QED
      BY Zenon, <1>10, <3>3 DEF Backed
  <2>4. QED
    BY Zenon, <1>2, <2>1, <2>2, <2>3
<1>12. ASSUME NEW d \in Clients PROVE Live(d)'
  <2>1. SUFFICES ASSUME Entered(d)' PROVE Named(d)'
    BY Zenon DEF Live
  <2>2. Driver(d) /\ pc[d] # "done"
    BY Zenon, <2>1 DEF Entered, Rest, Others
  <2>3. Entered(d)
    <3>1. CASE d = c
      <4>1. ip[c] # 1
        BY Zenon, <1>2, <2>2, <3>1 DEF Driver, Calls
      <4>2. QED
        BY Zenon, <2>1, <2>2, <3>1, <4>1 DEF Entered, Within, Writes
    <3>2. CASE d # c
      BY Zenon, <1>1, <2>1, <3>2, RestKeep
    <3>3. QED
      BY Zenon, <3>1, <3>2
  <2>4. Pid[d] # cur[c].pid
    <3>1. CASE Buries(c)
      BY Zenon, <2>2, <3>1, BuriesNoOther DEF Driver
    <3>2. CASE ip[c] \in Calls(c, "clear") /\ cur[c] = Prog[c][ip[c]]
      <4>1. SUFFICES ASSUME Prog[c][ip[c]].pid = Pid[d] PROVE FALSE
        BY Zenon, <3>2
      <4>2. Pid[c] = Pid[d] /\ ip[c] = Len(Prog[c])
        BY Zenon, <2>2, <3>2, <4>1 DEF Driver, Private
      <4>3. Alive(c) /\ Alive(d)
        <5>1. pc[d] # "new"
          <6>1. SUFFICES ASSUME pc[d] = "new" PROVE FALSE
            OBVIOUS
          <6>2. ip[d] = 1
            BY Zenon, <6>1 DEF ZooInv, ClientInv, Fresh
          <6>3. ~Within(d)
            BY <6>2 DEF Within
          <6>4. QED
            BY Zenon, <2>3, <6>1, <6>3 DEF Entered
        <5>2. QED
          BY Zenon, <1>1, <2>2, <5>1 DEF Alive
      <4>4. c = d
        BY Zenon, <4>2, <4>3 DEF ZooInv, OneAlive
      <4>5. ip[c] # 1 /\ ip'[c] = ip[c] /\ pc'[c] = "unlock"
        BY Zenon, <2>2, <3>2, <4>4 DEF Driver, Calls, Writes
      <4>6. QED
        BY Zenon, <2>1, <4>2, <4>4, <4>5 DEF Entered, Within
    <3>3. QED
      BY Zenon, <1>2, <3>1, <3>2
  <2>5. PICK j \in 1 .. Len(file) : file[j] = [pid |-> Pid[d], tag |-> Prog[d][1].tag]
    BY Zenon, <2>3 DEF ZooInv, Live, Named
  <2>6. j # i
    <3>1. file[j].pid = Pid[d]
      BY <2>5
    <3>2. QED
      BY Zenon, <2>4, <3>1 DEF Has
  <2>7. QED
    BY Zenon, <1>4, <2>5, <2>6 DEF Named
<1>13. QED
  BY Zenon, <1>6, <1>11, <1>12, WritesClient DEF ZooInv

\* Every step keeps the invariant.
LEMMA ZooStep == ZooInv /\ [Next]_vars => ZooInv'
<1> SUFFICES ASSUME ZooInv, [Next]_vars PROVE ZooInv'
  OBVIOUS
<1>1. LockInv' /\ OneAlive'
  BY Zenon, LockStep, AliveStep DEF ZooInv, LockInv
<1>2. CASE UNCHANGED vars
  <2>1. /\ file' = file /\ pc' = pc /\ ip' = ip /\ cur' = cur /\ pos' = pos
        /\ got' = got /\ warned' = warned
    BY Zenon, <1>2 DEF vars
  <2>2. Backed'
    <3>1. \A c \in Clients : \A m \in Nat : Owed(c, m)' <=> Owed(c, m)
      BY ZenonT(60), <2>1 DEF Owed, Past, Tried
    <3>2. PICK h \in [Clients -> [Nat -> Nat]] : Backs(h)
      BY Zenon DEF ZooInv, Backed
    <3>3. Backs(h)'
      BY Zenon, <2>1, <3>1, <3>2 DEF Backs
    <3>4. QED
      BY Zenon, <3>3 DEF Backed
  <2>3. Known' /\ NoneMissing'
    BY Zenon, <2>1 DEF ZooInv, Known, Enters, NoneMissing
  <2>4. ASSUME NEW c \in Clients PROVE ClientInv(c)' /\ Live(c)'
    <3>1. ClientInv(c) /\ Live(c)
      BY Zenon DEF ZooInv
    <3>2. ClientInv(c)'
      BY Zenon, <2>1, <3>1
      DEF ClientInv, Learnt, Enters, Doing, Own, Buries, Passed, Has, Misses, Missed, Fresh
    <3>3. Live(c)'
      BY Zenon, <2>1, <3>1 DEF Live, Entered, Within, Named
    <3>4. QED
      BY Zenon, <3>2, <3>3
  <2>5. QED
    BY Zenon, <1>1, <2>2, <2>3, <2>4 DEF ZooInv
<1>3. ASSUME NEW c \in Clients, Write(c) PROVE ZooInv'
  <2>1. Typed /\ ClientInv(c) /\ NoneMissing
    BY Zenon DEF ZooInv, LockInv
  <2>2. Rest(c)
    BY Zenon, <1>3, <2>1, RestFacts DEF Step
  <2>3. CASE pc'[c] # "failed"
    BY Zenon, <1>1, <1>3, <2>2, <2>3, WriteFacts, MarkKeeps, ClearKeeps
  <2>4. CASE pc'[c] = "failed"
    <3>1. /\ file' = file /\ ip' = ip /\ cur' = cur /\ got' = got /\ warned' = warned
          /\ pc[c] = "write" /\ \A d \in Clients : pc[d] = "done" => pc'[d] = "done"
      BY Zenon, <1>3, <2>1, <2>4 DEF Typed, Write, Goto
    <3>2. ClientInv(c)'
      <4>1. Learnt(c)'
        BY Zenon, <2>1, <2>2, <3>1, EntersStays DEF ClientInv, Learnt
      <4>2. QED
        BY Zenon, <2>1, <2>4, <3>1, <4>1
        DEF ClientInv, Doing, Own, Buries, Passed, Misses, Fresh
    <3>3. NoneMissing' /\ Turns(c)
      BY Zenon, <2>1, <2>4, <3>1 DEF NoneMissing, Turns, Still
    <3>4. QED
      BY Zenon, <1>1, <1>3, <3>1, <3>2, <3>3, TurnStep DEF Step
  <2>5. QED
    BY Zenon, <2>3, <2>4
<1>4. ASSUME NEW c \in Clients, Start(c) \/ Step(c) \/ Crash(c) PROVE ZooInv'
  BY ZenonT(60), <1>1, <1>3, <1>4, StartKeeps, CallKeeps, BumpKeeps, ScanKeeps, EndKeeps
  DEF Step
<1>5. QED
  BY Zenon, <1>2, <1>4 DEF Next, Done

\* Under any calls as ltp-pan and ltp-bump make them, by any number of drivers with any
\* number of slots and tests, with any crashes, failing calls and numbers used again: a
\* driver that has entered itself (zoo_mark_args()) is in the zoo as itself until it removes
\* itself, if its number is Safe and Private; and none is told by zoo_clear() that a process
\* it entered is not there, if that process's number is Safe, though the drivers'
\* placeholders and tests have the same numbers.
THEOREM ZooConsistentHolds == Spec => []ZooConsistent
<1>1. ZooInv => ZooConsistent
  <2> SUFFICES ASSUME ZooInv PROVE ZooConsistent
    OBVIOUS
  <2>1. Typed /\ NoneMissing /\ \A c \in Clients : Holds(c) /\ Live(c)
    BY Zenon DEF ZooInv, LockInv
  <2>2. TypeOK
    <3>1. \A i \in 1 .. Len(file) : file[i] \in Lines
      BY <2>1 DEF Typed
    <3>2. ip \in [Clients -> Nat] /\ pos \in [Clients -> Nat]
      BY <2>1 DEF Typed
    <3>3. QED
      BY Zenon, <2>1, <3>1, <3>2 DEF TypeOK, Typed, PcValues, Holds, Lines, Entries
  <2>3. LiveMarked
    <3>1. SUFFICES ASSUME NEW c \in Clients, pc[c] # "done", Pid[c] \in Safe \cap Private,
                          Within(c),
                          Prog[c][1] = [do |-> "mark", pid |-> Pid[c],
                                        tag |-> Prog[c][1].tag, hard |-> TRUE]
                   PROVE  Named(c)
      BY Zenon DEF LiveMarked, Named, Within
    <3>2. 1 \in 1 .. Len(Prog[c])
      BY <3>1, ZooAssumption DEF Within
    <3>3. Prog[c][1].do = "mark" /\ Prog[c][1].hard
      BY <3>1
    <3>4. QED
      BY Zenon, <2>1, <3>1, <3>2, <3>3 DEF Live, Entered, Driver, Calls
  <2>4. QED
    BY Zenon, <2>1, <2>2, <2>3 DEF ZooConsistent
<1>2. QED
  BY <1>1, ZooInit, ZooStep, PTL DEF Spec
=============================================================================
