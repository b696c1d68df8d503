-------------------------------- MODULE Zoo ---------------------------------
(* The zoo: the file of active processes that the pan drivers and ltp-bump     *)
(* share.  It is read and rewritten line by line under a record lock, by any    *)
(* number of processes, each of which may be killed or fail at any point.      *)
EXTENDS Integers, Sequences, FiniteSets

CONSTANTS
  Clients,    \* the processes: pan drivers and ltp-bump
  Prog,       \* [Clients -> Seq(Op)]: the calls each makes, in order
  Pid,        \* [Clients -> Pids]: its process id
  Pids, Tags,
  IsPrefix,   \* [Tags \X Tags -> BOOLEAN]: a tag, cut to the length of the other, is it
  MaxMishaps  \* how many processes are killed or calls fail

Op == [do : {"mark", "clear", "find", "bump"}, pid : Pids, tag : Tags, hard : BOOLEAN]

ASSUME ZooAssumption ==
  /\ \A c \in Clients : Prog[c] \in Seq(Op)
  /\ Pid \in [Clients -> Pids \ {0}] /\ Pids \subseteq Nat
  /\ IsPrefix \in [Tags \X Tags -> BOOLEAN] /\ \A t \in Tags : IsPrefix[<<t, t>>]
  /\ MaxMishaps \in Nat

\* The places of a process's calls of one kind, and whether anyone looks for a tag.
Calls(c, what) == {i \in 1 .. Len(Prog[c]) : Prog[c][i].do = what}
Sought(t) ==
  \E c \in Clients : \E i \in Calls(c, "find") : IsPrefix[<<t, Prog[c][i].tag>>]
\* A process clears what it has entered: m gives each clear a mark of its own before it,
\* of the same process number, without which the process would have ended.
Mated(c, m) ==
  /\ \A i \in Calls(c, "clear") :
       m[i] < i /\ Prog[c][m[i]].hard /\ Prog[c][m[i]].pid = Prog[c][i].pid
  /\ \A i, j \in Calls(c, "clear") : m[i] = m[j] => i = j

\* What the processes call.  A driver, which does not bump, clears only what it entered.
ASSUME CallAssumption ==
  \A c \in Clients :
    /\ Calls(c, "mark") = {} \/ Calls(c, "bump") = {}
    /\ \E m \in [Calls(c, "clear") -> Calls(c, "mark")] : Mated(c, m)

VARIABLES
  file,    \* the lines: an entry, or Free for a line that starts with '#'
  lock,    \* who has the record lock on the file
  pc, ip,  \* where a client is, and at which of its calls
  cur,     \* the call it is in
  pos,     \* the line it is at
  got,     \* what its last zoo_getpid() returned
  warned,  \* (history) <<c, p>>: a zoo_clear() told c that there is no process p
  mishaps  \* how many more may happen

vars == <<file, lock, pc, ip, cur, pos, got, warned, mishaps>>

Free == [pid |-> -1, tag |-> "#"]
NoOne == "none"
ASSUME ClientAssumption == NoOne \notin Clients
NotFound == -1
NoOp == [do |-> "none", pid |-> -1, tag |-> "", hard |-> FALSE]

Init ==
  /\ file = <<>>
  /\ lock = NoOne
  /\ pc = [c \in Clients |-> "new"]
  /\ ip = [c \in Clients |-> 1]
  /\ cur = [c \in Clients |-> NoOp]
  /\ pos = [c \in Clients |-> 1]
  /\ got = [c \in Clients |-> NotFound]
  /\ warned = {}
  /\ mishaps = MaxMishaps
-----------------------------------------------------------------------------
Goto(c, l) == pc' = [pc EXCEPT ![c] = l]
\* The call returns: its variables are gone.
Forget(c) == cur' = [cur EXCEPT ![c] = NoOp] /\ pos' = [pos EXCEPT ![c] = 1]
\* A process that ends loses its lock.
Drop(c) == lock' = IF lock = c THEN NoOne ELSE lock
\* The processes that exist, and what kill() may find none of: number 0, of a
\* placeholder, is the caller's own group.
Alive(c) == pc[c] \notin {"new", "done"}
Gone(p) == p # 0 /\ \A c \in Clients : Pid[c] = p => ~Alive(c)

\* A process begins.  Its number is not that of one that exists, but may be that of one
\* that is gone and is still in the file.
Start(c) ==
  /\ pc[c] = "new" /\ Gone(Pid[c])
  /\ Goto(c, "idle")
  /\ UNCHANGED <<file, lock, ip, cur, pos, got, warned, mishaps>>

\* zoo_lock(): wait for the record lock (one's own does not block), and rewind.
LockNot(c, o) ==   \* (Mutant.)  No lock is taken.
  /\ Goto(c, "scan") /\ cur' = [cur EXCEPT ![c] = o] /\ pos' = [pos EXCEPT ![c] = 1]
  /\ UNCHANGED lock
Lock(c, o) ==
  /\ lock \in {NoOne, c} /\ lock' = c
  /\ Goto(c, "scan") /\ cur' = [cur EXCEPT ![c] = o] /\ pos' = [pos EXCEPT ![c] = 1]

Refused(c, o) ==
  /\ mishaps > 0 /\ mishaps' = mishaps - 1
  /\ Goto(c, "failed") /\ cur' = [cur EXCEPT ![c] = o]
  /\ UNCHANGED <<lock, pos>>

\* The next call of the zoo; the lock may be refused.
Call(c) ==
  /\ pc[c] = "idle" /\ ip[c] <= Len(Prog[c]) /\ Prog[c][ip[c]].do # "bump"
  /\ \/ Lock(c, Prog[c][ip[c]]) /\ UNCHANGED <<got, mishaps>>
     \/ Refused(c, Prog[c][ip[c]]) /\ got' = [got EXCEPT ![c] = NotFound]
  /\ UNCHANGED <<file, ip, warned>>

\* ltp-bump: signal the process that was found; if there is none, clear it.  There may be
\* one that nobody entered, or that does not take the signal.
BumpClears(c) ==   \* (Mutant.)  Whatever the signal does, the process is cleared.
  /\ pc[c] = "idle" /\ ip[c] <= Len(Prog[c]) /\ Prog[c][ip[c]].do = "bump"
  /\ IF got[c] # NotFound
     THEN Lock(c, [Prog[c][ip[c]] EXCEPT !.do = "clear", !.pid = got[c]]) /\ UNCHANGED ip
     ELSE ip' = [ip EXCEPT ![c] = @ + 1] /\ UNCHANGED <<lock, pc, cur, pos>>
  /\ UNCHANGED <<file, got, warned, mishaps>>
Bump(c) ==
  /\ pc[c] = "idle" /\ ip[c] <= Len(Prog[c]) /\ Prog[c][ip[c]].do = "bump"
  /\ \/ /\ got[c] # NotFound /\ Gone(got[c])
        /\ LET o == [Prog[c][ip[c]] EXCEPT !.do = "clear", !.pid = got[c]]
           IN  (Lock(c, o) /\ UNCHANGED mishaps) \/ Refused(c, o)
        /\ UNCHANGED ip
     \/ ip' = [ip EXCEPT ![c] = @ + 1] /\ UNCHANGED <<lock, pc, cur, pos, mishaps>>
  /\ UNCHANGED <<file, got, warned>>

\* The line a call is looking for: the first free one, the first of the process, or
\* the first of a tag (as much of the line's tag as the tag is long).
Looks(c, line) ==
  CASE cur[c].do = "mark" -> line = Free
    [] cur[c].do = "clear" -> line # Free /\ line.pid = cur[c].pid
    [] cur[c].do = "find" -> line # Free /\ IsPrefix[<<line.tag, cur[c].tag>>]

\* On to the next line.
AdvanceNot(c) ==   \* (Mutant.)  A recycled line is read again.
  pos' = [pos EXCEPT ![c] = IF file[@] = Free THEN @ ELSE @ + 1]
Advance(c) == pos' = [pos EXCEPT ![c] = @ + 1]

\* fgets(): a line, or the end of the file.
Scan(c) ==
  /\ pc[c] = "scan"
  /\ \/ /\ pos[c] <= Len(file) /\ ~Looks(c, file[pos[c]])
        /\ Advance(c) /\ UNCHANGED <<pc, got>>
     \/ /\ pos[c] <= Len(file) /\ Looks(c, file[pos[c]])
        /\ IF cur[c].do = "find"
           THEN Goto(c, "unlock") /\ got' = [got EXCEPT ![c] = file[pos[c]].pid]
           ELSE Goto(c, "write") /\ UNCHANGED got
        /\ UNCHANGED pos
     \/ /\ pos[c] > Len(file)
        /\ Goto(c, IF cur[c].do = "mark" THEN "write" ELSE "unlock")
        /\ got' = IF cur[c].do = "find" THEN [got EXCEPT ![c] = NotFound] ELSE got
        /\ UNCHANGED pos
  /\ UNCHANGED <<file, lock, ip, cur, warned, mishaps>>

\* The entry, or the '#', is written over the line or at the end, and flushed.  The
\* error path of fseek() returns with the lock held.
Write(c) ==
  /\ pc[c] = "write"
  /\ LET line == IF cur[c].do = "mark" THEN [pid |-> cur[c].pid, tag |-> cur[c].tag] ELSE Free
     IN  \/ /\ file' = IF pos[c] > Len(file) THEN Append(file, line)
                       ELSE [file EXCEPT ![pos[c]] = line]
            /\ Goto(c, "unlock") /\ UNCHANGED mishaps
         \/ mishaps > 0 /\ mishaps' = mishaps - 1 /\ Goto(c, "failed") /\ UNCHANGED file
  /\ UNCHANGED <<lock, ip, cur, pos, got, warned>>

\* zoo_unlock(), and back in the caller, which ends when a call it depends on fails.  If
\* the lock cannot be given back, it is kept, and the call returns -1.
Missed(c) == cur[c].do = "clear" /\ pos[c] > Len(file)
Unlock(c) ==
  /\ pc[c] = "unlock"
  /\ \/ /\ Drop(c)
        /\ ip' = [ip EXCEPT ![c] = @ + 1]
        /\ Goto(c, IF cur[c].hard /\ Missed(c) THEN "done" ELSE "idle")
        /\ warned' = IF Missed(c) THEN warned \cup {<<c, cur[c].pid>>} ELSE warned
        /\ Forget(c)
        /\ UNCHANGED <<got, mishaps>>
     \/ /\ mishaps > 0 /\ mishaps' = mishaps - 1
        /\ Goto(c, "failed")
        /\ got' = IF cur[c].do = "find" THEN [got EXCEPT ![c] = NotFound] ELSE got
        /\ UNCHANGED <<lock, ip, cur, pos, warned>>
  /\ UNCHANGED file
Failed(c) ==
  /\ pc[c] = "failed"
  /\ IF cur[c].hard THEN Goto(c, "done") /\ Drop(c) /\ UNCHANGED ip
     ELSE Goto(c, "idle") /\ ip' = [ip EXCEPT ![c] = @ + 1] /\ UNCHANGED lock
  /\ Forget(c)
  /\ UNCHANGED <<file, got, warned, mishaps>>

Finish(c) ==
  /\ pc[c] = "idle" /\ ip[c] > Len(Prog[c])
  /\ Goto(c, "done") /\ Drop(c)
  /\ UNCHANGED <<file, ip, cur, pos, got, warned, mishaps>>

\* A process is killed.
Crash(c) ==
  /\ mishaps > 0 /\ Alive(c)
  /\ mishaps' = mishaps - 1
  /\ Goto(c, "done") /\ Drop(c) /\ Forget(c)
  /\ UNCHANGED <<file, ip, got, warned>>

Step(c) == Call(c) \/ Bump(c) \/ Scan(c) \/ Write(c) \/ Unlock(c) \/ Failed(c) \/ Finish(c)
Done == (\A c \in Clients : pc[c] = "done") /\ UNCHANGED vars
Next == (\E c \in Clients : Start(c) \/ Step(c) \/ Crash(c)) \/ Done

\* Every process that has begun is scheduled.
Spec == Init /\ [][Next]_vars
FairSpec == Spec /\ \A c \in Clients : WF_vars(Step(c))
-----------------------------------------------------------------------------
\* The file, the types of the rest; who reads or writes the file has the lock.
TypeOK ==
  /\ \A i \in 1 .. Len(file) : file[i] \in {Free} \cup [pid : Pids, tag : Tags]
  /\ lock \in Clients \cup {NoOne}
  /\ pc \in [Clients -> {"new", "idle", "scan", "write", "unlock", "failed", "done"}]
  /\ ip \in [Clients -> Nat] /\ pos \in [Clients -> Nat]
  /\ got \in [Clients -> Pids \cup {NotFound}]
  /\ \A c \in Clients : pc[c] \in {"scan", "write", "unlock"} => lock = c

\* The lines of a file that hold an entry, and how many there are of each.
LinesWith(f, e) == {i \in 1 .. Len(f) : f[i] = e}
EntriesOf(f) == [e \in [pid : Pids, tag : Tags] |-> Cardinality(LinesWith(f, e))]

Abs == INSTANCE ZooSpec WITH zoo <- EntriesOf(file)

\* The locked, line-by-line file is the bag of ZooSpec: whoever is at it, it changes only
\* by one whole entry more or one less, of the process a zoo_clear() is for; none is lost,
\* doubled or torn (zoo_mark(), zoo_clear() under zoo_lock()).
Implements == Abs!Spec

\* The numbers that no ltp-bump takes from a process that is running: that of the
\* placeholder 0, those entered under tags that nobody looks for, and that of one driver,
\* if nothing else has it.
Unsought(p) ==
  \A c \in Clients : \A i \in Calls(c, "mark") :
    Prog[c][i].pid = p => ~Sought(Prog[c][i].tag)
Sole(c, p) ==
  /\ Pid[c] = p
  /\ \A d \in Clients \ {c} :
       Pid[d] # p /\ \A i \in Calls(d, "mark") : Prog[d][i].pid # p
Safe == {p \in Pids : p = 0 \/ Unsought(p) \/ \E c \in Clients : Sole(c, p)}
\* Those that nobody clears but drivers of that number, at their end.
Private ==
  {p \in Pids :
     \A c \in Clients : \A i \in Calls(c, "clear") :
       Prog[c][i].pid = p => Pid[c] = p /\ i = Len(Prog[c])}

LiveMarked ==
  \A c \in Clients :
    /\ Pid[c] \in Safe \cap Private
    /\ Prog[c][1] = [do |-> "mark", pid |-> Pid[c], tag |-> Prog[c][1].tag, hard |-> TRUE]
    /\ ip[c] \in 2 .. Len(Prog[c]) /\ pc[c] # "done"
    /\ ip[c] = Len(Prog[c]) => pc[c] \in {"idle", "scan", "write"}
    => \E i \in 1 .. Len(file) : file[i] = [pid |-> Pid[c], tag |-> Prog[c][1].tag]

NoneMissing == \A w \in warned : w[2] \in Safe => Calls(w[1], "mark") = {}

\* Though others recycle lines, clear placeholders and tests of the same numbers and
\* remove dead processes, and though a killed driver's line stays and a later driver may
\* have its number:  a driver that has entered itself and not yet removed itself is in
\* the zoo, as itself, unless another driver has a test or a placeholder of its number
\* (Private) or ltp-bump looks for it by a number used twice (Safe);  and no driver is told
\* that a process it entered is not there (ltp-pan takes that as a failure and exits),
\* unless ltp-bump is asked for a tag it entered a test or a placeholder under (Safe):
\* ltp-bump may then clear a test that has ended before ltp-pan comes to.
ZooConsistent == TypeOK /\ LiveMarked /\ NoneMissing

\* Every process that begins gets through its calls, and there is always again a time when
\* none is left: no lock is kept for ever, also when a call fails and returns with it.
AllFinish == []<>(\A c \in Clients : ~Alive(c))
=============================================================================
