------------------------------- MODULE MCPan --------------------------------
(* Small instances of Pan.                                                     *)
EXTENDS Pan

\* Three tests in order, with -e; they fail, are not applicable and leave processes
\* behind.
Plain == [ncmds |-> 3, missing |-> {}, starts |-> -1, timed |-> FALSE, sequential |-> TRUE,
          brakes |-> FALSE, track |-> TRUE, road |-> FALSE, exits |-> {"conf", "fail"},
          leaves |-> BOOLEAN, signals |-> {"INT", "USR2"}, nsig |-> 2, slow |-> FALSE, forks |-> 1,
          zoofails |-> 0]
\* Three tests at random, one of which cannot be executed, with -A and -y, and SIGUSR1.
Idle == [Plain EXCEPT !.ncmds = 2, !.missing = {2}, !.starts = 3, !.sequential = FALSE, !.brakes = TRUE,
                      !.road = TRUE, !.exits = {"ok", "fail"}, !.signals = {"USR1"}, !.nsig = 1, !.forks = 0,
                      !.zoofails = 1]
\* The same test again and again, for a time.
Timed == [Plain EXCEPT !.ncmds = 1, !.timed = TRUE, !.track = FALSE, !.exits = {"ok"}, !.leaves = {FALSE},
                       !.signals = {"ALRM", "USR2"}, !.forks = 0]
\* Two tests, and signals that may come while one is on its way to exec().
Slow == [Plain EXCEPT !.ncmds = 2, !.missing = {2}, !.exits = {"ok"}, !.leaves = {FALSE}, !.slow = TRUE,
                      !.forks = 0]
\* A test that leaves processes behind, and SIGTERMs for ever.
Terms == [Plain EXCEPT !.ncmds = 1, !.exits = {"ok"}, !.signals = {"TERM"}, !.nsig = -1, !.forks = 0]
MCCalls == {Plain, Idle, Timed, Slow, Terms}
MCSlow == {Slow}
=============================================================================
