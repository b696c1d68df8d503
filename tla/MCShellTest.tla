---------------------------- MODULE MCShellTest -----------------------------
(* Tests in shell, after those of lib/newlib_tests/shell.                    *)
EXTENDS ShellTest

\* A test in its own group, with a timeout, that can clean up.
Plain ==
  [cleanup |-> TRUE, setup |-> TRUE, device |-> FALSE, mount |-> FALSE, checkpoints |-> FALSE,
   runs |-> 1, iterations |-> 1, tcnt |-> 1, timed |-> TRUE, leader |-> TRUE, deaf |-> TRUE,
   reports |-> {"TPASS"}, signals |-> {"INT", "TERM"}, sent |-> 2, faults |-> 0,
   resets |-> FALSE]

\* One that sets its timeout anew.
Resets == [Plain EXCEPT !.resets = TRUE, !.sent = 1]

\* One with several functions and no cleanup; one that sets no timer.
Bare == [Plain EXCEPT !.cleanup = FALSE, !.setup = FALSE, !.tcnt = 2, !.iterations = 2, !.sent = 1]
Untimed ==
  [Plain EXCEPT !.timed = FALSE, !.deaf = FALSE, !.reports = {"TPASS", "TFAIL", "TWARN", "TCONF"}]
NoLeader == [Plain EXCEPT !.leader = FALSE, !.deaf = FALSE, !.sent = 1]

\* One with a device that is formatted and mounted, for one filesystem with a
\* signal and a command that fails, for two with either.
Device ==
  [Plain EXCEPT !.device = TRUE, !.mount = TRUE, !.checkpoints = TRUE, !.deaf = FALSE,
                !.setup = FALSE, !.sent = 1, !.faults = 1]
Devices ==
  {Device, [Device EXCEPT !.runs = 2, !.setup = TRUE, !.faults = 0],
   [Device EXCEPT !.runs = 2, !.cleanup = FALSE, !.sent = 0]}

MCScenes == {Plain, Resets, Bare, Untimed, NoLeader} \cup Devices
=============================================================================
