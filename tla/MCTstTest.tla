----------------------------- MODULE MCTstTest ------------------------------
(* Instances of TstTest for TLC. *)
EXTENDS TstTest

Test(forks, taint, allfs, limit, cases, sets) ==
  [forks_child |-> forks, taint_check |-> taint, all_filesystems |-> allfs,
   limited |-> limit, tcnt |-> cases, resets |-> sets]

\* One that forks children, under a timeout; one per filesystem with a taint
\* check, without; and one that calls tst_set_timeout().
MCTests == {Test(TRUE, FALSE, FALSE, TRUE, 1, 0), Test(FALSE, TRUE, TRUE, FALSE, 2, 0),
            Test(FALSE, FALSE, FALSE, TRUE, 1, 1)}
=============================================================================
