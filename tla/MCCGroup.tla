------------------------------ MODULE MCCGroup ------------------------------
(* Small instances of CGroup: two C tests, and a script.                      *)
EXTENDS CGroup

Scene(ps, n, pre, linger, f) ==
  [kind |-> [p \in Tests |-> IF p \notin ps THEN "absent" ELSE IF p = "s" THEN "script" ELSE "lib"],
   ctrls |-> [p \in Tests |-> IF p = "s" /\ ps # {"s"} THEN 1 ELSE n],
   premade |-> pre, linger |-> linger, faults |-> f]

\* Three tests below an ltp group that is there; a test that requires two controllers
\* and leaves a child behind next to a script, with a call that fails, with and
\* without an ltp group in advance; two C tests that compete for making it; a script
\* alone that requires two controllers.
MCScenes == { Scene({"a", "b", "s"}, 1, TRUE, {}, 0), Scene({"a", "s"}, 2, FALSE, {"a"}, 1),
              Scene({"a", "s"}, 2, TRUE, {"a"}, 1), Scene({"a", "b"}, 1, FALSE, {}, 0),
              Scene({"s"}, 2, FALSE, {}, 0) }

\* Two C tests that compete for making ltp, and nothing fails.
MCParallel == { Scene({"a", "b"}, 1, FALSE, {}, 0) }
=============================================================================
