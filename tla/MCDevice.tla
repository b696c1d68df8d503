------------------------------ MODULE MCDevice ------------------------------
(* Small instances of Device: up to three tests and two loop devices.          *)
EXTENDS Device

Scene(k, parts, last, u, f) ==
  [kind |-> [p \in Tests |-> IF p \in DOMAIN k THEN k[p] ELSE "absent"],
   partitions |-> parts, lastclose |-> last, udev |-> u, faults |-> f]
A == [a |-> "lib"]
AT == [a |-> "lib", t |-> "tool"]
ATF == [a |-> "lib", t |-> "tool", f |-> "toolfile"]

\* Three tests, and a system call that fails; two tests that leave partitions on their
\* devices; a test alone on an older kernel, with two failures.
MCScenes == { Scene(ATF, {}, TRUE, 2, 1), Scene(AT, {"a", "t"}, TRUE, 1, 0),
              Scene(A, {"a"}, FALSE, 2, 2) }
=============================================================================
