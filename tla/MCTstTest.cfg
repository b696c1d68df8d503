CONSTANTS
  Pid = {p1, p2, p3}
  LibPid = lib
  InitPid = init
  NoPid = nopid
  Tests <- MCTests
  Runs = 2
  Iterations = 1
  MaxCalls = 2
  MaxRetries = 1
  Faults = {"crash", "stuck", "taint", "interrupt", "libkill", "nofork"}
SPECIFICATION Spec
INVARIANTS ExitTruthful TbrokKillsOwn LeftoversKilled OrphanStops
PROPERTIES CleanupOnce Terminates
CHECK_DEADLOCK FALSE
