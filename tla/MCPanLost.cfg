CONSTANTS
  KeepActive = 2
  Pids = {1, 2, 3}
  Calls <- MCSlow
SPECIFICATION Spec
INVARIANTS NoneLost
