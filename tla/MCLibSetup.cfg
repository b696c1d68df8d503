CONSTANTS
  Tests <- MCTests
  Paths = {"nr_hugepages", "panic"}
  Values = {0, 1}
  MaxFaults = 3
SPECIFICATION FairSpec
INVARIANTS NothingLeft SysctlRestored EarlyExit
PROPERTIES Terminates
