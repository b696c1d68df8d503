CONSTANTS
  Tests <- MCOverlayTests
  Paths = {"nr_hugepages", "panic"}
  Values = {0, 1}
  MaxFaults = 1
SPECIFICATION FairSpec
PROPERTIES DoExitExits
