CONSTANTS
  Tests = {"a", "t", "f"}
  Devs = {0, 1}
  Scenes <- MCScenes
  MaxTries = 3
SPECIFICATION FairSpec
INVARIANTS UsedIsOwn CleanIsDetached
PROPERTIES AllFreed
