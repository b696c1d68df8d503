CONSTANTS
  Clients = {"a", "b", "r", "u"}
  Prog <- ProgAll
  Pid <- PidAll
  Pids <- AllPids
  Tags <- AllTags
  IsPrefix <- Prefixes
  MaxMishaps = 1
SPECIFICATION FairSpec
INVARIANTS ZooConsistent
PROPERTIES Implements AllFinish
