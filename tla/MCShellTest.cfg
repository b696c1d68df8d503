CONSTANTS
  Scenes <- MCScenes
  Timers = {1, 2}
  MaxPolls = 1
SPECIFICATION Spec
INVARIANTS CleanedUp ExitTells TimersConsistent
PROPERTIES CleanupOnce FullTime Terminates
CHECK_DEADLOCK FALSE
