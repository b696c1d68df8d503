CONSTANTS
  Tests = {"a", "b", "s"}
  Scenes <- MCScenes
SPECIFICATION FairSpec
INVARIANTS GroupsConsistent GroupsRemoved NoneBroken
PROPERTIES RemovesBelowOwn CleanupEnds
