CONSTANTS
  Tests = {"a", "b", "s"}
  Scenes <- MCParallel
SPECIFICATION Spec
PROPERTIES RemovesOwn
