CONSTANTS
  KeepActive = 2
  Pids = {1, 2, 3}
  Calls <- MCCalls
SPECIFICATION FairSpec
INVARIANTS BooksAgree AtExit
PROPERTIES Terminates StopsOnSignal
