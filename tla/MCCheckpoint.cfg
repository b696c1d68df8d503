CONSTANTS
  parent = parent
  child = child
  other = other
  Proc = {parent, child, other}
  Scripts <- MCScripts
  Flags <- MCFlags
  MaxFutexes = 2
  DEFAULT_MSEC_TIMEOUT = 2
  MaxKills = 1
SPECIFICATION Spec
INVARIANTS Matched NoOvershoot
PROPERTIES EveryCallReturns
