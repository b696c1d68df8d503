SPECIFICATION Spec
CONSTANTS
  INT_MAX = 4
  ExecLoops = 5
  MaxUses = 2
INVARIANTS TypeOK PlainFieldsExclusive
PROPERTIES ImplementsBarrier ExitEnds WaitReturns
CHECK_DEADLOCK FALSE
