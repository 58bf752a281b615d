SPECIFICATION Spec
CONSTANTS
  Last = 2
  MaxLosses = 1
INVARIANTS NoOverrun
CHECK_DEADLOCK FALSE
