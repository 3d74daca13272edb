CONSTANTS
  Models = {a, b}
  Values = {v0, v1}
  MaxUser = 2
  MaxWorld = 2
  MaxAttempts = 2
SPECIFICATION Spec
INVARIANTS OneWriter Shown
PROPERTIES NeverLess OperationEnds
CHECK_DEADLOCK FALSE
