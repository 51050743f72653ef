SPECIFICATION Spec
CONSTANTS
  MaxChanges = 2
  MaxCompactions = 1
  MaxCrashes = 1
INVARIANTS CanReopen
CHECK_DEADLOCK FALSE
