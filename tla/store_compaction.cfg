SPECIFICATION Spec
CONSTANTS
  MaxChanges = 4
  MaxCompactions = 2
  MaxCrashes = 3
PROPERTIES KeepsPromise
CHECK_DEADLOCK FALSE
