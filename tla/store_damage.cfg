SPECIFICATION DamageSpec
CONSTANTS
  MaxChanges = 3
  MaxCompactions = 3
  MaxCrashes = 2
INVARIANTS TypeOK FilesHoldState SettledKept
CHECK_DEADLOCK FALSE
