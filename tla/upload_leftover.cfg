SPECIFICATION Spec
CONSTANTS
  Files <- MCFiles
  MaxCommands = 2
INVARIANT FailureDeletes
CHECK_DEADLOCK FALSE
