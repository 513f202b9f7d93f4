CONSTANTS
  MAX_HISTORY_LINES = 3
  Commands <- MCCommands
  MayRefuse = FALSE
  MaxMessages = 5
SPECIFICATION Spec
INVARIANTS
  ConsoleGoesOn
CHECK_DEADLOCK FALSE
