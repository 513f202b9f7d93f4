CONSTANTS
  MAX_HISTORY_LINES = 3
  Commands <- MCCommands
  MayRefuse = TRUE
  MaxMessages = 5
SPECIFICATION FairSpec
INVARIANTS
  TypeOK
  ScreenComplete
  TerminalRestored
  AnswerWhole
PROPERTIES
  ImplementsLog
  ReadAnswered
CHECK_DEADLOCK FALSE
