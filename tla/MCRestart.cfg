CONSTANTS
  MAX_PROCESSES = 2
  RAM_SIZE <- MCRamSize
  OS_RESERVED_SIZE = 300
  MIN_STACK_SIZE = 50
  TIMER_QUANTUM = 1
  WordCounts = {10}
  SleepTimes <- MCShortSleeps
  Instructions <- MCShortInstructions
  Commands = {"run", "restart", "shutdown"}
  MaxPid = 1
  CycleBound = 2
SPECIFICATION FairSpec
PROPERTIES
  ShutdownCompletes
CHECK_DEADLOCK FALSE
