CONSTANTS
  MAX_PROCESSES = 2
  RAM_SIZE <- MCRamSize
  OS_RESERVED_SIZE = 300
  MIN_STACK_SIZE = 50
  DEFAULT_STACK_SIZE = 100
  TIMER_QUANTUM = 1
  LoadedLimit = 1
  WordCounts = {10}
  SleepTimes = {1}
  Instructions <- MCMaskingInstructions
  Commands = {"run", "monitor", "debug", "shutdown"}
  MaxPid = 1
  CycleBound = 1
SPECIFICATION DebugSpec
INVARIANTS
  DebuggedAlone
CHECK_DEADLOCK FALSE
