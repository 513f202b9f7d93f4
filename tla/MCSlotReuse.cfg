CONSTANTS
  MAX_PROCESSES = 2
  RAM_SIZE <- MCRamSize
  OS_RESERVED_SIZE = 300
  MIN_STACK_SIZE = 50
  TIMER_QUANTUM = 2
  WordCounts = {10}
  SleepTimes = {2}
  Instructions <- MCShortInstructions
  Commands = {"run"}
  MaxPid = 2
  CycleBound = 2
SPECIFICATION Spec
INVARIANTS
  OwnRegisters
CHECK_DEADLOCK FALSE
