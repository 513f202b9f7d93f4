CONSTANTS
  MAX_PROCESSES = 3
  RAM_SIZE <- MCRamSize
  OS_RESERVED_SIZE = 300
  MIN_STACK_SIZE = 50
  TIMER_QUANTUM = 1
  WordCounts = {10}
  SleepTimes = {2}
  Instructions <- MCServiceInstructions
  Commands = {"run", "monitor"}
  MaxPid = 3
  CycleBound = 1
SPECIFICATION FairRoundRobin
PROPERTIES
  ReadyRuns
  SleepersWake
  MonitorServes
  NobodyTwice
CHECK_DEADLOCK FALSE
