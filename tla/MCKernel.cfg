CONSTANTS
  MAX_PROCESSES = 2
  RAM_SIZE <- MCRamSize
  OS_RESERVED_SIZE = 300
  MIN_STACK_SIZE = 50
  TIMER_QUANTUM = 2
  WordCounts <- MCWordCounts
  SleepTimes <- MCSleepTimes
  Instructions <- MCInstructions
  Commands = {"run", "monitor", "shutdown"}
  MaxPid = 3
  CycleBound = 2
SPECIFICATION Spec
INVARIANTS
  TypeOK
  PartitionsExactlyOwned
  OneExecuting
  RegistersFencePartition
  RegistersStayInSlot
PROPERTIES
  ImplementsProcessManager
  UsesPool
CHECK_DEADLOCK FALSE
