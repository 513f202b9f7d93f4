CONSTANTS
  SIGN_BIT = 10000
  RAM_SIZE = 30
  Garbage <- MCGarbage
  DmaAddresses = {3, 11}
  DiskWords = {25000}
  Processes = {"p", "q"}
  Base <- MCBase
  Limit <- MCLimit
  Programs <- MCPrograms
  StartPC <- MCStartPC
  TIMER_QUANTUM = 2
  Inputs <- MCInputs
  MaxSteps = 8
SPECIFICATION Spec
INVARIANTS
  TypeOK
PROPERTIES
  ImplementsMachine
  WritesFenced
  
CHECK_DEADLOCK FALSE
