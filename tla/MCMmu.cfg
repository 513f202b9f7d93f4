CONSTANTS
  MAX_PROCESSES = 4
  RAM_SIZE <- MCRamSize
  OS_RESERVED_SIZE = 300
  MIN_STACK_SIZE = 50
SPECIFICATION FairSpec
INVARIANTS
  TypeOK
  NoSharedBlock
  BitmapExact
  FirstFitAtCall
PROPERTIES
  ImplementsPool
  
