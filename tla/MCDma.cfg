CONSTANTS
  DISK_TRACKS = 2
  DISK_CYLINDERS = 1
  DISK_SECTORS = 1
  RAM_SIZE = 4
  Processes = {"p", "q"}
  Base <- MCBase
  Limit <- MCBase
  Modes = {"user", "kernel"}
  Operands <- MCOperands
  Word = {0, 1}
  LoaderAddresses = {1}
  LoaderSectors <- MCLoaderSectors
SPECIFICATION FairSpec
INVARIANTS
  TypeOK
  TransferWhileCpuWaits
  DoneBeforeReturn
PROPERTIES
  NoInterruptLost
  ImplementsChannel
  SDMAONReturns
