CONSTANTS
  MAX_PROCESSES = 3
  RAM_SIZE = 21
  OS_RESERVED_SIZE = 6
  MIN_STACK_SIZE = 3
  DISK_TRACKS = 2
  DISK_CYLINDERS = 2
  DISK_SECTORS = 3
  HostFiles <- MCHostFiles
  Identifiers <- MCIdentifiers
  DmaPlaces <- MCDmaPlaces
  SCALE = 3
SPECIFICATION DiskstatSpec
INVARIANTS
  TypeOK
  ExtentsDisjoint
  CatalogFaithful
  LoadedExactly
  
