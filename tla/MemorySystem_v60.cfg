\* The V60's 16-bit bus, with the accesses it performs atomically.
CONSTANTS
  BUS_BYTES = 2
  ADDR_SPACE = 6
  MAY_STALL = TRUE
  ZeroByte = 0
  Byte <- MCByte
  InitMem <- MCInitMem
  MasterAddr <- MCMasterAddr
  CoreRequests <- V60Requests
SPECIFICATION Spec
INVARIANTS
  TypeOK
  WriteExact
  ReadExact
PROPERTY AtomicAccess
