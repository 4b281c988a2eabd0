\* The V60's 16-bit bus with every alignment: a misaligned store goes wrong.
CONSTANTS
  BUS_BYTES = 2
  ADDR_SPACE = 6
  MAY_STALL = TRUE
  ZeroByte = 0
  Byte <- MCByte
  InitMem <- MCInitMem
  MasterAddr <- MCMasterAddr
  CoreRequests <- AllRequests
SPECIFICATION Spec
INVARIANT WriteExact
