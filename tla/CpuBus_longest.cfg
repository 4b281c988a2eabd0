SPECIFICATION Spec
CONSTANTS
  BUS_BYTES = 2
  ADDR_SPACE = 24
  Byte = {0, 1}
  ZeroByte = 0
  InitMem <- MCInitMem
  MAY_STALL = FALSE
  IBUF_SIZE = 24
  FETCH_WINDOW = 16
  PTR_MOD = 32
  Instructions <- LongInstructions
  ResetRead <- MCResetRead
  AddrOf <- MCAddrOf
PROPERTY Executes
