SPECIFICATION Spec
CONSTANTS
  BUS_BYTES = 2
  ADDR_SPACE = 6
  Byte = {0, 1}
  ZeroByte = 0
  InitMem <- MCInitMem
  MAY_STALL = TRUE
  IBUF_SIZE = 6
  FETCH_WINDOW = 3
  PTR_MOD = 8
  Instructions <- MCInstructions
  ResetRead <- MCResetRead
  AddrOf <- MCAddrOf
INVARIANTS TypeOK DataRouted FetchRouted InstructionHeld
PROPERTIES ImplementsPrefetch Executes FetchServed
