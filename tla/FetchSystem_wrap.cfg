\* The sizes of v60_pkg.sv and instructions of 3 and 10 bytes.
CONSTANTS
  IBUF_SIZE = 24
  FETCH_WINDOW = 16
  PTR_MOD = 32
  BUS_BYTES = 2
  ADDR_SPACE = 64
  ZeroByte = 0
  Byte <- MCByte
  MaxLen = 10
  ConsumeLens = {3, 10}
  JumpTargets = {0}
  StoreAddrs = {}
  Images <- MCImages
SPECIFICATION Spec
INVARIANT InstructionBytes
