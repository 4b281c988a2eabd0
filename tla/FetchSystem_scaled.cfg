\* 6 slots, a window of 4 and 3-bit pointers stand to each other as the
\* 24, 16 and 5 bits of the code; instructions of at most 2 bytes.
CONSTANTS
  IBUF_SIZE = 6
  FETCH_WINDOW = 4
  PTR_MOD = 8
  BUS_BYTES = 2
  ADDR_SPACE = 8
  ZeroByte = 0
  Byte <- MCByte
  MaxLen = 2
  ConsumeLens = {1, 2}
  JumpTargets = {0, 3}
  StoreAddrs = {3}
  Images <- MCImages
SPECIFICATION Spec
INVARIANTS
  TypeOK
  InstructionBytes
  OwnAnswer
  Accounting
PROPERTY ImplementsStream
