SPECIFICATION Spec
CONSTANTS
  BYTE = 16
  MEM = 32
  SP = 7
  DIGIT = 4
  RADIX = 2
  WRITES = 8
  Tails <- MCTails
  Instructions <- MCInstructions
  Later <- MCLater
  Continues <- MCContinues
  Stores <- MCStores
  Machines <- MCMachines
  INSTRUCTIONS = 2
  STORES = 1
INVARIANTS
  TypeOK
  LikeReference
  MemoryKept
CHECK_DEADLOCK FALSE
