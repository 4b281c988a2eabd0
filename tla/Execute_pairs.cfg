SPECIFICATION Spec
CONSTANTS
  BYTE = 4
  MEM = 32
  SP = 7
  Width <- MCWidth
  Half <- MCHalf
  COUNT_BITS = 2
  COUNT_LOW = 2
  Fpu <- MCFpu
  Instructions <- MCInstructions
  Follow <- MCFollow
  Machines <- MCMachines
INVARIANTS
  TypeOK
  LikeReference
  RoundTrip
PROPERTIES
  InstructionEnds
CHECK_DEADLOCK FALSE
