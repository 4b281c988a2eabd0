SPECIFICATION Spec
CONSTANTS
  Width <- MCWidth
  Half <- MCHalf
  COUNT_BITS = 6
  COUNT_LOW = 4
  Instructions <- MCInstructions
  Follow <- MCFollow
  Contents <- MCContents
  MaxDigits = 2
  EXP = 4
  FRAC = 3
INVARIANTS
  TypeOK
  LikeReference
  WideSum
  WideCompare
  IntegersExact
  Ordered
  Close
