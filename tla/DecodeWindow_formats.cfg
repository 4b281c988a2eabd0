SPECIFICATION WindowSpec
CONSTANTS
  FETCH_WINDOW = 16
  Heads <- MCHeads
  StaleBytes = {244}
  Pushes = {1, 2}
INVARIANTS
  WindowOK
  LikeReference
  WholeLikeReference
PROPERTIES
  DecodedHeld
  Decodes
