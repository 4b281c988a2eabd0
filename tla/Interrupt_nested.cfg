SPECIFICATION Spec
CONSTANTS
  CODE = 2
  MAX_FRAMES = 2
  Lines = {1}
INVARIANTS TypeOK FramesInMemory NmiKept
PROPERTIES ReturnRestores NmiAnswered
