CONSTANTS
  MaxBytes = 2
  BufferSize = 1
  Window = 1
  Unreliable = {}
SPECIFICATION FairSpec
PROPERTY DrainOnClose
CHECK_DEADLOCK FALSE
