CONSTANTS
  MaxBytes = 2
  BufferSize = 1
  Window = 1
  Unreliable = {}
SPECIFICATION FairSpec
PROPERTY Delivery
PROPERTY EofPropagates
CHECK_DEADLOCK FALSE
