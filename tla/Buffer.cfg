CONSTANTS
  Limit = 4
  Byte <- MCByte
SPECIFICATION Spec
INVARIANT TypeOK
INVARIANT EmptyHasAllRoom
PROPERTY ImplementsFifo
