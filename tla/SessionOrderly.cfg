CONSTANTS
  Session = {c1, c2}
  Nobody = nobody
  MaxFd = 3
  MaxAddrs = 2
  MethodSets <- MCMethodSets
SYMMETRY MCSymmetry
SPECIFICATION Spec
INVARIANT OrderlyEnd
CHECK_DEADLOCK FALSE
