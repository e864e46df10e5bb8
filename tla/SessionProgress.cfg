CONSTANTS
  Session = {c1}
  Nobody = nobody
  MaxFd = 3
  MaxAddrs = 2
  MethodSets <- MCMethodSets
SPECIFICATION FairSpec
PROPERTY RequestSettles
CHECK_DEADLOCK FALSE
