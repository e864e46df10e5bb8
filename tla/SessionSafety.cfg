CONSTANTS
  Session = {c1, c2}
  Nobody = nobody
  MaxFd = 3
  MaxAddrs = 2
  MethodSets <- MCMethodSets
SYMMETRY MCSymmetry
SPECIFICATION Spec
INVARIANT TypeOK
INVARIANT StatsMatch
INVARIANT DescriptorsOwned
INVARIANT AuthGate
INVARIANT RepliesInOrder
INVARIANT LookupOwned
INVARIANT AbortsOnlyAfterForwarding
INVARIANT OnlyRetriesLeaveItems
CHECK_DEADLOCK FALSE
