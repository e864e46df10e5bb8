CONSTANTS
  MaxItems = 4
  Initial = 3
  LogFd = 2
  FileFd = 1
  Other <- MCOther
  LineLen = 3
  DateLen = 1
  Breaks <- MCBreaks
  MaxLines = 3
  MaxStalls = 1
SPECIFICATION FairSpec
INVARIANT TypeOK
INVARIANT AskedIsRegistered
INVARIANT NoOverrun
INVARIANT LogIsExact
INVARIANT NothingMissing
INVARIANT LoggerAwake
PROPERTY LogReachesFile
CHECK_DEADLOCK FALSE
