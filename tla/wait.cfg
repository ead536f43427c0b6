CONSTANTS
  NR = 6
  NR_LIVE = 5
  Callers <- MCCallers
  Body <- MsgBody
  ZeroBody <- MCZeroBody
  Calls <- ManageCalls
  Status <- MCStatus
  Junk <- MCJunk
  TICKS = 7
  NoTick <- Window
SPECIFICATION ProcSpec
PROPERTIES
  WaitReportsExited
  
CHECK_DEADLOCK FALSE
