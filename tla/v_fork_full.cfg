CONSTANTS
  NR = 5
  NR_LIVE = 4
  Callers <- MCCallers
  Body <- MsgBody
  ZeroBody <- MCZeroBody
  Calls <- ForkTicks
  Status <- OneStatus
  Junk <- ZeroJunk
  TICKS = 7
  NoTick <- Window
SPECIFICATION ProcSpec
PROPERTIES
  FailureReturned
CHECK_DEADLOCK FALSE
