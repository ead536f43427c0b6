CONSTANTS
  NR = 5
  NR_LIVE = 4
  Callers <- MCCallers
  Body <- MsgBody
  ZeroBody <- MCZeroBody
  Calls <- ForkWaitExit
  Status <- OneStatus
  Junk <- MCJunk
  TICKS = 7
  NoTick <- Window
SPECIFICATION ProcSpec
INVARIANTS
  WaitingHasChild
CHECK_DEADLOCK FALSE
