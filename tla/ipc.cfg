CONSTANTS
  NR = 4
  NR_LIVE = 4
  Callers <- MCCallers
  Body <- MCBody
  ZeroBody = "m0"
SPECIFICATION Spec
INVARIANTS
  TypeOK
  ListsHoldSenders
  NoMissedRendezvous
  NoSendCycle
  KernelAssertionsHold
PROPERTIES
  ImplementsRendezvous
  NoStarvation
CHECK_DEADLOCK FALSE
