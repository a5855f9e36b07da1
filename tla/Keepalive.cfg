CONSTANTS
  Every = 2
  Timeout = 5
  MaxClock = 20
  None = None
SPECIFICATION KeepaliveSpec
INVARIANT DeadLinkDropped
CHECK_DEADLOCK FALSE
