SPECIFICATION FairSpec
CONSTANTS
  Callers = {c1, c2}
  MaxCalls = 3
INVARIANT OwnReplyOnce
PROPERTY AllReturn
CHECK_DEADLOCK FALSE
