CONSTANTS
  MaxData = 4
  Room = 1
  Begin = Begin
  Close = Close
  Idle = Idle
SPECIFICATION SessionFair
INVARIANTS SaidInOrder AsideOnlyBefore NextStays
PROPERTIES ReadToTheEnd SessionReleases
CHECK_DEADLOCK FALSE
