SPECIFICATION HandshakeFair
CONSTANTS
  Steps = 2
  Records = 3
INVARIANTS HandledInOrder Admission
PROPERTIES ComesUp 
CHECK_DEADLOCK FALSE
