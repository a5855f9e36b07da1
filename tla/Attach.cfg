SPECIFICATION AttachFair
CONSTANTS
  MaxSSID = 2
  ChatCallsign = 1
  Children = {c1, c2}
INVARIANT KnowsItself
PROPERTIES ComesUp 
