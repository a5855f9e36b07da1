CONSTANTS
  Topics = {general, dx}
  DefaultTopic = general
  Peers = {p}
  Absent = Absent
  MaxInputs = 3
  MaxStreams = 2
SPECIFICATION Spec
  
PROPERTY SentWhereShown
CHECK_DEADLOCK FALSE
