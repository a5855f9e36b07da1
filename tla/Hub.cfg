SPECIFICATION MCSpec
CONSTANTS
  Names <- MCNames
  TopicKeys <- MCTopicKeys
  normTopicKey <- MCnormTopicKey
  DefaultTopic = "General"
  Null = Null
  OurNode = us
  Calls = {a, b}
  Nodes = {us, n1}
  Infos = {i0, i1}
  NoInfo = i0
  FlagSets = {f0, f1}
  NoFlags = f0
  Texts = {x}
  Subs = {s}
  Procs = {p1, p2}
  SubBuffer = 2
  MaxCalls = 4
INVARIANTS UserInItsTopic NoMessageGap StreamAgrees
PROPERTY StaleOnlyByRejoin
SYMMETRY Symmetry
CHECK_DEADLOCK FALSE
