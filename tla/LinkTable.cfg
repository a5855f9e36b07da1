CONSTANTS
  l1 = l1
  l2 = l2
  l3 = l3
  l4 = l4
  p1 = p1
  p2 = p2
  u = u
  v = v
  Links = {l1, l2, l3, l4}
  Peers = {p1, p2}
  Peer <- MCPeer
  Users = {u, v}
  Home <- MCHome
  Null = Null
SPECIFICATION Spec
INVARIANTS RelayReaches NoGhost
CHECK_DEADLOCK FALSE
