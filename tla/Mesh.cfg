CONSTANTS
  a = a
  b = b
  c = c
  d = d
  u = u
  v = v
  x = x
  y = y
  i1 = i1
  dx = dx
  DefaultTopic = general
  NoInfo = noinfo
  Null = Null
  Nodes = {a, b, c, d}
  Users = {u, v}
  Home <- Homes
  Topics = {general, dx}
  Infos = {noinfo, i1}
  Texts = {x, y}
  Nets <- Deployments
  MaxBreaks = 1
SPECIFICATION Spec
INVARIANTS DeliveredOnce  NoOrphan  
PROPERTY WindsDown
