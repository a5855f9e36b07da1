CONSTANTS
  A = A
  B = B
  t1 = t1
  t2 = t2
  r = r
  a1 = a1
  b1 = b1
  Tabs = {t1, t2}
  Requests = {r}
  Sessions = {s1, s2}
  Absent = Absent
  PdnUsers = {A, B}
  Owner <- Owners
  Calls = {call, other}
  TheCall = call
  Posts = {a1, b1}
  By <- Posters
  None = None
SPECIFICATION SpecAll
INVARIANTS AbsentAtRest PresentWhileOpen  OneIdentity
PROPERTY ClaimsAtomic
