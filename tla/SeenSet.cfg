\* Two ids, two goroutines, a clock long enough for two full TTLs.
CONSTANTS
  Ids = {i1, i2}
  Procs = {p1, p2}
  TTL = 3
  Delay = 1
  MaxClock = 7
  None = None
SPECIFICATION Spec
PROPERTIES SuppressSound StillCirculating FreshFarApart
