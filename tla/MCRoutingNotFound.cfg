SPECIFICATION PathsSpec
CONSTANTS
  Gateway = {g1}
  Apn = {p1, p2}
  CONN_TIMEOUT = 1
  Flow <- OneFlow
  WORD = 8
  Addr = {a1}
  Worker = {w1}
  STALL = 1
  MALLOC_FAILS = FALSE
  MaxTime = 4
  None = None
  Torn = Torn
  g1 = g1
  g2 = g2
  p1 = p1
  w1 = w1
INVARIANTS
  NotFoundHandled
SYMMETRY Symmetry
CHECK_DEADLOCK FALSE
