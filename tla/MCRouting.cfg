SPECIFICATION MCSpec
CONSTANTS
  Gateway = {g1}
  Apn = {p1, p2}
  CONN_TIMEOUT = 1
  Flow <- OneFlow
  WORD = 8
  Addr = {a1}
  Worker = {w1, w2}
  STALL = 1
  MALLOC_FAILS = TRUE
  MaxTime = 4
  None = None
  Torn = Torn
  g1 = g1
  g2 = g2
  p1 = p1
  w1 = w1
INVARIANTS
  TypeOKHere
  RepliesToHashOwner
  ToAnnouncedAddress
  MissingOnlyAfterRemoval
PROPERTY
  ExpiresOnlyTheSilentHere
SYMMETRY Symmetry
CHECK_DEADLOCK FALSE
