SPECIFICATION MCSpec
CONSTANTS
  SEQ_MAP_SIZE = 2
  LAPS = 2
  EMPTY = 3
  CONN_TIMEOUT = 1
  Path = {p1, p2}
  SKEW = 2
  LIFE = 0
  MaxPackets = 5
  MaxTime = 2
  NoCopy = NoCopy
  MaxRestarts = 1
INVARIANTS
  RTypeOK
  AtMostOnce
  RestartDropsExplained
PROPERTY
  Implements
SYMMETRY Symmetry
CHECK_DEADLOCK FALSE
