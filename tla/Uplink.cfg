SPECIFICATION Spec
CONSTANTS
  SEQ_MAP_SIZE = 2
  LAPS = 2
  EMPTY = 3
  CONN_TIMEOUT = 2
  Gateway = {g1}
  Path = {p1, p2}
  Worker = {w1, w2}
  CLEAN_SECS = 1
  SKEW = 2
  LIFE = 1
  GAP = 2
  MaxPackets = 3
  MaxTime = 3
  MaxRuns = 2
  NoCopy = NoCopy
INVARIANTS
  TypeOK
  SettledOnce
  StartCleans
SYMMETRY Symmetry
CHECK_DEADLOCK FALSE
