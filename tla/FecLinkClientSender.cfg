SPECIFICATION Spec
CONSTANTS
  SEQ_MAP_SIZE = 2
  LAPS = 2
  K = 2
  N = 1
  FEC_EMPTY = 3
  Senders = {"client"}
  Workers = 2
  SKEW = 2
  MaxPackets = 3
  MaxBatches = 3
  MaxRepeats = 0
  MaxCleans = 0
  Blank = Blank
  Junk = Junk
INVARIANT
  SurvivesLoss
CHECK_DEADLOCK FALSE
