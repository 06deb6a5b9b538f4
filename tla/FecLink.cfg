SPECIFICATION Spec
CONSTANTS
  SEQ_MAP_SIZE = 2
  LAPS = 2
  K = 2
  N = 1
  FEC_EMPTY = 3
  Senders = {"server", "client"}
  Workers = 2
  SKEW = 2
  MaxPackets = 5
  MaxBatches = 3
  MaxRepeats = 1
  MaxCleans = 1
  Blank = Blank
  Junk = Junk
INVARIANTS
  TypeOK
  CorruptionExplained
  FecAtMostOnce
  LossExplained
CHECK_DEADLOCK FALSE
