SPECIFICATION MCSpec
CONSTANTS
  Key <- PollKeys
  DebugKey = 1537
  MAX_RETRY = 1
  UBX_FRAME_MAX = 7
  Noise = {181, 3}
  MaxNoise = 1
  MAX_FILES = 2
  LOG_SIZE = 1
  MaxTime = 3
  MaxReads = 6
  MaxStarts = 2
  Caller = {p, q}
  MaxSample = 1
  MaxCalls = 3
  MaxFailures = 1
  User = {u, v}
  Axis = {0, 1}
  Bias = {40000}
  Work <- FewAccesses
  MaxJobs = 4
  MaxIrqs = 1
  Rtc = {node, added}
  Times = {3}
  MaxUptime = 3
INVARIANTS
  ReadersTypeOK
  PollExplained
  LogExplained
  AnswersExplained
  SettingsKept
SYMMETRY Symmetry
CHECK_DEADLOCK FALSE
