SPECIFICATION DriversSpec
CONSTANTS
  BAUD = {115200}
  Asked = {115200, 250000}
  POLLS = 2
  TRIES = 2
  ANT_LIMIT = 3
  Proc = {p, q}
  Grabs = {p}
  BATCH = 2
  QUEUE = 2
  MaxEvents = 3
  NoProc = NoProc
  ForeignLen = {127, 2000}
  LineLen = {10, 300}
  MaxForeign = 1
  MaxLines = 1
  Task = {s, t}
  MaxNest = 2
  MaxHooks = 5
  MaxPresses = 4
  LINE = 3
  MAX_LEN = 3
  BUFFER = 4
  Counts = {2, 3, 4, 5}
  Value = {7, 8}
  MaxCalls = 4
  MAX_PROBES = 2
  Exercise = {"waitqueue", "shared", "dedicated", "tasklet", "timer", "hrtimer", "reboot"}
  BITS_PER_LONG = 64
  Nodes <- SomeNodes
  Numbers <- SomeNumbers
  NoDevice = NoDevice
  Lists <- SomeLists
  Targets = {"modem", ""}
  NMEMB = 2
  PORT_STR = 16
INVARIANTS
  DriversTypeOK
  ToolsExplained
  DriversExplained
PROPERTY
  DriversLive
CHECK_DEADLOCK FALSE
