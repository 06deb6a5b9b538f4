SPECIFICATION MCSpec
CONSTANTS
  Buffer = {b1, b2, b3}
  Errors <- Failures
  MaxPackets = 4
  MaxErrors = 2
  UDP_WORKER = 2
  Lan = {a}
  NoLan = none
  MaxRuns = 2
  MaxMoves = 1
  Thread = {s, t}
  Stacks <- FewStacks
  NoThread = NoThread
  NoFn = NoFn
INVARIANTS
  ProcessTypeOK
  InOrderUntilFailure
  ReadsKept
  FecMissExplained
  RulesExplained
  TraceFaithful
PROPERTIES
  EventuallySent
  ProcessesEnd
CHECK_DEADLOCK FALSE
