SPECIFICATION MCSpec
CONSTANTS
  Buffer = {b1, b2, b3}
  Errors <- Again
  MaxPackets = 7
  MaxErrors = 1
  UDP_WORKER = 2
  Lan = {a}
  NoLan = none
  MaxRuns = 2
  MaxMoves = 1
  Thread = {s, t}
  Stacks <- FewStacks
  NoThread = NoThread
  NoFn = NoFn
INVARIANT
  SentInOrder
CHECK_DEADLOCK FALSE
