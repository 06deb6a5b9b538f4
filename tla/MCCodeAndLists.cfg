SPECIFICATION MCSpec
CONSTANTS
  Codes <- SmallCodes
  Values <- FewValues
  Garbage <- Stale
  Width = {0, 16, 32, 64}
  Factors <- FewFactors
  RowLen = {0, 1, 16, 32, 47, 96}
  Seed = {1, 90}
  Root = {g, h}
  Node = {n1, n2, n3}
  Poison = Poison
  Chain = {"g", "h"}
  Elem = {"n1", "n2", "n3"}
  Key <- Keys
  NULL = NULL
  POISON = POISON
  FEC_RS_K = 2
  FEC_RS_N = 1
  FEC_RS_T = 3
  BUFFER_SIZE = 6
  PKT_OFFSET = 2
  PKG_FEC_ENCODE_MIN_LEN = 4
  UDP_RBATCH_SIZE = 2
  PacketLen = {1, 4, 5, 6}
  MaxFrames = 2
  Unset = Unset
INVARIANTS
  SequentialTypeOK
  DecodingSound
  RowsExplained
  ListsSound
  FramesExplained
PROPERTIES
  SurvivorsUntouched
  ImplementLists
SYMMETRY Symmetry
CHECK_DEADLOCK FALSE
