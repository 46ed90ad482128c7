SPECIFICATION FilesSpec
CONSTANTS
  p1 = p1
  p2 = p2
  k1 = k1
  k2 = k2
  Addr = {p1, p2}
  Key = {k1, k2}
  Desc <- MCDesc
  NoPeer = NoPeer
  BadNumber = BadNumber
  Ragged = Ragged
  MAX_SEQ_ERROR_COUNT = 1
  MaxSeed = 1
  MaxLines = 3
  MaxPeers = 3
INVARIANTS  ListedHasPort FaultHasCause
SYMMETRY Symmetry
CHECK_DEADLOCK FALSE
