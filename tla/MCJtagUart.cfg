CONSTANTS
  c1 = c1
  c2 = c2
  Char <- OneChar
  BufLen = 3
  FifoDepth = 1
  Threshold = 0
  TickRate = 1
  DefaultTimeout = 2
  IntMax = 5
  WriteMax = 1
  ReadMax = 1
  FromHost <- OneChar
  HostMoves = TRUE
  Timeouts = {0, 2}
SPECIFICATION Spec
INVARIANTS
  TypeOK
  NoLostKick
  ReceiveResumes
  SnapshotsHold
  UnlimitedPatience
