CONSTANTS
  c1 = c1
  c2 = c2
  Char <- OneChar
  BufLen = 3
  FifoDepth = 1
  Threshold = 0
  TickRate = 0
  DefaultTimeout = 2
  IntMax = 5
  WriteMax = 0
  ReadMax = 1
  FromHost <- OneChar
  HostMoves = FALSE
  Timeouts = {}
SPECIFICATION Spec
PROPERTIES
  OffMeansFull
