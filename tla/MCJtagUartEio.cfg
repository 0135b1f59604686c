CONSTANTS
  c1 = c1
  c2 = c2
  Char <- OneChar
  BufLen = 2
  FifoDepth = 1
  Threshold = 0
  TickRate = 1
  DefaultTimeout = 2
  IntMax = 5
  WriteMax = 2
  ReadMax = 0
  FromHost <- NoChar
  HostMoves = TRUE
  Timeouts = {}
SPECIFICATION Spec
PROPERTIES
  EioMeansNoHost
