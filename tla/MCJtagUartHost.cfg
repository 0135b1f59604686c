CONSTANTS
  c1 = c1
  c2 = c2
  Char <- MCChar
  BufLen = 3
  FifoDepth = 1
  Threshold = 0
  TickRate = 0
  DefaultTimeout = 2
  IntMax = 5
  WriteMax = 2
  ReadMax = 1
  FromHost <- MCChar
  HostMoves = FALSE
  Timeouts = {}
SPECIFICATION OneWaySpec
PROPERTIES
  TransmitsStream
  ReceivesStream
  RoutineEnds
  RingDrains
  ReaderServed
