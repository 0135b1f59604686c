CONSTANTS
  jtag = jtag
  null = null
  missing = missing
  NULL = NULL
  ALT_MAX_FD = 5
  Stdio = jtag
  DevNull = null
  Name <- MCName
  OpenFlags <- MCOpenFlags
SPECIFICATION Spec
PROPERTIES
  ExclusiveLock
