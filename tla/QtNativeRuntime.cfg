SPECIFICATION QtSpec
CONSTANTS
  None = None
  w1 = w1
  w2 = w2
  w3 = w3
  p1 = p1
  p2 = p2
  Windows <- MCWindows
  Processes <- MCProcesses
  MaxBrokers = 3
  MaxSessions = 2
SYMMETRY Symmetry
INVARIANTS
  BrokersAccounted
  WorkBehindCleanup
PROPERTIES
  NoSilentReconnect
CHECK_DEADLOCK FALSE
