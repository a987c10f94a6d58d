SPECIFICATION RSpec
CONSTANTS
  Calls = {c1, c2}
  MaxDepth = 2
  KillMayFail = TRUE
  PoolSize = 1
  MaxSpares = 2
  Envs = {e1}
INVARIANTS
  EveryProcessAccounted
PROPERTIES
  NoProcessAfterEnd
CHECK_DEADLOCK FALSE
