SPECIFICATION Spec
CONSTANTS
  Calls = {c1, c2, c3}
  MaxDepth = 3
  KillMayFail = TRUE
INVARIANTS
  OneLiveJob
CHECK_DEADLOCK FALSE
