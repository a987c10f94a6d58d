SPECIFICATION FairPartsSpec
CONSTANTS
  Calls = {c1, c2, c3}
  MaxDepth = 2
  KillMayFail = FALSE
  Envs = {e1, e2}
  PoolSize = 2
  MaxSpares = 3
INVARIANTS
  OneLiveJob
  NoSilentSurvivor
  PoolAgrees
PROPERTIES
  NoStartAfterAbortOrFailure
  FirstReasonWins
  ImplementsExclusiveWorker
  EveryCallAnswered
  TakenForGood
  StartsEnd
CHECK_DEADLOCK FALSE
