SPECIFICATION FairApiSpec
CONSTANTS
  None = None
  Operations = {o1, o2}
  Stops = {s1, s2}
INVARIANTS
  OneOperation
  StopFindsNothingRunning
  RefusedNotExecuted
  ExecutionsLogged
  NoUnattendedExecution
PROPERTIES
  ShutdownCompletes
CHECK_DEADLOCK FALSE
