SPECIFICATION MCSpec
CONSTANTS
  TotalBudget = 3
  Length = 1
  Overrun = 0
  MainSteps <- MCSteps
  FinallySteps <- MCSteps
INVARIANTS
  ReportIsNamed
CHECK_DEADLOCK FALSE
