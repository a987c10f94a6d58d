SPECIFICATION OperationsSpec
CONSTANTS
  MaxHandovers = 2
  TableRows = 2
  Entries = 2
  ListLimit = 1
  HashBudget = 1
  TotalBudget = 6
  Length = 2
  Overrun = 1
  MainSteps <- MCMainSteps
  FinallySteps <- MCFinallySteps
  OtherSource <- MCOtherSource
  Sources <- MCSources
  Expectations <- MCExpectations
  MaxScale = 3
  Places = 6
  PlanWrites = 2
  CaseFiles = 3
  Concurrency = 2
  MaxRecords = 3
  Headers <- MCHeaders
  UstvaBudget = 11
  Depth = 3
  ReceiptFields = 2
  LinkItems = 2
  FormPages = 3
  Stagnation = 2
  PagingBudget = 3
  ClassKinds = 2
  Instances = 2
  MaxAttempts = 3
  Starters = {"s1", "s2"}
  Targets = 2
  MaxBytes = 4
  MaxLine = 2
INVARIANTS
  ProgramAnswersAreTrue
  TableAnswersAreTrue
  FileAnswersAreTrue
  CompositeAnswersAreTrue
  ScenarioIsSound
  ExecutorIsSound
  CallAnswerIsTrue
  JournalIsTrue
  HostFilesWhole
  QtAnswersAreTrue
PROPERTIES
  EndedOnlyIfNothingLost
CHECK_DEADLOCK FALSE
