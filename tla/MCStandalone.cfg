SPECIFICATION Spec
CONSTANTS
  Parts = {"source", "bytecode", "elliptic", "batch", "database"}
  Percentile = 60
  TargetPrecision = 60
  Processes = {pipeline, api}
  Severities = {"HIGH", "CRITICAL"}
  HistoryLimit = 2
  MaxAlerts = 3
  MaxStarts = 3
  MaxClock = 1
  AfterCall = 1
  AfterFunction = 2
  BeforeDestruct = 2
  LargeCode = 4
  Lines <- MCLines
  MaxLines = 4
  Bytes = {"selfdestruct", "delegatecall", "call", "timestamp", "push1", "push2"}
  MaxBytes = 5
  LastTrainStep = 1
  LastTestStep = 2
  Ids = {1, 2, 3, 4}
  MaxRows = 3
  MaxEdges = 2
  RawScores = {30, 45, 48, 50, 70}
  MaxSamples = 4
  ProductionThreshold = 50
  Steps = 19
INVARIANTS WorstDecides CountsInstructions EdgesJoinTheirTransactions BestBeatsProduction FlagsAbovePercentile TunedFindsMost ReturnedIsShown
PROPERTIES FindingsOutlive
CHECK_DEADLOCK FALSE
