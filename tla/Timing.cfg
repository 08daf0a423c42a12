SPECIFICATION TimingSpec
CONSTANTS
  MaxChanges = 3
  MaxEdits = 1
  MaxCrashes = 2
  Keep = 2
  ManifestLimit = 2
  MaxComplete = 4
  MaxResets = 1
  MaxLag = 1
  Checkpoints = {1, 2}
  RingSize = 3
  MinHold = 1
  MaxHold = 2
  HoldPart = 2
  TrainMin = 1
  FreshMin = 1
  DecideMin = 1
  SearchEvery = 2
  SearchRuns = 2
  SearchExecs = 2
  MaxTime = 3
  Reach = 1
  Runs = 2
  Units = 2
  Interval = 2
  SameEnd = 0
  Whole = 60
  MaxParks = 2
  MaxFails = 1
  Entries = 2
  Requests = {r1, r2}
  MaxRequests = 3
  Samples <- MCSamples
  PlanRequests <- MCRequests
  FactoryPoints = {}
  Calibrated = {"h3"}
  MinSignatureRuns = 2
  MinSignatureExecutions = 2
  MinFitRuns = 2
  MinFitExecutions = 2
  MinStageSamples = 2
  MinStageRows = 2
  MaxRuns = 3
  OldJobs = {1}
  MaxJobs = 2
  RunsPerJob = 2
  StageCount = 2
  PageSize = 1
  MaxLost = 1
  MaxDeaths = 1
  MaxImports = 1
  MaxDeleted = 1
  RunShares = {1, 2, 3}
  JobShares = {1, 2, 3}
  Parts = 4
  QualifiedRuns = 2
  QualifiedExecutions = 2
  PerFold = 2
INVARIANTS KnobFilesKept LearnedFairly  ForecastShown ForecastOfCurrent
PROPERTY BarsHold
CHECK_DEADLOCK FALSE
