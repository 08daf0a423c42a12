SPECIFICATION FairSpec
CONSTANTS
  TotalRuns = 1
  MaxParks = 0
  SavesMayFail = FALSE
  NumEntries = 2
  Kind <- JobThenGeneration
  SubmittedBy <- AllByPerson
  FirstRun <- FromStart
  Callers = {"tui"}
  Clients = {}
  MaxCrashes = 0
  MaxFaults = 2
  c1 = c1
PROPERTIES
  WorkerGoesOn
