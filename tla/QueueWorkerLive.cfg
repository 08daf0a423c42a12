SPECIFICATION FairSpec
CONSTANTS
  TotalRuns = 2
  MaxParks = 0
  SavesMayFail = FALSE
  NumEntries = 2
  Kind <- JobThenGeneration
  SubmittedBy <- AllByPerson
  FirstRun <- FromStart
  Callers = {"tui"}
  Clients = {c1}
  MaxCrashes = 0
  MaxFaults = 0
  c1 = c1
PROPERTIES AskedEnds
