SPECIFICATION Spec
CONSTANTS
  TotalRuns = 2
  MaxParks = 2
  SavesMayFail = FALSE
  NumEntries = 2
  Kind <- TwoJobs
  SubmittedBy <- PersonThenAgent
  FirstRun <- SecondResumes
  Callers = {"tui", "mcp"}
  Clients = {c1}
  MaxCrashes = 0
  MaxFaults = 0
  c1 = c1
INVARIANTS ParksTrue
