SPECIFICATION Spec
CONSTANTS
  TotalRuns = 2
  MaxParks = 1
  SavesMayFail = FALSE
  NumEntries = 2
  Kind <- JobThenGeneration
  SubmittedBy <- AllByPerson
  FirstRun <- FromStart
  Callers = {"tui"}
  Clients = {c1}
  MaxCrashes = 1
  MaxFaults = 0
  c1 = c1
INVARIANTS RowsTrue FinishedMatchesExecution CancelReachesChild
PROPERTIES EventsInOrder ServiceRefined
