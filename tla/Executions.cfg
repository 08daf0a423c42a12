SPECIFICATION ExecutionsSpec
CONSTANTS
  NumEntries = 3
  LastJob = 1
  NumExecs = 3
  TotalRuns = 2
  Clients = {c1, c2}
  MaxOutside = 2
  PruneWhileDown = FALSE
  Entries = {1, 2, 3}
  Callers = {"tui", "cli", "api", "mcp"}
  Openers = {"p", "q"}
  Knows <- MCKnows
  OldVersion = 2
  MaxRows = 2
  MaxBreaks = 2
INVARIANTS ResumesOnce HoldKept StateKept
PROPERTIES DeletionTold PersonsHoldStays
CHECK_DEADLOCK FALSE
