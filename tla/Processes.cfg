SPECIFICATION ProcessSpec
CONSTANTS
  TotalRuns = 3
  MaxParks = 3
  SavesMayFail = TRUE
  Timeouts = {0, 3}
  Grace = 2
  KillWait = 4
  Drain = 1
  ZombieSeen = TRUE
  Procs = {p1, p2}
  Children = {k1, k2, k3}
  None = None
  Capacity = 2
  FirstSeed = 3
  MaxSeed = 6
  MaxEvents = 3
  MaxWire = 2
  MaxBreaks = 2
  ClockBack = FALSE
  MaxRuns = 3
  MaxRejects = 1
  Threads = {t1, t2, t3}
  MaxBad = 1
INVARIANTS ChainSafe ChildrenStart ShutdownSafe RecordStands NothingMissed
PROPERTIES AskedJobEnds GraceBeforeKill RunReturns IdsGoUp CaughtUp RunsLearned
CHECK_DEADLOCK FALSE
