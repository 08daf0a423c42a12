SPECIFICATION ScreensSpec
CONSTANTS
  MaxRuns = 1
  MaxEvents = 2
  MaxBreaks = 1
  N = 3
  PageSize = 1
  MaxActions = 1
INVARIANTS FollowTrue 
CHECK_DEADLOCK FALSE
