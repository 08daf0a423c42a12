SPECIFICATION OutputsSpec
CONSTANTS
  Files <- MCFiles
  FrameRate = 16
  CliSizes <- MCCliSizes
  Unit = 48
  MaxFileBytes = 2
  MaxBytes = 5
  MaxRuns = 3
  Plans <- MCPlans
  MaxResumes = 2
  MaxLost = 1
  Lines <- MCLines
  MaxTime = 3
  MaxLines = 3
  IdleWindow = 1
  DrainTime = 1
  MaxMarks = 2
  MaxClip = 2
  SampleEvery = 2
  Videos <- MCVideos
  Clips <- MCClips
  ColrSize = 2
  MaxNumber = 16
INVARIANTS  MadeAsWritten TimelineTrue
PROPERTY AnchorKept
CHECK_DEADLOCK FALSE
