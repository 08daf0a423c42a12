SPECIFICATION SurfacesSpec
CONSTANTS
  Threads = {t1, t2}
  Versions = {1, 2}
  Valid <- MCValid
  WithReference = {2}
  Directories = {1, 2, 3}
  MaxQueued = 1
  MaxRequests = 2
  MaxEdits = 1
  MaxCrashes = 1
  Files <- MCFiles
  Config <- MCConfig
  Words <- MCWords
  ExactFile <- MCExactFile
  StemFiles <- MCStemFiles
  WordNumber <- MCWordNumber
  MaxReads = 2
  MaxFileEdits = 2
  MaxSubmits = 1
  Total = 2
  MaxWire = 1
  MaxActions = 2
SYMMETRY ThreadSymmetry
INVARIANTS SubmissionsKept CatalogTrue WatchTrue
PROPERTY FileWritesSafe
CHECK_DEADLOCK FALSE
