SPECIFICATION ReaderSpec
CONSTANTS
  MaxChanges = 1
  MaxEdits = 0
  MaxCrashes = 0
  Keep = 2
  ManifestLimit = 2
INVARIANT
  ReaderSeesNoPins
CHECK_DEADLOCK FALSE
