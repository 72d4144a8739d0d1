SPECIFICATION ToolsSafety
CONSTANTS
  NoCall = NoCall
  MaxParents = 2
  CallLimit = 2
  JobLimit = 1
  SessionLimit = 1
  Repertoires <- MCRepertoires
  MaxMade = 3
  MaxLost = 1
INVARIANTS
  CleanupStaysAvailable
CHECK_DEADLOCK FALSE
