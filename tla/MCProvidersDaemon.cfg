SPECIFICATION MCSpec
CONSTANTS
  None = None
  Owner = Owner
  First = 1
  Conns = {1, 2, 3}
  Users = {x1}
  MaxRevision = 3
  MaxAttempts = 1
INVARIANTS
  RestartsAreOrderly
PROPERTIES
  DownStaysDown
  CallsOfTheDeadEnd
  RecoveryEnds
CHECK_DEADLOCK FALSE
