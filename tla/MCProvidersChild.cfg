SPECIFICATION Daemon
CONSTANTS
  None = None
  Owner = Owner
  First = 1
  Conns = {1, 2}
  Users = {}
  MaxRevision = 4
  MaxAttempts = 1
INVARIANT OnlyTheTerminatedAreReplaced
CHECK_DEADLOCK FALSE
