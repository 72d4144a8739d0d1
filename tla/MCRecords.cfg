SPECIFICATION MCSpec
CONSTANTS
  own = own
  foreign = foreign
  Subs = {s1, s2}
  Audiences <- MCAudiences
  Mine <- MCMine
  Capacity = 2
  QueueSize = 1
  MaxEvents = 4
  MaxRestarts = 1
  Scopes = {a1, a2, a3}
  NoFile = NoFile
  Retention = 2
  MaxBytes = 2
  MaxAppends = 7
  MaxFaults = 2
  None = None
  Conns = {1, 2}
  Requests = {1, 2}
  MaxRevision = 1
  MaxReloads = 1
  MaxActors = 3
  MaxHappened = 4
  MaxCrashes = 1
INVARIANTS
  OwnLogIsAccepted
  AcknowledgedRecordsFormAChain
  OnlyTheOldestIsLost
  TheEntryIsServed
  RevisionIsNeverAhead
PROPERTIES
  KeepsTheFeed
  LateAnswersAreTolerated
  AcksAreInTheLiveFile
SYMMETRY Symmetry
CHECK_DEADLOCK FALSE
