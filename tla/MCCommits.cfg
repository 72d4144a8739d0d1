SPECIFICATION MCSpec
CONSTANTS
  None = None
  Owner = Owner
  First = c1
  Conns = {c1, c2}
  Users = {}
  MaxRevision = 3
  MaxAttempts = 2
  Keys = {k1, k2}
  Places = {p1}
  NoRequest = NoRequest
  MaxOpens = 2
  MaxWrites = 2
  MaxFaults = 1
  MaxCrashes = 1
  NoCall = NoCall
  MaxParents = 2
  CallLimit = 2
  JobLimit = 1
  SessionLimit = 1
  Repertoires <- MCRepertoires
  MaxMade = 3
  MaxLost = 1
INVARIANTS
  KeysTakeEffectOnce
  AnswersAreTrue
  RefusedOnlyAfterGivingUp
  TablesStayWithinLimits
  ProcessesAreAccountedFor
  NothingOutlivesTheLink
PROPERTIES
  CommitsAreSerial
  ResultsStayOnRecord
CHECK_DEADLOCK FALSE
