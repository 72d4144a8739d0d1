SPECIFICATION MCSpec
CONSTANTS
  None = None
  Tickets = {1, 2, 3}
  Conns = {11, 12}
  Ids = {i1, i2}
  MaxSessions = 2
  MaxConnections = 2
  MaxPerConnection = 1
  MaxPerSession = 2
  MaxSeen = 2
  own = own
  foreign = foreign
  Subs = {u1, u2}
  Capacity = 1
  QueueSize = 1
  MaxEvents = 2
  MaxRestarts = 0
  FirstJob = j1
  FirstOwner = s1
  Jobs = {j1, j2}
  Owners = {s1, s2}
  MaxJobs = 2
  MaxSessionJobs = 2
  MaxActivePerSession = 2
INVARIANTS
  AtMostOnce
  TableTracksRequests
  LostRequestsAreCancelled
PROPERTIES
  CancellationIsScoped
  ShutdownCompletes
  EventsArriveOrTheFeedEnds
  JobsEnd
CHECK_DEADLOCK FALSE
