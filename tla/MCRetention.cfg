SPECIFICATION Safety
CONSTANTS
  j1 = j1
  j2 = j2
  j3 = j3
  s1 = s1
  s2 = s2
  Jobs = {j1, j2, j3}
  Sessions = {s1, s2}
  None = None
  MaxJobs = 2
  MaxSessionJobs = 2
  MaxActivePerSession = 1
INVARIANTS
  StoreIsSound
  OwnerIsToldTheTruth
PROPERTIES
  EvictionsAreFair
  KeepsThePromise
SYMMETRY Symmetry
CHECK_DEADLOCK FALSE
