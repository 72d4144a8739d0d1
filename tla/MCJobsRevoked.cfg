CONSTANTS
  j1 = j1
  j2 = j2
  s1 = s1
  Jobs = {j1, j2}
  Sessions = {s1}
  None = None
  MaxJobs = 2
  MaxSessionJobs = 2
  MaxActivePerSession = 2
SPECIFICATION Safety
INVARIANTS
  RevokedSessionKeepsNoJobs
CHECK_DEADLOCK FALSE
