SPECIFICATION Safety
CONSTANTS
  Execs = {e1, e2}
  Recipes = {r1}
  Client = Client
  Kinds <- MCKinds
  MaxAttempts = 2
INVARIANT KnownFailuresHadNoEffect
CHECK_DEADLOCK FALSE
