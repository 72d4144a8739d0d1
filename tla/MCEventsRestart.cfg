SPECIFICATION Safety
CONSTANTS
  own = own
  foreign = foreign
  Subs = {s1, s2}
  Audiences <- MCAudiences
  Mine <- MCMine
  Capacity = 2
  QueueSize = 1
  MaxEvents = 3
  MaxRestarts = 1
PROPERTIES
  FormerCursorIsRefused
CHECK_DEADLOCK FALSE
