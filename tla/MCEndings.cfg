SPECIFICATION MCSpec
CONSTANTS
  FirstExec = e1
  FirstExecute = x1
  Execs = {e1, e2}
  Recipes = {r1}
  Client = Client
  Kinds <- MCKinds
  MaxAttempts = 2
  Nobody = Nobody
  Executes = {x1, x2}
  Checks = {v1}
  MaxPending = 3
  MaxBegun = 2
INVARIANTS
  GateHoldersAreAlone
  StepsTakeEffectOnce
  EffectsAreOnRecord
  VerdictsAreTrue
  NoRunawayExecution
  KilledForAReason
PROPERTIES
  StaleWorkNeverStarts
  EveryExecutionEnds
  CallsReturn
CHECK_DEADLOCK FALSE
