SPECIFICATION Spec
CONSTANTS
  Issues = {i1, i2}
  Handlers = {h1, h2}
  MaxClock = 2
  PerMinute = 2
  ReconcileMax = 1
  SyncMax = 1
  MaxRepeats = 0
  MaxRuns = 0
  Loss = TRUE
  Races = {}
INVARIANTS
  MissedIsFindable
CHECK_DEADLOCK FALSE
