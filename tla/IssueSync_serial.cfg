SPECIFICATION FairSpec
CONSTANTS
  Issues = {i1, i2}
  Handlers = {h1, h2}
  MaxClock = 2
  PerMinute = 2
  ReconcileMax = 1
  SyncMax = 1
  MaxRepeats = 1
  MaxRuns = 1
  Loss = TRUE
  Races = {}
INVARIANTS
  TypeOK
  NothingForgotten
PROPERTIES
  NoRegress
  MirrorSpec
CHECK_DEADLOCK FALSE
