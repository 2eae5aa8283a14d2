SPECIFICATION FairSpec
CONSTANTS
  Issues = {1, 2}
  MaxSlices = 2
  Instant = {}
  Schedules = {cal, office, broken}
  Calendar = cal
  BadSchedules = {broken}
  BatchSize = 1
  MaxBatches = 2
  Invocations = {c1}
  UI = ui
  MaxSaves = 2
  MaxTasks = 0
  MaxReads = 0
  MaxDeletes = 0
  MaxRedeliveries = 1
  MaxCrashes = 0
  Races = {}
PROPERTIES
  RecomputeEnds
CHECK_DEADLOCK FALSE
