SPECIFICATION Spec
CONSTANTS
  Issues = {1, 2}
  MaxSlices = 2
  Instant = {}
  Schedules = {cal, office, broken}
  Calendar = cal
  BadSchedules = {broken}
  BatchSize = 1
  MaxBatches = 2
  Invocations = {c1}
  UI = ui
  MaxSaves = 2
  MaxTasks = 2
  MaxReads = 1
  MaxDeletes = 1
  MaxRedeliveries = 1
  MaxCrashes = 1
  Races = {}
INVARIANTS
  TypeOK
  CompletedIsUniform
  CursorSkipsFresh
  AlertsUseActiveMath
PROPERTIES
  CursorIsMonotonic
VIEW WithoutMetrics
CHECK_DEADLOCK FALSE
