SPECIFICATION FairSpec
CONSTANTS
  SiteSizes = {0, 1, 3, 4}
  PageBudget = 2
  Cap = 3
  Invocations = {c1, c2}
  UI = ui
  MaxKicks = 2
  MaxRedeliveries = 0
  MaxCrashes = 0
  Overlap = FALSE
  JiraFails = TRUE
  BackendFails = FALSE
PROPERTIES
  CycleSpec
CHECK_DEADLOCK FALSE
INVARIANTS
  CountIsExact
  RestMeansOneMail
