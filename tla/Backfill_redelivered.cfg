SPECIFICATION Spec
CONSTANTS
  SiteSizes = {0, 2, 3}
  PageBudget = 1
  Cap = 2
  Invocations = {c1, c2}
  UI = ui
  MaxKicks = 1
  MaxRedeliveries = 1
  MaxCrashes = 1
  Overlap = TRUE
  JiraFails = TRUE
  BackendFails = TRUE
INVARIANTS
  TypeOK
  WalksLeaveNoGap
  CompletedMeansWalked
SYMMETRY Symmetry
VIEW WithoutHistory
CHECK_DEADLOCK FALSE
