SPECIFICATION Spec
CONSTANTS
  Sites = {s1}
  Instances = {i1}
  Slots = {r1, r2}
  Keys = {old, new}
  Baked = {old}
  PoolSize = 1
  RoleBypasses = FALSE
  Routes = {"evaluate_dispatch"}
  MaxRequests = 1
  MaxTroubles = 0
  None = None
SYMMETRY Symmetry
INVARIANTS
  CommittedWorkIsFinished
CHECK_DEADLOCK FALSE
