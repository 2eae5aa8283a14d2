SPECIFICATION FairSpec
CONSTANTS
  Sites = {s1, s2}
  Instances = {i1, i2}
  Slots = {r1, r2}
  Keys = {old, new}
  Baked = {old}
  PoolSize = 1
  RoleBypasses = FALSE
  Routes = {"put_wip_limit", "ingest", "put_settings", "uninstalled"}
  MaxRequests = 2
  MaxTroubles = 1
  None = None
INVARIANTS
  TypeOK
  StatementsAreIsolated
  NoOrphans
PROPERTIES
  KnownKeysAreAccepted
  RequestsAreAnswered
CHECK_DEADLOCK FALSE
