SPECIFICATION FairSpec
CONSTANTS
  q1 = q1
  q2 = q2
  r1 = r1
  r2 = r2
  k1 = k1
  Queries = {}
  Keys = {k1}
  KeyOf <- MCKeyOf
  Reloads = {r1, r2}
  Boot = Boot
  None = None
  Configs <- LoopConfigs
  MaxInflight = 1
  CacheSize = 1
INVARIANTS
  NoOrphanLoop
  RefreshStaysAlive
  OnePanicAtShutdown
PROPERTY
  WaitsEnd
CHECK_DEADLOCK FALSE
