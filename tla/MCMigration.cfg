SPECIFICATION FairSpec
CONSTANTS
  Procs = {p1, p2}
  Unprivileged = {p2}
  Nobody = Nobody
  None = None
  Timeout = 1
  Attempts = 2
  MaxTime = 2
INVARIANTS
  TypeOK
  Serialized
  KeepsUserParameters
  LeavesNothing
  TimeoutIsEarned
PROPERTIES
  MigratesOnce
  StartsEnd
CHECK_DEADLOCK FALSE
