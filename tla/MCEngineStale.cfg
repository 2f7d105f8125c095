SPECIFICATION Spec
CONSTANTS
  q1 = q1
  q2 = q2
  r1 = r1
  r2 = r2
  k1 = k1
  Queries = {q1, q2}
  Keys = {k1}
  KeyOf <- MCKeyOf
  Reloads = {r1}
  Boot = Boot
  None = None
  Configs <- LiveConfigs
  MaxInflight = 1
  CacheSize = 1
INVARIANT ReloadTakesEffect
CHECK_DEADLOCK FALSE
