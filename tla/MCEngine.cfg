SPECIFICATION Spec
CONSTANTS
  q1 = q1
  q2 = q2
  r1 = r1
  r2 = r2
  k1 = k1
  Queries = {q1, q2}
  Keys = {k1}
  KeyOf <- MCKeyOf
  Reloads = {r1}
  Boot = Boot
  None = None
  Configs <- AllConfigs
  MaxInflight = 1
  CacheSize = 1
SYMMETRY SymmetricQueries
INVARIANTS
  TypeOK
  RoutedByOneFreshConfiguration
  SlotsMatchQueries
  NoEntrySurvivesReload
CHECK_DEADLOCK FALSE
