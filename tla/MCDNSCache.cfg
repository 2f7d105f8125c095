SPECIFICATION Spec
CONSTANTS
  Keys = {k1, k2, k3}
  k1 = k1
  k2 = k2
  k3 = k3
  Msgs <- MCMsgs
  CfgMaxTTLs <- MCCfgMaxTTLs
  MaxEntries = 2
  MaxTTL = 4
  Second = 2
  MaxTime = 4
INVARIANTS
  TypeOK
  IndexMatchesList
  LRUOrder
  ServedTTL
PROPERTIES
  EvictsLeastRecent
  ImplementsLossyCache
