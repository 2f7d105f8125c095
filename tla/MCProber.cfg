SPECIFICATION Spec
CONSTANTS
  Callers = {c1, c2}
  IPs = {a1, a2, a3}
  MaxEntries = 2
  TTL = 1
  MaxTime = 2
  None = None
INVARIANTS
  TypeOK
  SingleDial
  ReturnsFreshResult
PROPERTIES
  ImplementsSingleFlight
  EvictsExpiredFirst
  CallsReturn
