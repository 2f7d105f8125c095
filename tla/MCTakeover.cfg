SPECIFICATION Spec
CONSTANTS
  p1 = p1
  p2 = p2
  a1 = a1
  a2 = a2
  manual = manual
  leased = leased
  public = public
  Procs = {p1, p2}
  Adapters = {a1, a2}
  Main = a1
  Servers = {manual, leased, public}
  Static = {manual}
  Lease <- MCLease
  Defaults = {public}
  Loopback = Loopback
  Unset = Unset
  Unconfigured = Unconfigured
  Gone = Gone
  None = None
  Torn = Torn
  Allowed = {"overlap", "retaken", "crash", "unsaved", "half", "empty",
             "kept", "torn", "left"}
CONSTRAINT OneUnlessCareful
SYMMETRY SymmetricProcs
INVARIANTS
  TypeOK
  TakeoverIsRevertible
  NoDeadProxy
  UpstreamsBypassProxy
PROPERTIES
  CarefulUseIsALoan
