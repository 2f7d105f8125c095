SPECIFICATION Spec
CONSTANTS
  s1 = s1
  s2 = s2
  f1 = f1
  f2 = f2
  d1 = d1
  d2 = d2
  None = None
  Addresses = {s1, s2, f1, f2}
  DoH <- MCDoH
  Configs <- AllConfigs
INVARIANTS
  TypeOK
  FailureIsEarned
  AnswerIsDue
PROPERTIES
  EverythingEnds
CHECK_DEADLOCK FALSE
