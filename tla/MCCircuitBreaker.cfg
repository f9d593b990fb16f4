SPECIFICATION FairSpec
CONSTANTS
  Callers = {c1, c2, c3}
  WindowSize = 4
  MinCalls = 3
  RateNum = 2
  RateDen = 3
  BaseCooldown = 1
  MaxCooldown = 3
  MaxProbes = 3
  ProbeNum = 3
  ProbeDen = 5
  EvalTimeout = 2
  ResetAfter = 2
  CountTruncated = FALSE
  EjectionCap = 4
INVARIANTS
  HalfOpenWithinQuota
PROPERTIES
  KeepsGate
  NeverWedged
