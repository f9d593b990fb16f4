SPECIFICATION RegistrySpec
CONSTANTS
  Requests = {c1, c2}
  Hosts = {h1}
  Global = global
  WindowSize = 2
  MinCalls = 2
  RateNum = 1
  RateDen = 2
  BaseCooldown = 1
  MaxCooldown = 1
  MaxProbes = 2
  ProbeNum = 1
  ProbeDen = 2
  EvalTimeout = 0
  ResetAfter = 0
  CountTruncated = FALSE
  EjectionCap = 1
SYMMETRY RequestSymmetry
INVARIANTS
  SlotsAccounted
PROPERTIES
  GlobalTripsOnTierFaults
