SPECIFICATION Spec
CONSTANTS
  Requests = {r1, r2, r3}
  Hosts = {h1, h2}
  Limiters <- MCLimiters
  Cap = 1
  Interval = 2
  Deadline = 2
  Ttl = 4
  GcEvery = 2
  None = none
SYMMETRY Symmetry
VIEW Lasting
INVARIANTS
  LimiterIsSound
PROPERTIES
  Spacing
  KeepsLines
