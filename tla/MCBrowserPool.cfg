SPECIFICATION Spec
CONSTANTS
  r1 = r1
  r2 = r2
  s1 = s1
  s2 = s2
  s3 = s3
  None = None
  Renders = {r1, r2}
  Slots = {s1, s2, s3}
  Size = 2
  LastTry = 1
  Word = 4
CHECK_DEADLOCK FALSE
INVARIANTS
  PoolIsSound
  ClosedExactlyOnce
  InflightAgrees
  SweepIsComplete
PROPERTIES
  ShutdownEnds
