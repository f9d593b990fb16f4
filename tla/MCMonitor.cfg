SPECIFICATION FairSpec
CONSTANTS
  m1 = m1
  m2 = m2
  u1 = u1
  u2 = u2
  u3 = u3
  Monitors = {m1, m2}
  Targets <- TwoTargets
  Hooked = {m1}
  Garbled = {m2}
  Bodies = {"a", "b"}
  Absent = Absent
  Failed = Failed
  Nobody = Nobody
  Interval = 1
  Num = 1
  Den = 2
  MaxCrashes = 1
INVARIANTS
  ReportsAreTrue
PROPERTIES
  OutageForgetsNothing
  EveryMonitorRuns
