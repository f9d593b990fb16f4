SPECIFICATION ConnSpec
CONSTANTS
  c1 = c1
  c2 = c2
  c3 = c3
  Callers = {c1, c2}
  MaxId = 4
  Drain = Drain
  None = None
CHECK_DEADLOCK FALSE
INVARIANTS
  OwnAnswer
  OnlyRacersAreStranded
PROPERTIES
  EndWakesEveryWait
