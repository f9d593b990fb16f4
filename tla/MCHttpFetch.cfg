SPECIFICATION Spec
CONSTANTS
  f1 = f1
  f2 = f2
  Fetches = {f1}
  Budgets <- MCBudgets
  Cooldown = 10
  Reserve = 4
  MinProxy = 2
  ChallengeReserve = 1
  ChallengeMax = 6
  MinTier = 1
  Backoff = 1
  MaxRetries = 1
INVARIANTS
  LatchIsOwnBlock
PROPERTIES
  LatchNeverSuppresses
  BlameOnEvidence
  EveryFetchEnds
