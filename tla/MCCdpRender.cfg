SPECIFICATION Spec
CONSTANTS
  k1 = k1
  k2 = k2
  q1 = q1
  q2 = q2
  here = here
  there = there
  page = page
  Kids = {k1, k2}
  Reqs = {q1, q2}
  ParentOf <- Nested
  SessionOf <- Senders
  HostOf <- Targets
  Page = page
  Doc = here
  RingCap = 2
  MaxRetries = 1
CHECK_DEADLOCK FALSE
INVARIANTS
  RequestsAreChecked
  NoUnguardedChild
  TargetIsReaped
  VerdictIsTrue
