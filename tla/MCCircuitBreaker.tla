--------------------------- MODULE MCCircuitBreaker ---------------------------
(* CircuitBreaker on small instances: three concurrent callers on a window of *)
(* three or four, two or three probes per half-open period.                   *)
EXTENDS CircuitBreaker, TLC

CallerSymmetry == Permutations(Callers)
=============================================================================
