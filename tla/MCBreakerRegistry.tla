-------------------------- MODULE MCBreakerRegistry --------------------------
(* BreakerRegistry on a small instance: one host, two requests, one or two    *)
(* probes per half-open period.                                               *)
EXTENDS BreakerRegistry, TLC

RequestSymmetry == Permutations(Requests)
=============================================================================
