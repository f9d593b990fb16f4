---------------------------- MODULE MCHostLimiter ----------------------------
(* HostLimiter on small instances: three requests in flight on one or two     *)
(* hosts, one or two permits, a collection at every second call.              *)
EXTENDS HostLimiter, TLC

MCLimiters == 1 .. Cardinality(Requests) + Cardinality(Hosts) + 1

(* What a pair held is forgotten with it: a new entry starts from NewPair.   *)
Lasting == << entry, [ l \in { m \in Limiters : ~Unused(m) } |-> lim[l] ], calls, req, since >>

Symmetry == Permutations(Requests) \cup Permutations(Hosts)
=============================================================================
