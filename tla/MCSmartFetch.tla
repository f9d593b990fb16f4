----------------------------- MODULE MCSmartFetch -----------------------------
(* SmartFetch on a light tier, Chrome and the solver, with the order a host *)
(* promoted to Chrome gets.                                                 *)
EXTENDS SmartFetch

MCLadder == << "lightpanda", "chrome", "byparr" >>
MCPromoted == << "chrome", "lightpanda", "byparr" >>

=============================================================================
