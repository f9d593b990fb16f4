----------------------------- MODULE MCMonitor -----------------------------
EXTENDS Monitor, TLC

CONSTANTS m1, m2, u1, u2, u3

(* One monitor with a page of its own and a crawl that may find it too, and a  *)
(* plain one.                                                                    *)
TwoTargets ==
  (m1 :> << [ kind |-> "scrape", urls |-> {u1} ], [ kind |-> "crawl", urls |-> {u1, u2, u3} ] >>)
  @@ (m2 :> << [ kind |-> "scrape", urls |-> {u2} ] >>)

=============================================================================
