---------------------------- MODULE CrawlProgress ----------------------------
(***************************************************************************)
(* What a crawl promises to whoever polls it, and all CrawlJobs knows of   *)
(* the crawl it runs: pages are reported one by one, no counter falls, at  *)
(* most max URLs are ever known, and it ends once, completed with every    *)
(* document or failed before its first page.                               *)
(***************************************************************************)
EXTENDS JobProgress

VARIABLES
  pub,    \* the state on the watch channel
  max     \* the most URLs this crawl may know: its page limit, at least 1

ProgressInit == max \in Nat \ {0} /\ pub = FreshProgress(0)

Advance ==
  /\ pub.status = "InProgress"
  /\ pub' \in AdvancesOf(pub, max)

Finish ==
  /\ pub.status = "InProgress"
  /\ pub' \in FinishesOf(pub, max)

Fail ==
  /\ pub = FreshProgress(0)
  /\ pub' = FailedProgress

ProgressNext == (Advance \/ Finish \/ Fail) /\ UNCHANGED max

ProgressSpec == ProgressInit /\ [][ProgressNext]_<< pub, max >>
=============================================================================
