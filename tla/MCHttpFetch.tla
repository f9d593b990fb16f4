---------------------------- MODULE MCHttpFetch ----------------------------
EXTENDS HttpFetch

CONSTANTS f1, f2

(* One tick is a second: a deadline of a scrape and one of a crawled page. *)
MCBudgets == {5, 8}

=============================================================================
