------------------------------ MODULE MCScrape ------------------------------
EXTENDS Scrape, TLC

CONSTANTS hasty, patient

(* One caller in a hurry that takes old pages, one with time that does not. *)
Ages == (hasty :> 2) @@ (patient :> 1)
Budgets == (hasty :> 2) @@ (patient :> 3)

=============================================================================
