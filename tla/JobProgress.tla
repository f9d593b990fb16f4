----------------------------- MODULE JobProgress -----------------------------
(***************************************************************************)
(* CrawlState of types.rs, the state a crawl or batch job publishes on its *)
(* watch channel and every status poll reads.  The documents are counted.   *)
(* Operators only: what a job may publish next.                             *)
(***************************************************************************)
EXTENDS Naturals

Statuses == {"InProgress", "Completed", "Failed", "Cancelled"}

Terminal(p) == p.status \in {"Completed", "Failed", "Cancelled"}

(* Nothing fetched yet, with the given number of known URLs. *)
FreshProgress(total) ==
  [ status |-> "InProgress", total |-> total, completed |-> 0, blocked |-> 0, docs |-> 0 ]

(* send_failed: the job ends before its first page. *)
FailedProgress ==
  [ status |-> "Failed", total |-> 0, completed |-> 0, blocked |-> 0, docs |-> 0 ]

Progress(max) ==
  [ status : Statuses, total : 0 .. max, completed : 0 .. max, blocked : 0 .. max, docs : 0 .. max ]

(* The caller is billed completed - blocked (types.rs), so the counters must  *)
(* agree, and a completed job ships one document per completed page.          *)
Coherent(p) ==
  /\ p.blocked <= p.completed
  /\ p.completed <= p.total
  /\ p.status = "Completed" => p.docs = p.completed

(* One more page, blocked or not; links of the page may have raised total. *)
AdvancesOf(p, max) ==
  { [ status |-> "InProgress", total |-> t, completed |-> p.completed + 1,
      blocked |-> p.blocked + b, docs |-> 0 ] :
      t \in { u \in p.total .. max : u > p.completed }, b \in 0 .. 1 }

(* The frontier is empty: the documents ship once. *)
FinishesOf(p, max) ==
  { [ p EXCEPT !.status = "Completed", !.total = t, !.docs = p.completed ] :
      t \in p.total .. max }
=============================================================================
