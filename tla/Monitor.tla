------------------------------ MODULE Monitor ------------------------------
(***************************************************************************)
(* crw-monitor: the scheduler (scheduler.rs) runs the checks of the monitors  *)
(* that are due (runner.rs) over a SQLite store (store.rs) and tells a webhook *)
(* (webhook.rs).  The store survives a crash, the scheduler starts anew.  An   *)
(* action is what happens under one lock of the store or at one await; the      *)
(* owner of the store creates, pauses and deletes monitors in between.           *)
(*                                                                           *)
(* Time is relative: how long until a monitor is due, how long since the tick  *)
(* that is being worked off began.                                              *)
(***************************************************************************)
EXTENDS Integers, FiniteSets, Sequences

CONSTANTS
  Monitors,    \* ids, each used once
  Targets,     \* of each monitor, a sequence of [kind, urls]: fixed or findable
  Hooked,      \* the monitors with a webhook
  Garbled,     \* those whose schedule may be one that does not parse
  Bodies,      \* what a page may read
  Absent,      \* no page, no baseline
  Failed,      \* a page that could not be fetched
  Nobody,      \* no monitor
  Interval,    \* of every schedule that parses
  Num, Den,    \* SITE_DOWN_VANISH_FRACTION
  MaxCrashes   \* bound on the restarts

ASSUME MonitorAssumption ==
  /\ Hooked \subseteq Monitors /\ Garbled \subseteq Monitors /\ Nobody \notin Monitors
  /\ Absent \notin Bodies /\ Failed \notin Bodies /\ Absent # Failed
  /\ Interval \in Nat \ {0} /\ MaxCrashes \in Nat
  /\ Num \in Nat /\ Den \in Nat \ {0} /\ Num < Den

VARIABLES
  mon,       \* table monitors: each row, before, while and after it is there
  base,      \* table snapshots: the baseline of each url
  sch,       \* the scheduler
  crashes

vars == << mon, base, sch, crashes >>

UrlsOf(m) == UNION { Targets[m][i].urls : i \in DOMAIN Targets[m] }

ASSUME TargetsAssumption ==
  \A m \in Monitors :
    /\ Targets[m] \in Seq([ kind : {"scrape", "crawl"}, urls : SUBSET UrlsOf(m) ])
    /\ \A i \in DOMAIN Targets[m] : IsFiniteSet(Targets[m][i].urls)

Blank(m) == [ u \in UrlsOf(m) |-> Absent ]

Row == [ life : {"planned", "there", "deleted"}, status : {"active", "paused"},
         left : 0..Interval, parses : BOOLEAN ]

Statuses == {"same", "new", "changed", "removed", "error"}

(* due: ids read, rows not yet.  queue: monitors of this tick still to run.    *)
(* ago: since the tick began.  pages: url to status and body, of the check.    *)
Idle == [ pc |-> "idle", due |-> {}, queue |-> {}, cur |-> Nobody, todo |-> << >>,
          ago |-> 0, prior |-> << >>, pages |-> << >> ]

Init ==
  /\ mon = [ m \in Monitors |-> [ life |-> "planned", status |-> "active", left |-> 0, parses |-> TRUE ] ]
  /\ base = [ m \in Monitors |-> Blank(m) ]
  /\ sch = Idle /\ crashes = 0

Exists(m) == mon[m].life = "there"
Active(m) == Exists(m) /\ mon[m].status = "active"

-----------------------------------------------------------------------------
(* the owner of the store *)

Create(m) ==
  /\ mon[m].life = "planned"
  /\ \E ok \in IF m \in Garbled THEN BOOLEAN ELSE {TRUE} : mon' = [ mon EXCEPT ![m].life = "there", ![m].parses = ok ]
  /\ UNCHANGED << base, sch, crashes >>

SetStatus(m) ==
  /\ Exists(m)
  /\ \E s \in {"active", "paused"} : mon' = [ mon EXCEPT ![m].status = s ]
  /\ UNCHANGED << base, sch, crashes >>

(* Every other table goes with the row. *)
Delete(m) ==
  /\ Exists(m)
  /\ mon' = [ mon EXCEPT ![m].life = "deleted" ]
  /\ base' = [ base EXCEPT ![m] = Blank(m) ]
  /\ UNCHANGED << sch, crashes >>

-----------------------------------------------------------------------------
(* the tick *)

Due(m) == Active(m) /\ mon[m].left = 0

(* tick: due_monitors reads the ids under one lock ...                         *)
Wake ==
  /\ sch.pc = "idle" /\ \E m \in Monitors : Due(m)
  /\ sch' = [ Idle EXCEPT !.pc = "rows", !.due = { m \in Monitors : Due(m) } ]
  /\ UNCHANGED << mon, base, crashes >>

(* ... and the rows under one each: one row that has gone fails the tick.      *)
GetRow(m) ==
  /\ sch.pc = "rows" /\ m \in sch.due
  /\ sch' = IF Exists(m)
            THEN [ sch EXCEPT !.due = @ \ {m}, !.queue = @ \cup {m},
                              !.pc = IF sch.due = {m} THEN "next" ELSE "rows" ]
            ELSE Idle
  /\ UNCHANGED << mon, base, crashes >>

(* run_monitor reads the targets; a monitor deleted since has none.  That this *)
(* read fails is as if the next one had.                                         *)
Start(m) ==
  /\ sch.pc = "next" /\ m \in sch.queue
  /\ sch' = [ sch EXCEPT !.queue = @ \ {m}, !.cur = m,
                         !.pc = IF Exists(m) /\ Targets[m] # << >> THEN "load" ELSE "advance",
                         !.todo = IF Exists(m) THEN Targets[m] ELSE << >> ]
  /\ UNCHANGED << mon, base, crashes >>

Sleep ==
  /\ sch.pc = "next" /\ sch.queue = {}
  /\ sch' = Idle
  /\ UNCHANGED << mon, base, crashes >>

(* Mutant: a monitor that fails ends the tick. *)
MutAfterError == Idle

(* A monitor that fails does not keep the others from running, nor does its   *)
(* schedule advance.                                                            *)
AfterError == [ Idle EXCEPT !.pc = "next", !.queue = sch.queue, !.ago = sch.ago ]

(* load_prior, anew for each target. *)
Load ==
  /\ sch.pc = "load"
  /\ sch' \in { [ sch EXCEPT !.pc = "fetch", !.prior = base[sch.cur] ], AfterError }
  /\ UNCHANGED << mon, base, crashes >>

-----------------------------------------------------------------------------
(* run_check *)

(* A scrape target yields one page per url, a crawl whatever it could find.    *)
Fetched(target) ==
  IF target.kind = "scrape"
  THEN [ target.urls -> Bodies \cup {Failed} ]
  ELSE UNION { [ found -> Bodies ] : found \in SUBSET target.urls }

StatusOf(was, is) ==
  CASE is = Failed -> "error"
    [] is # Failed /\ was = Absent -> "new"
    [] is # Failed /\ was = is -> "same"
    [] OTHER -> "changed"

Known(prior) == { u \in DOMAIN prior : prior[u] # Absent }

(* Mutant: a site that answers with no page at all is not down. *)
MutSiteDown(prior, got) ==
  LET gone == Known(prior) \ DOMAIN got IN
  /\ Den * Cardinality(gone) > Num * Cardinality(Known(prior))
  /\ Cardinality(DOMAIN got) \in 1..(Cardinality(Known(prior)) - 1)

(* More than the fraction of the known urls has gone, and fewer pages came     *)
(* than were known.                                                              *)
SiteDown(prior, got) ==
  LET gone == Known(prior) \ DOMAIN got IN
  /\ Den * Cardinality(gone) > Num * Cardinality(Known(prior))
  /\ Cardinality(DOMAIN got) < Cardinality(Known(prior))

(* The known urls are all those of the monitor, whichever target they are of.  *)
Vanished(kind, prior, got) ==
  IF kind = "crawl" /\ ~SiteDown(prior, got) THEN Known(prior) \ DOMAIN got ELSE {}

Compared(kind, prior, got) ==
  [ u \in DOMAIN got \cup Vanished(kind, prior, got) |->
      IF u \in DOMAIN got
      THEN [ status |-> StatusOf(prior[u], got[u]), body |-> got[u] ]
      ELSE [ status |-> "removed", body |-> Absent ] ]

(* The crawl may fail with nothing to show, and so may the run. *)
RunCheck ==
  /\ sch.pc = "fetch"
  /\ \/ \E got \in Fetched(Head(sch.todo)) :
          sch' = [ sch EXCEPT !.pc = "record",
                              !.pages = Compared(Head(sch.todo).kind, sch.prior, got) ]
     \/ Head(sch.todo).kind = "crawl" /\ sch' = AfterError
  /\ UNCHANGED << mon, base, crashes >>

-----------------------------------------------------------------------------
(* the outcome *)

(* The foreign key. *)
Recordable(m) == Exists(m)

(* Mutant: the baselines are loaded once for all the targets. *)
MutOnward == [ sch EXCEPT !.pc = IF Len(sch.todo) > 1 THEN "fetch" ELSE "advance",
                          !.todo = Tail(@), !.pages = << >> ]

Onward == [ sch EXCEPT !.pc = IF Len(sch.todo) > 1 THEN "load" ELSE "advance",
                       !.todo = Tail(@), !.prior = << >>, !.pages = << >> ]

Baselines(m, pages) ==
  [ u \in UrlsOf(m) |-> IF u \in DOMAIN pages /\ pages[u].status # "error"
                        THEN pages[u].body ELSE base[m][u] ]

(* record_check: the check, its pages and the baselines in one transaction,    *)
(* or none of it.                                                                *)
Record ==
  LET m == sch.cur IN
  /\ sch.pc = "record"
  /\ \/ /\ Recordable(m)
        /\ base' = [ base EXCEPT ![m] = Baselines(m, sch.pages) ]
        /\ sch' = IF m \in Hooked THEN [ sch EXCEPT !.pc = "post" ] ELSE Onward
     \/ UNCHANGED base /\ sch' = AfterError
  /\ UNCHANGED << mon, crashes >>

(* The receiver may take its time: the request has no timeout.  What it says,  *)
(* or that it cannot be reached, changes nothing.                                *)
Deliver ==
  /\ sch.pc = "post"
  /\ sch' = Onward
  /\ UNCHANGED << mon, base, crashes >>

(* The next run is counted from the tick, so that it may be due already.  A    *)
(* store that fails here leaves the monitor due.                                 *)
Advanced(row, ago) ==
  IF row.parses THEN [ row EXCEPT !.left = Interval - ago ] ELSE [ row EXCEPT !.status = "paused" ]

Advance ==
  LET m == sch.cur IN
  /\ sch.pc = "advance"
  /\ \/ mon' = [ mon EXCEPT ![m] = IF Exists(m) THEN Advanced(@, sch.ago) ELSE @ ]
     \/ UNCHANGED mon
  /\ sch' = AfterError
  /\ UNCHANGED << base, crashes >>

-----------------------------------------------------------------------------

Down(n) == IF n > 0 THEN n - 1 ELSE 0

Time ==
  /\ mon' = [ m \in Monitors |-> [ mon[m] EXCEPT !.left = Down(@) ] ]
  /\ sch' = [ sch EXCEPT !.ago = IF sch.pc = "idle" \/ @ = Interval THEN @ ELSE @ + 1 ]
  /\ UNCHANGED << base, crashes >>

(* The process dies and is started again on the same file. *)
Crash ==
  /\ crashes < MaxCrashes
  /\ crashes' = crashes + 1 /\ sch' = Idle
  /\ UNCHANGED << mon, base >>

Own ==
  \/ Wake \/ Sleep \/ Load \/ RunCheck \/ Record \/ Advance
  \/ \E m \in Monitors : GetRow(m) \/ Start(m)

Next ==
  \/ Own \/ Deliver \/ Time \/ Crash
  \/ \E m \in Monitors : Create(m) \/ SetStatus(m) \/ Delete(m)

Spec == Init /\ [][Next]_vars

(* The scheduler and the clock go on: a check is bounded by its deadlines.     *)
(* Nothing makes a receiver answer.                                              *)
FairSpec == Spec /\ WF_vars(Own) /\ WF_vars(Time)

-----------------------------------------------------------------------------

(* The type of every variable. *)
TypeOK ==
  /\ mon \in [ Monitors -> Row ]
  /\ DOMAIN base = Monitors
  /\ \A m \in Monitors : base[m] \in [ UrlsOf(m) -> Bodies \cup {Absent} ]
  /\ sch.pc \in {"idle", "rows", "next", "load", "fetch", "record", "post", "advance"}
  /\ sch.due \subseteq Monitors /\ sch.queue \subseteq Monitors
  /\ sch.cur \in Monitors \cup {Nobody}
  /\ \A u \in DOMAIN sch.pages : sch.pages[u].status \in Statuses
  /\ sch.ago \in 0..Interval /\ crashes \in 0..MaxCrashes

(* What a check says of a page is true of what was recorded last, whatever     *)
(* another target, a crash or the owner did since the check began.              *)
ReportsAreTrue ==
  sch.pc = "record" /\ Exists(sch.cur) =>
    \A u \in DOMAIN sch.pages :
      LET p == sch.pages[u]
          was == base[sch.cur][u] IN
      /\ p.status = "same" <=> was = p.body /\ p.body # Absent
      /\ p.status = "new" => was = Absent
      /\ p.status = "changed" => was \in Bodies \ {p.body}
      /\ p.status = "removed" => was # Absent

(* A receiver is told only what is on record: after a crash it does not hear   *)
(* of a change again that the store has never seen.                              *)
NewsIsOnRecord ==
  sch.pc = "post" /\ Exists(sch.cur) =>
    \A u \in DOMAIN sch.pages :
      sch.pages[u].status # "error" => base[sch.cur][u] = sch.pages[u].body

(* A crawl that finds nothing is an outage: a check never takes a monitor's    *)
(* last baseline from it.                                                        *)
OutageForgetsNothing ==
  [][ \A m \in Monitors : Exists(m)' /\ Known(base[m]) # {} => Known(base[m])' # {} ]_vars

(* A monitor that its owner deleted leaves nothing behind, even when a check of *)
(* it is being recorded.                                                         *)
NoOrphans == \A m \in Monitors : ~Exists(m) => base[m] = Blank(m)

(* A check in progress does not undo its owner's pause. *)
PauseSticks ==
  [][ \A m \in Monitors :
        mon[m].status = "paused" /\ mon'[m].status = "active" => SetStatus(m) ]_vars

(* Every monitor that stays active is run again and again: neither the checks  *)
(* and deliveries of the others nor their failures cost it its turn.  The one   *)
(* exception is a receiver that keeps the scheduler waiting for ever.            *)
EveryMonitorRuns ==
  \A m \in Monitors : <>[](sch.pc = "post") \/ []<>(~Active(m) \/ sch.cur = m)

=============================================================================
