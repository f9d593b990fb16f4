------------------------------ MODULE CrawlJobs ------------------------------
(***************************************************************************)
(* The job table of crw-server (state.rs, routes/crawl.rs, routes/v2):     *)
(* crawl and batch jobs that are started, wait for one of MaxConcurrent     *)
(* permits, run in a task of their own, publish their progress on a watch   *)
(* channel, are cancelled by DELETE and evicted by a cleanup task.          *)
(*                                                                          *)
(* A task is seen by the scheduler: it waits for a permit, is parked at an  *)
(* await, or is being polled.  An abort takes effect only where the task    *)
(* is not being polled, so a poll in progress runs to its next await.       *)
(* A crawl publishes the whole state from counters of its own, as           *)
(* CrawlProgress says; a batch changes the published state in place.        *)
(***************************************************************************)
EXTENDS JobProgress, Sequences, FiniteSets, SequencesExt

CONSTANTS
  Crawls,         \* ids of crawl jobs
  Batches,        \* ids of batch jobs
  MaxConcurrent,  \* MAX_CONCURRENT_CRAWLS
  MaxUrls,        \* most URLs of one job (bound of the model)
  Ttl,            \* job_ttl_secs, in ticks
  None            \* no job

Jobs == Crawls \cup Batches

ASSUME JobsAssumption ==
  /\ Crawls \cap Batches = {}
  /\ None \notin Jobs
  /\ MaxConcurrent \in Nat \ {0}
  /\ MaxUrls \in Nat \ {0}
  /\ Ttl \in Nat

VARIABLES
  listed,     \* jobs in the table
  age,        \* time since created_at
  handle,     \* abort_handle is stored
  chan,       \* the state on each watch channel
  own,        \* the counters of each crawl's task
  task,       \* where each task stands
  aborting,   \* abort() was called on the task
  waiting,    \* the semaphore's queue
  starter,    \* where the handler that starts each job stands
  deleting,   \* the job whose DELETE holds the table's write lock
  cancelled   \* history: jobs whose DELETE was accepted

jobsVars == << listed, age, handle, chan, own, task, aborting, waiting, starter, deleting,
           cancelled >>

Least(a, b) == IF a < b THEN a ELSE b

Running(j) == task[j] \in {"parked", "polled"}

(* The write lock of the table is free. *)
Unlocked == deleting = None

-----------------------------------------------------------------------------

JobsInit ==
  /\ listed = {}
  /\ age = [ j \in Jobs |-> 0 ]
  /\ handle = [ j \in Jobs |-> FALSE ]
  /\ chan = [ j \in Jobs |-> FreshProgress(0) ]
  /\ own = [ j \in Jobs |-> FreshProgress(0) ]
  /\ task = [ j \in Jobs |-> "none" ]
  /\ aborting = [ j \in Jobs |-> FALSE ]
  /\ waiting = << >>
  /\ starter = [ j \in Jobs |-> "idle" ]
  /\ deleting = None
  /\ cancelled = {}

(* start_crawl_job, start_batch_job: the job is listed, then its task is      *)
(* spawned and queues for a permit.                                           *)
Start(j, total) ==
  /\ starter[j] = "idle"
  /\ Unlocked
  /\ IF j \in Crawls THEN total = 0 ELSE total > 0
  /\ starter' = [ starter EXCEPT ![j] = "spawned" ]
  /\ listed' = listed \cup {j}
  /\ chan' = [ chan EXCEPT ![j] = FreshProgress(total) ]
  /\ task' = [ task EXCEPT ![j] = "queued" ]
  /\ waiting' = Append(waiting, j)
  /\ UNCHANGED << age, handle, own, aborting, deleting, cancelled >>

(* The handler takes the lock again to store the abort handle. *)
StoreHandle(j) ==
  /\ starter[j] = "spawned"
  /\ Unlocked
  /\ starter' = [ starter EXCEPT ![j] = "answered" ]
  /\ handle' = [ handle EXCEPT ![j] = j \in listed ]
  /\ UNCHANGED << listed, age, chan, own, task, aborting, waiting, deleting, cancelled >>

(* The client goes away while the handler waits for the lock: the handle is   *)
(* never stored and the task runs on.                                         *)
StarterDropped(j) ==
  /\ starter[j] = "spawned"
  /\ starter' = [ starter EXCEPT ![j] = "answered" ]
  /\ UNCHANGED << listed, age, handle, chan, own, task, aborting, waiting, deleting, cancelled >>

PermitFree == Cardinality({ k \in Jobs : Running(k) }) < MaxConcurrent

(* A permit goes to the head of the queue, and the task is polled. *)
Grant(j) ==
  /\ waiting # << >>
  /\ Head(waiting) = j
  /\ ~aborting[j]
  /\ PermitFree
  /\ waiting' = Tail(waiting)
  /\ task' = [ task EXCEPT ![j] = "polled" ]
  /\ UNCHANGED << listed, age, handle, chan, own, aborting, starter, deleting, cancelled >>

(* What the task waited for is there. *)
Wake(j) ==
  /\ task[j] = "parked"
  /\ ~aborting[j]
  /\ task' = [ task EXCEPT ![j] = "polled" ]
  /\ UNCHANGED << listed, age, handle, chan, own, aborting, waiting, starter, deleting, cancelled >>

(* The poll reaches an await that is not ready. *)
Park(j) ==
  /\ task[j] = "polled"
  /\ task' = [ task EXCEPT ![j] = "parked" ]
  /\ UNCHANGED << listed, age, handle, chan, own, aborting, waiting, starter, deleting, cancelled >>

(* An aborted task is dropped, and its permit or its place in the queue with  *)
(* it, once no worker polls it.                                               *)
Drop(j) ==
  /\ aborting[j]
  /\ task[j] \in {"queued", "parked"}
  /\ task' = [ task EXCEPT ![j] = "gone" ]
  /\ waiting' = RemoveFirst(waiting, j)
  /\ UNCHANGED << listed, age, handle, chan, own, aborting, starter, deleting, cancelled >>

(* What a crawl sends after a page: its own counters, whatever was published. *)
Reported(p, q) == q

(* run_crawl: a page is done, state_tx.send replaces the published state. *)
CrawlPage(j) ==
  /\ j \in Crawls
  /\ task[j] = "polled"
  /\ own[j].status = "InProgress"
  /\ \E q \in AdvancesOf(own[j], MaxUrls) :
       /\ own' = [ own EXCEPT ![j] = q ]
       /\ chan' = [ chan EXCEPT ![j] = Reported(chan[j], q) ]
  /\ UNCHANGED << listed, age, handle, task, aborting, waiting, starter, deleting, cancelled >>

(* run_crawl ends: completed with every document, or failed at the start. *)
CrawlEnd(j) ==
  /\ j \in Crawls
  /\ task[j] = "polled"
  /\ \E q \in FinishesOf(own[j], MaxUrls)
              \cup (IF own[j] = FreshProgress(0) THEN {FailedProgress} ELSE {}) :
       chan' = [ chan EXCEPT ![j] = q ]
  /\ task' = [ task EXCEPT ![j] = "gone" ]
  /\ UNCHANGED << listed, age, handle, own, aborting, waiting, starter, deleting, cancelled >>

(* Mutant: the batch waits for one page more than it has. *)
MutNeverDone(p) ==
  IF p.completed > p.total /\ p.status = "InProgress"
  THEN [ p EXCEPT !.status = "Completed" ] ELSE p

(* Mutant: the last page completes the batch whatever DELETE did. *)
MutAfterPage(p) ==
  IF p.completed >= p.total THEN [ p EXCEPT !.status = "Completed" ] ELSE p

(* Only an InProgress batch flips to Completed. *)
AfterPage(p) ==
  IF p.completed >= p.total /\ p.status = "InProgress"
  THEN [ p EXCEPT !.status = "Completed" ] ELSE p

(* Mutant: a page that came back blocked is counted but not kept. *)
MutWithPage(p, b) ==
  [ p EXCEPT !.completed = @ + 1, !.blocked = @ + b, !.docs = @ + 1 - b ]

WithPage(p, b) ==
  [ p EXCEPT !.completed = @ + 1, !.blocked = @ + b, !.docs = @ + 1 ]

(* start_batch_job: a URL is scraped, send_modify changes the state in place. *)
BatchPage(j) ==
  /\ j \in Batches
  /\ task[j] = "polled"
  /\ chan[j].completed < chan[j].total
  /\ \E b \in 0 .. 1 : chan' = [ chan EXCEPT ![j] = AfterPage(WithPage(@, b)) ]
  /\ UNCHANGED << listed, age, handle, own, task, aborting, waiting, starter, deleting, cancelled >>

(* Every URL of the batch was scraped. *)
BatchEnd(j) ==
  /\ j \in Batches
  /\ task[j] = "polled"
  /\ chan[j].completed = chan[j].total
  /\ task' = [ task EXCEPT ![j] = "gone" ]
  /\ UNCHANGED << listed, age, handle, chan, own, aborting, waiting, starter, deleting, cancelled >>

(* cancel_crawl holds the table's lock to its end, but not the channel: the   *)
(* status it checked may have changed when it writes.                         *)
DeleteChecks(j) ==
  /\ Unlocked
  /\ j \in listed
  /\ ~Terminal(chan[j])
  /\ deleting' = j
  /\ UNCHANGED << listed, age, handle, chan, own, task, aborting, waiting, starter, cancelled >>

DeleteMarks(j) ==
  /\ deleting = j
  /\ deleting' = None
  /\ aborting' = [ aborting EXCEPT ![j] = @ \/ (handle[j] /\ task[j] # "gone") ]
  /\ handle' = [ handle EXCEPT ![j] = FALSE ]
  /\ chan' = [ chan EXCEPT ![j].status = "Cancelled" ]
  /\ cancelled' = cancelled \cup {j}
  /\ UNCHANGED << listed, age, own, task, waiting, starter >>

Expired(j) == Terminal(chan[j]) /\ age[j] >= Ttl

(* The cleanup task evicts what is terminal and old. *)
Cleanup ==
  /\ Unlocked
  /\ \E j \in listed : Expired(j)
  /\ listed' = { j \in listed : ~Expired(j) }
  /\ UNCHANGED << age, handle, chan, own, task, aborting, waiting, starter, deleting, cancelled >>

Tick ==
  /\ age' = [ j \in Jobs |-> IF j \in listed THEN Least(age[j] + 1, Ttl) ELSE age[j] ]
  /\ UNCHANGED << listed, handle, chan, own, task, aborting, waiting, starter, deleting, cancelled >>

PageStep(j) == CrawlPage(j) \/ CrawlEnd(j) \/ BatchPage(j) \/ BatchEnd(j)

JobsNext ==
  \/ \E j \in Jobs :
       \/ \E total \in 0 .. MaxUrls : Start(j, total)
       \/ StoreHandle(j) \/ StarterDropped(j)
       \/ Grant(j) \/ Wake(j) \/ Park(j) \/ Drop(j)
       \/ PageStep(j)
       \/ DeleteChecks(j) \/ DeleteMarks(j)
  \/ Cleanup
  \/ Tick

JobsSpec == JobsInit /\ [][JobsNext]_jobsVars

(* The runtime polls what is ready and drops what is aborted, and every page  *)
(* ends at its deadline, however often its task parks before.                 *)
JobsFairSpec ==
  /\ JobsSpec
  /\ \A j \in Jobs : WF_jobsVars(Grant(j)) /\ WF_jobsVars(Wake(j)) /\ WF_jobsVars(Drop(j))
  /\ \A j \in Jobs : SF_jobsVars(PageStep(j))

-----------------------------------------------------------------------------

(* Every variable keeps its type, the queue holds the waiting tasks once      *)
(* each, and no more tasks run than there are permits (state.rs:128).         *)
JobsTypeOK ==
  /\ listed \in SUBSET Jobs
  /\ age \in [ Jobs -> 0 .. Ttl ]
  /\ handle \in [ Jobs -> BOOLEAN ]
  /\ chan \in [ Jobs -> Progress(MaxUrls) ]
  /\ own \in [ Jobs -> Progress(MaxUrls) ]
  /\ task \in [ Jobs -> {"none", "queued", "parked", "polled", "gone"} ]
  /\ aborting \in [ Jobs -> BOOLEAN ]
  /\ IsInjective(waiting)
  /\ ToSet(waiting) = { j \in Jobs : task[j] = "queued" }
  /\ starter \in [ Jobs -> {"idle", "spawned", "answered"} ]
  /\ deleting \in Jobs \cup {None}
  /\ cancelled \in SUBSET Jobs
  /\ Cardinality({ j \in Jobs : Running(j) }) <= MaxConcurrent

(* Whatever the order of pages, DELETE and the end of the task, a poll sees    *)
(* counters that agree, one document per page in a batch, and never a blocked  *)
(* page more than were completed: it bills the difference (types.rs).          *)
CountersAgree ==
  \A j \in Jobs :
    /\ Coherent(chan[j])
    /\ j \in Batches => chan[j].docs = chan[j].completed

(* A poller never sees fewer pages done than before, though a crawl replaces  *)
(* the published state and DELETE writes into it in between; and a cancelled    *)
(* batch stays cancelled, whatever its task still finishes (state.rs: never     *)
(* overwrite a terminal Cancelled set by DELETE).                               *)
ChannelStands ==
  [][ \A j \in Jobs :
        /\ starter[j] # "idle" =>
             chan'[j].completed >= chan[j].completed /\ chan'[j].blocked >= chan[j].blocked
        /\ j \in Batches /\ chan[j].status = "Cancelled" => (chan'[j].status = "Cancelled") ]_jobsVars

(* The same of a crawl: tests/cancel_terminal.rs:1 says that DELETE on a      *)
(* crawl job must leave it in a terminal Cancelled state.                     *)
CrawlCancelSticks ==
  [][ \A j \in Crawls :
        chan[j].status = "Cancelled" => (chan'[j].status = "Cancelled") ]_jobsVars

(* A job leaves the table only with its last word: nobody loses the results   *)
(* of a job still at work, however long it takes, unless somebody cancelled   *)
(* it (state.rs, cleanup task).                                               *)
KeptAtWork ==
  \A j \in Jobs :
    (starter[j] # "idle" /\ j \notin listed /\ j \notin cancelled) => Terminal(chan[j])

(* What the table says of its jobs agrees with their work. *)
TableIsSound == JobsTypeOK /\ CountersAgree /\ KeptAtWork

(* DELETE stops the work: routes/crawl.rs:81 says it aborts the spawned task  *)
(* and then marks the job terminal.                                           *)
CancelAborts ==
  \A j \in cancelled : task[j] # "gone" => aborting[j]

(* Every batch gets a permit, though crawls, cancelled jobs and jobs with no  *)
(* abort handle hold them meanwhile, and reaches a terminal state.            *)
BatchEnds ==
  \A j \in Batches : starter[j] = "spawned" ~> Terminal(chan[j])
=============================================================================
