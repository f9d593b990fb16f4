# crw-camofox in TLA+

Models, model checks and proofs of the crw-camofox scraper: the part of the
code where requests share state, wait for each other, retry, time out and get
cancelled. Every module names the source file it translates; the table
`map` in `PROJECT.json` gives the lines of each definition.

Contents: [the system](#the-system), [the modules](#the-modules),
[the runs](#the-runs), [fairness](#fairness), [the proofs](#the-proofs),
[counterexamples](#counterexamples), [what is left out](#what-is-left-out),
[plan](#plan).

To check everything by hand:

    tlc -workers 2 -config MCHostLimiter.cfg MCHostLimiter.tla
    tlapm HostLimiterProofs.tla

## The system

A self-hosted scraper with a Firecrawl-compatible HTTP API, a Rust workspace
under `src/crates`. A *scrape* fetches one URL: the cache, then
`FallbackRenderer::fetch`, then extraction. A *crawl* runs `fetch` over a
frontier, a *batch* runs scrapes over a list. `fetch` queues at the limiter of
its host, asks the plain HTTP tier, then possibly an HTTP tier that imitates
Chrome's TLS fingerprint, then climbs a ladder of browsers (LightPanda, Camofox,
and Byparr, which solves challenges). Around the ladder stand circuit breakers,
one per tier and one per host and tier.

    HTTP API ──> job table ──> crawl ──┐
       │            │                  ├──> fetch: host limiter ─> HTTP ─> hop ─> JS ladder
       ├──> scrape pipeline <── batch  ┘                                          │   │
       │      page cache, extract pool                        breakers, preferences  CDP pool
       └──> search (warm tab), research, monitor (scheduler, store, webhook)

| component | state it keeps | operations | shared with | what is hard | what makes it correct |
|---|---|---|---|---|---|
| circuit breaker (`breaker.rs`) | state, window ring, half-open counters, ejection count | `try_acquire`, `record_outcome`, `cancel_probe`, `reset`, `snapshot` | every request of a tier | outcomes that come late, twice or never; a lazily evaluated clock | quotas, no stale window, back-off grows, rests are kept, never wedged |
| breaker registry (`breaker.rs`) | one global breaker per tier, a cache of host breakers | two-scope acquire, record and cancel, `ProbeGuard`, `reset_all` | requests of all hosts | awaits between the scopes, dropped futures, eviction | slots owned in both scopes, a host cannot open the global breaker |
| render ladder, smart fetch (`lib.rs`) | per request: budget, skipped tiers, chain, candidate, last error | `fetch`, `fetch_with_js`, hop, leak arm, solver gate, fallbacks | breakers, limiter | three render modes × pins × a clock that runs out anywhere | pins, no tier twice, no wall in place of a page, errors name the cause |
| host limiter (`host_limiter.rs`) | map of host → (pacer, semaphore, last use) | `get_host_limiter`, `acquire`, `next_sleep`, GC each 64th call | every fetch of a host | an entry collected while in use; reservations abandoned | the cap, the spacing |
| host preferences, clearance, egress memory | failure windows and a latch; TTL caches per host | record, promote, get, expire | every fetch | stale entries | no promotion on old failures, no expired cookie |
| browser context pool (`browser_pool.rs`) | slots with a state and a terminator flag, free list, permits, `inflight` | acquire, claim, release with three recycling steps, guard drop, three-phase `shutdown` | (no caller yet; see below) | shutdown racing acquire and release; two ends of one slot; a lost wake-up | a slot is private, closed once, counted right; shutdown ends |
| CDP connection (`cdp_conn.rs`) | table of pending commands, `is_closed`, the sink's mutex | `send_recv` and its drop, event loop, drain, `close` | the tasks of one browser | late answers, close racing send | everybody gets his own answer, no entry leaks, no wait without end |
| crawl (`crawl.rs`) | frontier, visited keys, results, counters | `run_crawl`, `enqueue_discovered_links`, `discover_urls` | channel of its job | limits, two spellings, pages that fail on many paths | each page once, at its least depth, none missed, the bill |
| job table (`state.rs`, `routes`) | map of jobs, watch channels, abort handles, 10 permits | start, DELETE, poll, cleanup; extract jobs | handlers, tasks, cleanup | DELETE racing the task; abort handle stored late | terminal stays terminal, permits return, jobs end |
| HTTP tier (`http_only.rs`, `egress.rs`) | per fetch: egress, tries, deadline, flags; one latch per host | `HttpFetcher::fetch`, `note_block`, `is_blocked` | every fetch of a host | proxy, rescue, retries and a relaxed client on one deadline; a memory fed by its own effects | the latch reorders but never suppresses, sends are bounded, blame needs evidence |
| CDP tier (`cdp.rs`) | per render: session state, interception pump, list of outstanding requests, target guard | `fetch_with_ws`, `fetch_inner`, pumps, `WsFetchGuard` | a browser | a caller that drops it at any await, an event ring that overflows, nested frames | no unchecked request, no unguarded child, the target is reaped |
| scrape pipeline (`single.rs`, `extract_pool.rs`) | per scrape: page, candidate, flags | `scrape_url`, escalation, verdict, store | page cache, renderer | fields of two fetches mixed; time passing in between | what is stored, called cached and delivered belongs together |
| page cache (`page_cache.rs`) | entries with fetch time and budget bucket | `lookup`, `store` | scrapes of a URL | a slow old fetch stored last | no reader gets a staler or poorer page than it allows |
| search (`camofox_search.rs`) | one warm tab behind a mutex | `search`, `ensure_tab`, `abandon_tab` | all searches | time-outs mid-navigation, failed creates | at most one warm tab, none leaked |
| monitor (`crw-monitor`) | SQLite: monitors, checks, snapshots, schedule | `tick`, `run_monitor`, `run_check`, `record_check`, webhook | restarts, the owner's API | a crash, a pause or a deletion between any two of its steps | reports true of the record, nothing orphaned, everybody's turn comes |
| robots, sitemap, URL filter, page judgement, extraction, diff, types, configuration | none, or process-wide tables | pure functions | everybody | numeric and textual edges | — |
| HTTP API, research, MCP, command line | none | adapters | everybody | fan-out with time-outs | — |

`PROJECT.json` lists the same components with their files and what of each is
modelled, and every hazard at its line with the properties that cover it.

The context pool has no caller in the server: `lib.rs` builds its CDP tiers with
`chrome_pool = None`, and only tests call `with_pool`. It is modelled as the component
it is, with renders that use it as its interface allows.

## The modules

### Circuit breaker: `Breaker`, `CooldownGate`, `CircuitBreaker`

`Breaker` is the breaker as a record and one operator per method; a method holds
one mutex from start to end, so each is a function. `LazyEvaluate` runs first in
every method except `cancel_probe`, as in the code. Instants became a timer
relative to the state (ticks left in Open, ticks elapsed in HalfOpen and
Closed), capped where no comparison tells values apart, so time needs no bound.
The ring buffer is the sequence of its last `WindowSize` entries; rates are
fractions, compared by cross-multiplication. `EjectionCap` stands for `u32::MAX`.

`CircuitBreaker` has requests that acquire, and later come back in one of the
four ways the callers have: `Record` (an outcome), `Unrecorded`
(`record_scoped_outcome` with `None`), `Dropped` (`ProbeGuard::drop`), `Leaked`
(a probe of the leak arm whose request ends; there is no guard). Between any
two steps others act, the clock ticks, an operator resets or a poll looks.
`probing` and `owed` are history variables.

`CooldownGate` is what a breaker promises, with no word of windows or probes: a
gate is passable or cooling, a trip costs between `MinRest` and `MaxRest` ticks,
and nobody enters before the rest is over. `CircuitBreaker` implements it under
the mapping `rest <- timer while Open`, `inflight <- callers holding a permit`.

### Breaker registry: `BreakerRegistry`

The global breaker of one tier and the breakers of its hosts. A request is taken
through every await of `acquire_with_guard` and the record functions (`acquired`,
`guarded`, `halfway`, `recorded`), so eviction, `reset_all`, other requests and
the drop of its own future can come between the two scopes. An evicted host's
breaker starts new; a guard that still holds the old one no longer touches the
map (`current`). `VerdictsOf` and `ToldGlobally` say, for each arm of
`fetch_with_js`, which outcome goes to which scope. Tiers share no breaker, so
one tier is enough. `evidence` is history: how many faults of the renderer itself the
global window was told since it was last empty (`RendererFault`).

### Render ladder and smart fetch: `FetchPromise`, `RenderLadder`, `SmartFetch`

`RenderLadder` is `fetch_with_js`: the serial loop with the solver gate, the
budget floor checked before and after the breaker's await, the permit, the
attempt, the three kinds of end, then the leak arm and the tail. The locals of
the function are the variables. What a tier brings is a kind of body (good,
thin, refused by status, vendor wall, generic wall) or a kind of error; the
breakers answer anything; the budget may run out at any step. A host that the preference
learner promoted gets the tiers in another order (`Promoted`), which of the two is free.
`LadderAssumption` is what `FallbackRenderer::new` and the promotion's stable sort
guarantee: each tier once, the solver last, no tier called `auto`. The leak arm goes over the
whole pool again, as the code does, and passes by what was not skipped.

`SmartFetch` extends it to `FallbackRenderer::fetch`: the limiter phase, the
`impersonated-http` pin, the HTTP tier, the hop, the three render modes, the
demotion of a wall, the fail-closed arm, the tagged fallback and the choice of
the error that names the root cause. An HTTP answer is a record of the signals
the code reads off it (`HttpPages` leaves out combinations no response shows).

`FetchPromise` is the abstract request: what plain HTTP brought, the tiers tried, the
tier's body in hand, the reply. It knows no order, no breakers, no budget, no leak arm and no
signals. What it does say is that a tier is tried once, after plain HTTP, and never once a good
body is in hand; that a body in hand is only ever replaced by another; that the one reply hands over what is in hand, under
the name of the tier that brought it, with plain HTTP's page standing in (marked) only for
nothing or for a worthless wall; and that an error means empty hands. `SmartFetch` implements
it (`KeepsFetchPromise`): tried is `Range(sent)`, in hand is the ladder's answer or its thin
candidate (`Kept`), the reply is `result` without the wording of an error (`Told`).

### Host limiter: `HostLines`, `HostLimiter`

Hosts own entries, entries name a pair (pacer, semaphore with a FIFO queue).
`Ask` is `get_host_limiter` with its collection at each `GcEvery`-th call plus
joining the queue; `Admit` takes the permit and reserves a start with
`next_sleep`, giving up when the nap exceeds the budget; `Start` ends the nap;
`Leave` is the drop of the permit at any point. Instants are relative to now:
`due` is `last_request - now`, so it is positive for a reserved start, and
`elapsed()` saturating at zero is the `Greatest(-due, 0)` of `NextSleep`.
`HostLines` is what this promises a fetch, without entries or semaphores: each host has one
line, served in the order of arrival, at most `Cap` at a time. `HostLimiter` implements it
(`KeepsLines`): a host's line is the queue of the pair its entry names (`LineOf`), its served
are the holders of permits for it (`ServedAt`); pacing, time and collections are stutters.

### Crawl: `JobProgress`, `CrawlProgress`, `Crawl`

`Crawl` is `run_crawl`: the seed check, robots, and the loop that pops, skips,
fetches, takes links and extracts. A page's links are read in one step and taken one a step
(`FetchArrives`, `TakeLink`, `LinksDone`), each against
`visited.len() < max_pages`, deduplicated on `Key` (`normalize_url`) but fetched
as written. All failing paths end in `Report`, with what the code counts there.
`CrawlProgress` is the promise to pollers (one page at a time, counters never
fall, one end); `Crawl` implements it. `JobProgress` holds what both and the job
table share: the published record and how it may grow.

### Job table: `CrawlJobs`

`start_crawl_job` and `start_batch_job`, the tasks, DELETE, the handler that
stores the abort handle, cleanup. A task queues for a permit, is `polled` or
`parked` at an await; an abort takes effect only while it is not being polled,
as in tokio. A crawl publishes whole states from its own counters (`send`); a
batch changes the published state in place (`send_modify`). DELETE holds the
table's write lock from check to mark (two steps), but not the channel, so the
task may publish in between. A crawl advances as `CrawlProgress` allows, which
`Crawl` was checked to implement.

### The HTTP tier: `HttpFetch`

`HttpFetcher::fetch` with the egress memory it shares with other fetches of the host
(`latch`: how much longer the host goes to the proxy first). A fetch is a record of the
function's locals; one operator per arm of its loop (`AfterHang`, `AfterAnswer`,
`AfterFailure`, `AfterBody`) maps the locals to those of the next round or to `Ended`.
Answers and failures are the classes the helper functions tell apart. The deadline is
what is left of it: the waits (`sent`, `nap`, `body`) use it up tick by tick, up to the
cap of the attempt, and `left` below zero exists only where the code lets the body run on.
`heard`, `sends` and `since` are history.

### The browser context pool: `BrowserPool`

A slot is its state, its terminator flag and two facts for the properties: whether a
page was recorded on it, and how often its connection was closed. A render walks through
`acquire` (permit, head of the free list, health check, claim under the slot's mutex,
count), uses the slot, and leaves by `release` with its three recycling commands, by the
guard's drop, or by a dropped `release`. `shutdown` is its three phases, with the look at
`inflight`, the subscription and the wait as separate steps, and each atomic operation on
`inflight` on its own (`Load`, `Subtract`), modulo the counter's width (`Word`).

### The CDP connection: `CdpConnection`

`send_recv` as the steps check, number, insert, lock, write, wait, with its drop at any of
them; the event loop as dispatch, end of stream, flag, list of keys, drain one by one. The
`DashMap` is a function from ids to callers and every access to it is a step. `asked` and
`entered` record on which side of the drain's listing a caller looked and entered.

### The CDP tier: `CdpRender`

One render with a connection of its own: the commands before navigation in their order
(`Setup`, those in `Optional` forgiven), navigation, the phase after it, the budgets that
cut it, the teardown, and the guard that reaps the target when the future is dropped. The
interception pump runs beside it: it takes attachments and paused requests from a ring
that drops its oldest events, enables interception in each child before letting it run,
asks the destination check once per host and answers. The browser is external and does
only what the code relies on: a session with Fetch on pauses its requests, one with
auto-attach on starts its children frozen, and a command may fail with its effect or
without. What the page reads is a kind: empty, a placeholder, a challenge, a page, or the
browser's own page about a navigation that failed (`fault`). `Cancel` is the caller's timeout,
which drops the future at any await. A target whose close came to nothing is inert once the reaper is done (`Alive`): the code
knows that Chrome may hold and run it on (`cdp.rs:1528`), but what such a page does after the
render is outside the model, and outside `OnlyCheckedLeave`. `hist` is history: what the checks came
to, and whether the page was read.

### Scrapes that share the page cache: `Scrape`

`scrape_url_inner` and `page_cache.rs`: look up or fetch, extract, perhaps escalate to a
browser, judge, store, deliver, with time passing between any two. A page is the result of a fetch:
its flaw (an error status, a cut body, a wall, the tag of an HTTP body that stands in for a
failed ladder), whether a low tier made it, whether its deadline had passed; `born`, `by` and
`left` say where it came from. A scrape has `page`, the record it judges, and `of`, the fetch
whose body is in hand. They part when a second fetch is taken: `Merged` takes the
body, wall, cut, tag and tier of the second and keeps status and deadline flag of the first,
so a property that reads `of` sees fields of two fetches mixed. The second fetch may itself end
in LightPanda, a wall, or the tagged HTTP body (`Rendered`). `md` is the worth of the
markdown in the classes the thresholds make, drawn by each extraction. Whether the request
and the pool allow an escalation, and what enough markdown is worth, is left open
(`ShouldEscalate`).

### The monitor: `Monitor`

The scheduler (`Wake`, `GetRow`, `Start`, `Advance`, `Sleep`), one check (`Load`,
`RunCheck`, `Record`, `Deliver`), the owner (`Create`, `SetStatus`, `Delete`), the clock
and a crash that keeps the tables and loses the scheduler. `base` is the snapshot table,
one baseline for each URL of a monitor, whichever target it is of, as `load_prior` reads
it. `SiteDown` is the fraction rule in integers.

## The runs

| run | instance | what it shows |
|---|---|---|
| `breaker` | 3 callers, window 4, 3 probes, cooldown 1..3, cap 4 | the half-open quota, the refinement (rests are kept), and that the breaker is never wedged |
| `registry` | 2 requests, 1 host, window 2 at failure rate 1/2, 2 probes | slot bookkeeping across both scopes; the global breaker opens on the renderer's own faults only (400 268 states) |
| `smart_fetch` | the ladder lightpanda, chrome, byparr and its promoted order; every pin, mode and HTTP answer | the contracts of one request and the refinement of `FetchPromise` (1 681 735 states) |
| `limiter` | 3 requests, 2 hosts, 1 permit, interval 2, deadline 2, TTL 4, GC each 2nd call | the cap, the spacing, and the refinement of one line per host behind which entries come and go (442 483 states) |
| `crawl` | 6 URLs of one site (two spellings of one) and a foreign one, limits 0/2/5 pages and 0/1/3 levels, 2 links a page, 1 robots rule | frontier, bill, promise, end (949 858) |
| `jobs` | one crawl and one batch of up to 2 URLs on one permit | counters, retention, a cancelled batch, permits come back |
| `http` | one fetch after another of one host, budgets 5 and 8 s, one retry; 1 tick = 1 s | the latch, the blame, and that every fetch ends (269 419 states) |
| `pool` | 2 renders, 3 slot identities, pool of 2, a counter of 4 values | privacy, closing once, size, books, the sweep, the end of shutdown (2 090 191) |
| `cdp_conn` | 2 callers, 4 ids | own answers, who may be stranded, that the end of the stream wakes the others (36 872) |
| `cdp_render` | a frame in a frame, 2 requests on 2 hosts, a ring of 2, 1 challenge retry | no unchecked request, no unguarded child, the reaped target, the blame (2 315 794) |
| `scrape` | a hasty scrape that takes pages of age 2 and a patient one that takes age 1, budgets 2 and 3, bucket edges 2 and 3 | freshness, budgets, what is kept (7 930 251) |
| `monitor` | m1: a fixed URL and a crawl over it and two more, with a webhook; m2: a fixed URL, its schedule perhaps garbled; 1 crash | true reports, outages, turns (1 135 922) |

All runs pass, together in some ten minutes; each alone takes less than five.

Why the bounds are enough:

* *Breaker.* The counters react to comparisons with `MaxProbes`, `MinCalls`,
  `WindowSize`: with `MinCalls < WindowSize` the window both fills and slides,
  with 3 probes a period can be decided by success, by failure, by time-out on
  partial evidence, and be disturbed by a third caller. Four ejections take
  the cooldown past its maximum. The proofs remove these bounds for everything
  but `NeverWedged`.
* *Registry.* One host is enough for its scope pair; hosts meet only in the
  global breaker, where another caller of the same host does the same. Two
  probes let one guard's cancel hit another's slot. At rate 1/2 a success can be the answer
  that completes `MinCalls` over a window already at the rate, and opens the breaker. The
  proofs hold for any number of requests and hosts and any rate.
* *Ladder.* A light tier, a full browser and the solver are the kinds of tier the code
  tells apart; only the kinds of answers are bounded. The proofs hold for any ladder.
* *Limiter.* Two hosts so that a call for one collects the other's entry, three
  requests so that two queue behind a holder. With `Ttl` 4 an entry expires
  within a run, with GC each second call both kinds of call happen.
  `TtlAssumption` is what the code has, by a factor of ten and more. Up to
  three stand in line before the first is served.
* *Crawl.* Five pages of distinct keys against limits of 2 and 5: the limit binds
  or not; three levels exist below the seed. Two links a page make a diamond, so a
  page can be offered at two depths.
* *Jobs.* One permit for two jobs makes each wait for the other. A batch of two has a
  last page and one before it.
* *HTTP.* The times keep the order the code's have (reserve 4 s, minimal proxy attempt 2 s,
  cool-down longer than any fetch): budget 5 is below the 6 s a latch needs, 8 above.
  With one fetch at a time a later fetch still meets the latch of an earlier one at every
  age; the proofs hold for any number at once.
* *Pool.* Two renders race for, and two render slots fill, a pool of two; a third identity
  is there for the slot made after one is buried. `LastTry = 1` gives acquire's loop a second
  round. A counter that wrapped would show as `Word - 1`.
* *CDP connection.* One caller can be on each side of the drain; four ids are two commands
  each, so an old answer meets a caller's next command. The proofs remove the bounds.
* *CDP render.* A child of a child is the least that shows nesting, two requests of
  different sessions and hosts the least that shows one check standing in for another, a ring
  of two loses events in this instance.
* *Scrape.* Two callers who differ in both limits, each of whom may store for the other;
  edges within the budgets, so that time passing changes buckets. The proofs remove them.
* *Monitor.* A URL of two targets, pages that appear, change, vanish and fail, a monitor that
  starves another if errors were handled wrongly. One crash at any step; a second meets the
  same tables. The fraction 1/2 stands for 4/5: with three URLs both answers occur.

`CHECK_DEADLOCK FALSE` appears where the system ends: `smart_fetch`, `crawl`, `pool` (shut
down), `cdp_conn` (no more ids), `cdp_render`, `scrape` (all delivered). Symmetry is used in
safety runs only (`registry`, `limiter`). `limiter` also has a `VIEW`, which leaves out what a pair nobody
uses last held: a new entry starts from `NewPair`, so no step reads it.

A run checks the properties a reader would argue about, some of them conjunctions of
named parts, each with a comment of its own in the module:

| property | parts |
|---|---|
| `BreakerRegistry!SlotsAccounted` | `RegistryTypeOK`, `SlotsOwned` |
| `SmartFetch!RequestIsSound` | `AnswerIsTrue` (`FetchTypeOK`, `StarvedIsTimeout`, `ErrMeansNoBody`, `FallbackTagged`, `WallNeverDisplacesPage`) and `TiersAsAsked` (`NoTierTwice`, `PinHonoured`) |
| `HostLimiter!LimiterIsSound` | `TypeOK`, `HostCap` |
| `Crawl!ReportIsSound` | `TypeOK`, `ReportedOnce`, `BillsWhatItDelivers` |
| `Crawl!CoversTheSite` | `ShortestDepth`, `NothingMissed` |
| `CrawlJobs!TableIsSound` | `JobsTypeOK`, `CountersAgree`, `KeptAtWork` |
| `BrowserPool!PoolIsSound` | `TypeOK`, `SlotIsPrivate`, `WithinSize` |
| `CdpRender!RequestsAreChecked` | `OnlyCheckedLeave`, `NothingForgotten` |
| `CdpRender!VerdictIsTrue` | `TypeOK`, `BlameIsOurs`, `PageIsFinal` |

Properties that are proved for every instance and add nothing to what a run shows are left
to their theorems: the type invariants of `CircuitBreaker`, `HttpFetch`, `CdpConnection`,
`Monitor` and `Scrape`; `WindowNeverStale`, `RestIsEarned`, `BackoffNeverShrinks`;
`OneLimiter`; `WithinBudget`, `AttemptsBounded`, `NoWayBack`; `NothingLeaks`;
`NewsIsOnRecord`, `NoOrphans`, `PauseSticks`; `CachedSaysSo`. All of them hold in
the instances of the runs too.

Each property of a passing run has a mutant in `PROJECT.json`: a plausible bug in
one definition (`Mut...`, next to the definition), which violates the
property in that same run.

## Fairness

* `CircuitBreaker!Fairness`: the monotonic clock advances (`WF Tick`); an attempt
  ends, since tiers run under a deadline; requests keep arriving (`WF` on an
  acquisition by somebody, not by each caller). Without arrivals nothing calls
  `lazy_evaluate`; the breaker is passive.
* `Crawl!FairSpec`: `WF Step`. Each await ends: fetches at their deadline,
  robots at its two time-outs, extraction is CPU work. Nothing makes `Abort` happen.
* `CrawlJobs!JobsFairSpec`: the runtime grants permits in FIFO order, polls what is
  ready and drops what is aborted (`WF`). A page ends at its deadline however
  often its task parks first, hence `SF PageStep`: `Park` disables it again and
  again. DELETE, clients and cleanup are not fair.
* `HttpFetch!Fairness`: a fetch that is not waiting runs (`WF Step`), and time passes
  (`SF Tick`: a tick is disabled while any fetch has a step to take, again and again). The
  network owes nothing: no answer, failure or body is fair. Every wait has a cap.
* `BrowserPool!Fairness`: the task that shuts down is polled and its drain deadline fires.
  Renders are not fair, they may keep a slot for ever.
* `CdpConnection!Fairness`: once the stream has ended, the event loop's task goes through its
  drain, which has no await (`WF Drains`), and a caller whose channel holds something takes it
  (`WF Receive`). Timers, the socket and the browser are not fair: `EndWakesEveryWait` says
  that the drain alone ends the waits, so it would notice an entry the drain passes by, which
  a timer would only hide.
* `Monitor!FairSpec`: the scheduler goes on and the clock ticks; checks are bounded by the
  deadlines of their fetches. Errors of the store, in the reads, the write and the schedule's
  advance, are choices of the steps concerned. A receiver is not fair, since the webhook client
  has no timeout: `EveryMonitorRuns` excepts the behaviours in which one keeps the scheduler
  waiting for ever (`<>[]`), and no others; a scheduler that posts now and then owes everybody
  his turn.
* `Scrape` and `CdpRender` state safety only: a scrape ends with its awaits, a render with the
  timeout its caller has put around it.

## The proofs

Eight modules of theorems, for every value of the constants that meets the named
assumptions. `PROJECT.json` lists the theorems with the property each establishes.

| module | about | theorems that state a property of a run |
|---|---|---|
| `BreakerProofs` | one breaker; the registry | `QuotaKept`, `ImplementsGate`; `SlotsBooked`, `GlobalTripsHonestly` |
| `FetchProofs` | the HTTP tier; the request and its ladder | `LatchRemembersOwnBlocks`, `DirectIsNeverSuppressed`, `UnreachableIsFirstHand`; `RequestSound`, `ImplementsPromise`, `DispatchDue` |
| `HostLimiterProofs` | the limiter and its queues | `LimiterSound`, `SpacingWithOnePermit`, `ImplementsLines` |
| `CdpProofs` | the CDP connection; the CDP render | `AnswersAreOwn`, `StrandedAreRacers`; `Checked`, `ChildrenGuarded`, `TargetReaped`, `VerdictTrue` |
| `BrowserPoolProofs` | the context pool | `PoolSound`, `ClosedOnce`, `InflightTrue`, `SweepComplete` |
| `CrawlProofs` | one crawl; the job table | `ReportsSound`, `SiteCovered`, `ImplementsProgress`; `TableSound`, `ChannelNeverFalls` |
| `ScrapeProofs` | scrapes on one cache | `ReplaysFresh`, `BudgetsHonoured`, `GoodPagesKept` |
| `MonitorProofs` | the monitor | `ReportsTrue`, `OutagesForgetNothing` |

**Breaker** (`BreakerAssumption`: positive sizes and quotas,
`BaseCooldown <= MaxCooldown`). The invariants are not inductive one by one: that
a closed breaker's window never warrants a trip depends on Open and HalfOpen
carrying an empty window, and that a rest is earned depends on the ejection count
being positive outside Closed. `Sound(x)` collects what each operation needs and
leaves, so there is one lemma per operation of `Breaker` (`EjectSound`,
`LazySound`, `RecordProbeSound`, ...). `IInv` adds the caller side and the debt: what
is owed was earned by the present ejection count. From `Inductive` follow
`TypeCorrect`, `QuotaKept`, `WindowFresh` and `RestEarned`. `BackoffMonotone` uses the
lemmas on how an operation moves the rest (`StepMoves`): a trip rests for the cooldown
of a count at least as large as the one that earned the debt
(`CooldownMonotone`). `ImplementsGate` maps each action of the breaker to one of
the gate or to a stutter, again from `StepMoves`.

**Registry** (`RegistryAssumption`). Each operation of `Breaker` is first said to have *kept*,
*taken* or *given back* half-open slots (`Kept`, `Took`, `Gave`), with one lemma per
operation; a request's step is then a matter of which scopes it takes from and gives to
(`BooksFollow`). `Books(s)` is the account of a scope: outside a half-open period nobody holds
a slot, in one every slot is covered by an outcome or by a holder, unless the leak arm has
lost one. `MayHold` says where in its path a request can stand while it holds a slot of each
scope, which is what makes a drop give back the right ones. `Evident` bounds the failures in
the global window by the renderer faults it was told. `GlobalTripsHonestly` says that the
global breaker leaves Closed for Open only when a renderer's answer is recorded on the ladder
proper and the faults told since the window was last empty reach the rate times `MinCalls`. The
proof refuted a stronger form, in which the tipping answer had to be a fault: a success that
completes `MinCalls` over a window already at the rate opens the breaker too (`record` pushes,
then looks at the rate), which the run's instance now contains.

**Limiter** (`CapAssumption`, `TimesAssumption`, `TtlAssumption`,
`LimitersAssumption`: more identities than hosts plus requests, all finite). The cap
looks obvious until the collection is seen: it drops entries without asking whether a
semaphore is in use. The invariant that carries it relates two clocks: while a request
uses a pair, `entry.idle + request.left <= Deadline`, so the entry is younger than
`Ttl` and survives (`InUseIsKept`). Hence everyone of a host uses the pair the entry
names (`OneLimiterAlways`), and the per-semaphore count is the per-host count
(`HostCapKept`). `TtlAssumption` is used exactly here: without it, two semaphores of one
host are possible. `SpacingWithOnePermit` assumes `Cap = 1`, the default of
`per_host_max_concurrent` (`src/crates/crw-core/src/config.rs:1259`): with one permit, at
most one start is pending per pair (`OneHolder`). `SInv` adds to `IInv` how long ago the
last start of a host was, by what its entry and its pacer remember (`Rested`), and that a
sleeper's pacer is not due before its nap is over, nor its nap before the interval (`Paced`).
Without the assumption the property is false (see [counterexamples](#counterexamples)).
`QInv` adds the queues: a request is in the line of the semaphore it waits for, once, and in no
other (`Line`). So nobody is forgotten and nobody who gave up blocks those behind him
(`LinesTrue`), and every variable has its type (`TypeCorrect`); with the cap this is
`LimiterSound`. `ImplementsLines` is the
refinement of `HostLines`, from `QInv`: an entry old enough to be collected has an empty line
(`CollectedIsEmpty`), two hosts never share a pair (`OwnPair`), and the permits of a host are
those of the pair its entry names (`ServedByPair`); so each action is a step of one line or a
stutter (`AskStep`, `AdmitStep`, `LeaveStep`, `Stutter`).

**HTTP tier** (`BudgetsAssumption`, `TimesAssumption`: a pause shorter than the reserve).
What can be said of a fetch is said of its locals: `Fine(x, h, n)` ties them to what it
heard and how often it sent. Its parts are the clock of the wait it is in (`Timed`), which
flags go with which egress (`Routed`), which flags need which evidence (`Witnessed`), and how
many sends each flag accounts for (`Counted`). Each arm of the loop has a lemma that it
keeps `Fine`, and the latch is bounded by the time since an own block. `Inductive` gives all
seven theorems; the three action properties use the lemma of the arm concerned.

**The request and its ladder** (`LadderAssumption`, `HopAssumption`). Why each tier is sent to at
most once is the account that `Looping` and `Leaking` keep of the pool: what lies ahead was neither
sent to nor skipped, what lies behind was sent to, skipped for its breaker, or is the solver that
nobody called for, unless the budget ran out and the error says so. The leak arm may only turn to
a skipped tier, and sent and skipped are apart until it does. The solver is last in every pool, so
when a body raises the challenge the solver still lies ahead: what was passed by as uncalled for
stays accounted for. `Staged` ties the ladder to the request: it stands idle until the fetch climbs
it, on a pool of the request's own pin. `RequestSound` and the action property `DispatchDue` follow
from `FetchInductive`. `ImplementsPromise` is the refinement of `FetchPromise`. It needs of the
ladder, beside that invariant, that it has no answer before it is through and answers well only
with a body (`HandInv`). A send of the loop or of the leak arm is then a `Try`, because the tier
was not sent to before and is of the pin's pool (`DispatchPromised`); an accepted, kept or leaked
body is a `Bring`; the tail changes nothing in hand (`ConcludePromised`); and `Settle` is one of
three replies, by whether the hand is empty and whether the page may stand in
(`SettlePromised`). Every other step of the ladder is a stutter.

**CDP connection** (`ConnectionAssumption`). Ids are apart, a waiting call without an answer
is in the table under its own id unless the drain has removed it, and the keys still to be
drained cover every entry made before they were listed. The last is what `StrandedAreRacers`
needs: at the end no key is left, so whoever is still waiting entered after the listing, and
looked before the flag.

**CDP render** (`RenderAssumption`). The main sequence and the pump share little, and the proof
keeps them apart: a lemma says of each main step what it may move (`Moved`) and of each pump
step that the render stays where it is, so that each part of the invariant meets only the steps that
can disturb it. `KidsGuarded` follows a child through enable, auto-attach and resume;
`PageGuarded` has interception on before the navigation is sent; `Requests` says that what the
pump took and the browser still holds is in the outstanding list. `Reaping` ties the reaper to a target that was made and recorded, `Blaming` the verdict to
the hosts the check could not decide and to the page that was read, wherever the render ends, `Final` the page to a challenge that was waited out.

**Browser pool** (`PoolAssumption`). Steps wear slots down: whatever happens to a slot, its
connection is kept, or taken out and booked as closed once, never put back (`Wears`). Only `Make`
brings a connection, on a slot nobody has and shutdown has not listed. That gives
`ClosedExactlyOnce`. For the size, live slots plus makers are bounded by `Size`, because a maker
holds a permit and found the free list empty; for the books, `inflight` is the number of renders that
have entered and not left until shutdown interferes (`Booked`), so till then it does not wrap. `Swept`
follows the sweep over the slots it listed.

**Crawl** (`UrlsAssumption`, `LimitsAssumption`, `KeyAssumption`). `QueueSound` is the breadth-first
argument: the queue is in the order of its depths and spans the level of the page in hand and the next.
`Apart` has reported, in hand and waiting on different keys; `Counted` bounds them by the keys known,
and those by the limit. `Near` says that while there is room, everything offered is known or among
the links still to be taken, at the least depth it was offered. `ImplementsProgress` is the refinement
of `CrawlProgress`: each step publishes an advance, the end, the failure, or nothing new
(`Published`).

**Job table** (`JobsAssumption`). `Told` is what the channel says of a job: a crawl that nobody cancelled
published its own counters and goes on, a job that left the table undeleted has said its last word.
`QueueOfJobs` and `Permits` are the semaphore. `ChannelNeverFalls` is an action property: no
counter a poller sees ever falls, though a crawl replaces the state and DELETE writes into it in
between, and a cancelled batch stays cancelled.

**Monitor** (`MonitorAssumption`, `TargetsAssumption`). While a check runs, `prior` is the
baseline table of its monitor, if that is still there: nobody else writes it. Pages in hand
were compared with it, so reports are true; pages being posted were recorded by the step
before. For outages, `AllGoneIsDown` is the arithmetic (losing everything exceeds any fraction
below one) and `SomethingIsLeft` carries it through `Record`: a crawl that is not down found a
page or lost less than all. So no check takes from a monitor the last baseline it has.

**Scrape** (`ScrapeAssumption`). `Good(s, x)` says of a scrape where its page and its body
come from, that the budget it was decided with is in no lesser bucket than what is left
(`Paid`), and how the record judged differs from the fetch whose body is in hand (`Worth`):
after one fetch not at all, after two only in that an error status or a passed deadline of the
second is hidden. `GoodPagesKept` is an action theorem from there: only `Judge` stores
(`OnlyJudgeStores`), it stores the page in hand, and what it finds worth replaying is worth
keeping by `of`. `Kept` says of the entry that it is fresh and paid for. A step of one scrape
touches nobody else (`OneStep`); time only takes budget away, and a bucket is monotone in the
budget (`BucketMonotone`), which is why comparing buckets at the lookup suffices.

**Checked by TLC only.** All liveness (`NeverWedged`, `CrawlEnds`, `BatchEnds`,
`EveryFetchEnds`, `ShutdownEnds`, `EndWakesEveryWait`, `EveryMonitorRuns`): fairness and ENABLED
are beyond the prover. Every invariant and every other action property that a run checks is
proved. What a fold or a recursive definition computes for all inputs needs induction over data,
which the prover does not have; where an invariant needs such a value (the failures in a window,
the keys known) it is stated through cardinalities.

## Counterexamples

What the code, its comments or its tests say and the code does not do. Each property is
written in the module named and put in no run; a cfg that lists it shows the steps.

| property | the code | the text |
|---|---|---|
| `CircuitBreaker!ProbesInFlightBounded` | an outcome that does not count frees a half-open slot, whoever brings it (`breaker.rs:391`): a call admitted while closed reports in the half-open period and a further probe is let in | "admit up to `max_probes` callers", `breaker.rs:10` |
| `CircuitBreaker!CloseNeedsSuccessRate` | a half-open period that times out with one success closes | "Close iff ...", `breaker.rs:12` |
| `BreakerRegistry!LeakLeavesGlobalAlone` | the leak arm takes no global slot and records with no global outcome, which cancels a probe of the global breaker (`breaker.rs:707`): another request's slot | "global stays untouched", `lib.rs:2309` |
| `BreakerRegistry!UnrecordedProbeReleased` | the leak arm takes a half-open host slot, finds the budget drained and goes on (`lib.rs:2275`); there is no guard, so the slot is taken until `eval_timeout` | "must still have its probe released", `breaker.rs:689` |
| `HostLimiter!Spacing` with `Cap = 2` | A reserves a start in the future; B, on the second permit, measures `elapsed()` of that instant as zero (`host_limiter.rs:123`) and naps just as long: both start together | "interval enforcement", `host_limiter.rs:5` |
| `CrawlJobs!CrawlCancelSticks` | DELETE marks a crawl `Cancelled` while its task is being polled; the task's next `send` (`crawl.rs:636`) replaces the state by `InProgress`, and the abort then drops it there | `tests/cancel_terminal.rs:1` |
| `CrawlJobs!CancelAborts` | the job is listed (`state.rs:372`) before its abort handle is stored: a DELETE in between, or one after the starting handler was dropped there, aborts nothing | "aborts the spawned task", `routes/crawl.rs:81` |
| `BrowserPool!NothingAfterShutdown` | an acquirer that has its permit when the semaphore closes goes on to claim or make a slot (`browser_pool.rs:398`) after the sweep has listed the live ones | the post-condition of `shutdown`, `browser_pool.rs:431` |
| `BrowserPool!CounterNeverWraps` | shutdown sets the terminator of an idle slot a render has popped (`browser_pool.rs:487`); the render's claim clears it (`:386`), it is counted on and released; shutdown, which believes the books are its own, and the render both load 1 (`:283`), both subtract: `usize::MAX`. Only the gauge is read after that, the drain loop is over | "a stable 0 floor, not a wraparound to usize::MAX", `browser_pool.rs:281` |
| `CdpRender!UndecidedIsOurs` | the check of the document's host is undecided and the request denied; the browser shows its own error page, or nothing, so the work ends without an error and the check is not asked for: the render reports an empty page, a navigation error or a timeout (`cdp.rs:1992`, `:1998`, `:2816`) as the site's. Work that fails is put down to the check (`BlameIsOurs`) | "our failure, not the origin's", `cdp.rs:2783` |
| `SmartFetch!DefaultMeansNoSkip` | a leaked render reports `AutoDefault` though tiers were skipped for their breakers | `RenderDecision` in `types.rs` |

Divergences read off the code while modelling, with no property of their own:

* *Monitor.* `load_prior` takes a `target_id` by its comment ("Load the prior state for a
  target", `store.rs:231`), but reads every baseline of the monitor. So a crawl target
  reports the URLs of a scrape target of the same monitor as removed and drops their
  baselines, against the rule in `types.rs` that a fixed URL is never "removed". The webhook
  client has no timeout, so one receiver can hold up every monitor. A target that fails leaves
  the schedule where it is: the next tick runs the monitor again and records and sends the
  checks of its earlier targets once more. A row deleted between `due_monitors` reading
  the ids and reading the rows fails that whole tick.
* *HTTP tier.* A fetch the latch sent to the proxy that gets a 2xx head and then a stalled body
  ends in a timeout without a direct attempt (`LatchNeverSuppresses` speaks of the headers). A
  proxy armed by a 429 that hangs may eat the whole deadline: no reserve is held back then.
* *CDP connection.* The timeout of `send_recv` covers the wait, not the write under the
  mutex (`cdp_conn.rs:269`): a socket that takes no bytes holds everybody up, and no property
  speaks of it (`EndWakesEveryWait` begins with the write done).
* *CDP render.* A `createTarget` that takes effect while its caller is dropped leaves a
  target nobody knows of (`TargetIsReaped` speaks of those the render knows).
* *Scrape.* An accepted escalation keeps the deadline flag of the first fetch, not that of
  the browser's, and a browser page that was itself a 4xx with enough text is stored under the
  first fetch's 2xx; `OnlyGoodPagesKept` allows these two and no third. A slower scrape may store over a newer entry: `insert` does not compare.
* *Job table.* `state.rs:267` counts a job's TTL from its creation, `config.rs:1245`
  documents it for completed jobs: a job that ran longer than the TTL is gone at the first
  sweep after it ends.

## What is left out

* *Panics.* A panic inside a job's task leaves it `InProgress`; it takes another defect
  to get there.
* *Batches of no URL.* The route rejects an empty list before it starts a job.
* *Different limits for one host.* The first caller's rate and cap win; both come from one
  configuration per process.
* *Timers late by less than a tick.* A nap ends, and a deadline cuts, at its tick.
* *Clearance replay and host preferences* inside `fetch`: they choose cookies and the first
  tier. Both are free choices in `SmartFetch`. A latch of `preference.rs` that a success clears
  while half the failure window stays may promote again on the next failure: a choice of tier,
  and no property of the ladder depends on it.
* *Capacity of the egress memory.* It evicts the least used host, which `latch = 0` covers.
* *The hop's own internals, Camofox and Byparr*: clients of other programs; the ladder sees their
  bodies and errors, all of which `RenderLadder` enumerates.
* *Capture and idle pumps of the CDP tier*: they read events and change nothing. The pump's
  exits while the connection is held cannot be reached.
* *PDFs in the scrape pipeline*: their branch (`single.rs:352`) parses, never escalates, and
  stores what it has, a thin document too; `OnlyGoodPagesKept` is about HTML.
* *The permits of the extraction pool* (`extract_pool.rs`): one semaphore around a blocking
  call, freed by the closure.
* *The judge of a monitor* (a language model's annotation), cron arithmetic (`Interval`, or a
  schedule that does not parse), duplicate URLs in one target.
* *Search, research, extract jobs, `discover_urls`, sitemaps*: one warm tab behind a mutex,
  fan-outs with time-outs, a job that writes its record once.
* *MCP, command line, HTTP adapters, configuration*: no state.
* *The language model call* of a crawl page: an await that changes no shared state.
* *Text.* Detectors, extraction, robots patterns and normalisation are verdicts and
  tables; what the verdicts lead to is modelled.

## Plan

In the order of what can go wrong most:

1. `Breaker`, `CooldownGate`, `CircuitBreaker`, `BreakerRegistry`, `BreakerProofs` — done.
2. `FetchPromise`, `RenderLadder`, `SmartFetch`, `HttpFetch`, `FetchProofs` — done.
3. `HostLines`, `HostLimiter`, `HostLimiterProofs` — done.
4. `JobProgress`, `CrawlProgress`, `Crawl`, `CrawlJobs`, `CrawlProofs` — done.
5. `Scrape` with the page cache, `ScrapeProofs` — done.
6. `CdpConnection`, `CdpRender`, `CdpProofs` — done.
7. `BrowserPool`, `BrowserPoolProofs` — done.
8. `Monitor`, `MonitorProofs` — done.
9. To write: `ExtractJobs` beside `CrawlJobs`; `HostPreferences` and `ClearanceCache` where they
   choose in `SmartFetch`; `SearchTab`; `discover_urls`.
