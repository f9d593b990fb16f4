-------------------------------- MODULE Crawl --------------------------------
(***************************************************************************)
(* run_crawl of crawl.rs: one breadth-first crawl.  Pages are fetched one   *)
(* at a time, in the order they were found; a URL is fetched in the         *)
(* spelling a page linked it by, and deduplicated on its normal form.       *)
(*                                                                          *)
(* What the network answers is chosen at each fetch: whether there is a     *)
(* page, which links it has, whether it is extracted and how it is judged.  *)
(***************************************************************************)
EXTENDS JobProgress, Sequences, FiniteSets, Functions, SequencesExt

CONSTANTS
  Urls,         \* URLs as pages spell them
  Key,          \* normalize_url: the canonical key of each
  Seed,         \* the URL the request names
  Followable,   \* same origin, safe, no static asset
  PageLimits,   \* the values of max_pages tried (at most 1000 in the code)
  DepthLimits,  \* the values of max_depth tried
  MaxDepth,     \* the deepest max_depth a request gets (10)
  LinkCap,      \* links of one page (bound of the model)
  RuleCap       \* URLs robots.txt disallows (bound of the model)

ASSUME UrlsAssumption ==
  /\ Seed \in Urls
  /\ Followable \subseteq Urls

ASSUME LimitsAssumption ==
  /\ PageLimits \subseteq Nat
  /\ MaxDepth \in Nat
  /\ DepthLimits \subseteq 0 .. MaxDepth
  /\ LinkCap \in Nat

ASSUME KeyAssumption == DOMAIN Key = Urls

VARIABLES
  asked,      \* the request: pages and depth
  phase,      \* where the task stands, between two awaits
  rules,      \* robots.txt: the URLs it disallows
  queue,      \* VecDeque<(url, depth)>
  visited,    \* HashSet of keys
  cur,        \* the page being worked on
  links,      \* its links, not looked at yet
  results,    \* documents so far: url and whether it is blocked
  blocked,    \* how many of them are blocked
  pub,        \* what was last sent on the watch channel
  foundAt,    \* history: the depth each key was enqueued at
  nearest     \* history: the least depth any page offered it at

vars == << asked, phase, rules, queue, visited, cur, links, results, blocked, pub, foundAt,
           nearest >>

Keys == { Key[u] : u \in Urls }

(* Deeper than any depth: never offered. *)
Far == MaxDepth + 1

Item(u, d) == [ url |-> u, depth |-> d ]

MaxKnown == IF asked.pages = 0 THEN 1 ELSE asked.pages

-----------------------------------------------------------------------------

Init ==
  /\ asked \in [ pages : PageLimits, depth : DepthLimits ]
  /\ phase = "checking"
  /\ rules = {}
  /\ queue = << >>
  /\ visited = {}
  /\ cur = Item(Seed, 0)
  /\ links = << >>
  /\ results = << >>
  /\ blocked = 0
  /\ pub = FreshProgress(0)
  /\ foundAt = [ k \in Keys |-> Far ]
  /\ nearest = [ k \in Keys |-> Far ]

(* The seed does not parse, has no host, or resolves to an unsafe address. *)
Refuse ==
  /\ phase = "checking"
  /\ phase' = "ended"
  /\ pub' = FailedProgress
  /\ UNCHANGED << asked, rules, queue, visited, cur, links, results, blocked, foundAt, nearest >>

(* The seed is a safe URL: its robots.txt is asked for. *)
Accept ==
  /\ phase = "checking"
  /\ phase' = "robots"
  /\ UNCHANGED << asked, rules, queue, visited, cur, links, results, blocked, pub, foundAt, nearest >>

(* Mutant: a robots.txt that never answers holds the crawl. *)
MutRobotsAnswer == {}

(* With no rules the fetch failed, timed out, or is not wanted: fails open. *)
RobotsAnswer == { r \in SUBSET Urls : Cardinality(r) <= RuleCap }

LoadRobots ==
  /\ phase = "robots"
  /\ rules' \in RobotsAnswer
  /\ phase' = "next"
  /\ queue' = << Item(Seed, 0) >>
  /\ visited' = {Key[Seed]}
  /\ foundAt' = [ foundAt EXCEPT ![Key[Seed]] = 0 ]
  /\ nearest' = [ nearest EXCEPT ![Key[Seed]] = 0 ]
  /\ UNCHANGED << asked, cur, links, results, blocked, pub >>

(* The loop pops a page that robots.txt disallows: skipped, not reported. *)
SkipDisallowed ==
  /\ phase = "next"
  /\ queue # << >>
  /\ Len(results) < asked.pages
  /\ Head(queue).url \in rules
  /\ queue' = Tail(queue)
  /\ UNCHANGED << asked, phase, rules, visited, cur, links, results, blocked, pub, foundAt, nearest >>

(* The loop pops a page and fetches it, up to its own deadline. *)
Fetch ==
  /\ phase = "next"
  /\ queue # << >>
  /\ Len(results) < asked.pages
  /\ Head(queue).url \notin rules
  /\ cur' = Head(queue)
  /\ queue' = Tail(queue)
  /\ phase' = "fetching"
  /\ UNCHANGED << asked, rules, visited, links, results, blocked, pub, foundAt, nearest >>

BlockedAfter(b, isBlocked) == IF isBlocked THEN b + 1 ELSE b

(* A document joins the results and the progress goes out without documents. *)
Report(isBlocked) ==
  /\ results' = Append(results, [ url |-> cur.url, block |-> isBlocked ])
  /\ blocked' = BlockedAfter(blocked, isBlocked)
  /\ pub' = [ status |-> "InProgress", total |-> Cardinality(visited),
              completed |-> Len(results'), blocked |-> blocked', docs |-> 0 ]
  /\ phase' = "next"

(* push_failed_page on a fetch error, an unclearable wall or a CDN error: no  *)
(* links are taken.                                                           *)
FetchFails ==
  /\ phase = "fetching"
  /\ Report(TRUE)
  /\ UNCHANGED << asked, rules, queue, visited, cur, links, foundAt, nearest >>

(* Mutant: the same page in another spelling counts as new. *)
MutUnseen(u, v, q) == u \notin { q[i].url : i \in DOMAIN q }

Unseen(u, v, q) == Key[u] \notin v

Room(v) == Cardinality(v) < asked.pages

Enqueued(q, item) == Append(q, item)

(* Mutant: the last level is cut off. *)
MutFollows(depth) == depth + 1 < asked.depth

Follows(depth) == depth < asked.depth

PageLinks == UNION { { s \in [ 1 .. n -> Urls ] : IsInjective(s) } : n \in 0 .. LinkCap }

(* A page arrives, a wall that carries content or an error page included: its *)
(* links are taken before it is extracted, unless it is at the depth limit.   *)
FetchArrives(ls) ==
  LET offered == IF cur.depth < asked.depth THEN { Key[u] : u \in Followable \cap ToSet(ls) } ELSE {}
  IN  /\ phase = "fetching"
      /\ phase' = "linking"
      /\ links' = IF Follows(cur.depth) THEN ls ELSE << >>
      /\ nearest' = [ k \in Keys |-> IF k \in offered /\ cur.depth + 1 < nearest[k]
                                     THEN cur.depth + 1 ELSE nearest[k] ]
      /\ UNCHANGED << asked, rules, queue, visited, cur, results, blocked, pub, foundAt >>

(* enqueue_discovered_links looks at the next link; it does not await.        *)
TakeLink ==
  /\ phase = "linking"
  /\ links # << >>
  /\ links' = Tail(links)
  /\ LET u == Head(links)
     IN  IF u \in Followable /\ Unseen(u, visited, queue) /\ Room(visited)
         THEN /\ queue' = Enqueued(queue, Item(u, cur.depth + 1))
              /\ visited' = visited \cup {Key[u]}
              /\ foundAt' = [ foundAt EXCEPT ![Key[u]] = cur.depth + 1 ]
         ELSE UNCHANGED << queue, visited, foundAt >>
  /\ UNCHANGED << asked, phase, rules, cur, results, blocked, pub, nearest >>

(* Every link was looked at: the page waits for its extraction. *)
LinksDone ==
  /\ phase = "linking"
  /\ links = << >>
  /\ phase' = "extracting"
  /\ UNCHANGED << asked, rules, queue, visited, cur, links, results, blocked, pub, foundAt, nearest >>

(* The document is extracted and judged, or the extraction fails, which makes *)
(* it a failed page.                                                          *)
Extracted(isBlocked) ==
  /\ phase = "extracting"
  /\ Report(isBlocked)
  /\ UNCHANGED << asked, rules, queue, visited, cur, links, foundAt, nearest >>

(* Mutant: the total is what was fetched, not what was known. *)
MutFinalTotal == Len(results)

FinalTotal == Cardinality(visited)

(* The queue is empty or the limit is reached: every document ships. *)
Complete ==
  /\ phase = "next"
  /\ queue = << >> \/ Len(results) >= asked.pages
  /\ phase' = "ended"
  /\ pub' = [ status |-> "Completed", total |-> FinalTotal,
              completed |-> Len(results), blocked |-> blocked, docs |-> Len(results) ]
  /\ UNCHANGED << asked, rules, queue, visited, cur, links, results, blocked, foundAt, nearest >>

(* The job is aborted: its task is dropped at an await. *)
Abort ==
  /\ phase \in {"checking", "robots", "fetching", "extracting"}
  /\ phase' = "dropped"
  /\ UNCHANGED << asked, rules, queue, visited, cur, links, results, blocked, pub, foundAt, nearest >>

Step ==
  \/ Refuse \/ Accept \/ LoadRobots \/ SkipDisallowed \/ Fetch \/ FetchFails
  \/ \E ls \in PageLinks : FetchArrives(ls)
  \/ TakeLink \/ LinksDone
  \/ \E b \in BOOLEAN : Extracted(b)
  \/ Complete

Next == Step \/ Abort

Spec == Init /\ [][Next]_vars

(* Every await of the task ends: a fetch at its deadline, robots.txt at its   *)
(* timeouts, the extraction with its work.                                    *)
FairSpec == Spec /\ WF_vars(Step)

-----------------------------------------------------------------------------

(* Every variable keeps its type, and the crawl knows no more URLs than its   *)
(* page limit (crawl.rs run_crawl_inner).                                     *)
TypeOK ==
  /\ asked \in [ pages : PageLimits, depth : DepthLimits ]
  /\ phase \in {"checking", "robots", "next", "fetching", "linking", "extracting", "ended",
               "dropped"}
  /\ rules \in SUBSET Urls
  /\ \A i \in DOMAIN queue : queue[i] \in [ url : Urls, depth : 0 .. asked.depth ]
  /\ visited \in SUBSET Keys
  /\ Cardinality(visited) <= MaxKnown
  /\ cur \in [ url : Urls, depth : 0 .. asked.depth ]
  /\ links \in Seq(Urls)
  /\ results \in Seq([ url : Urls, block : BOOLEAN ])
  /\ blocked \in 0 .. Len(results)
  /\ pub \in Progress(MaxKnown)
  /\ foundAt \in [ Keys -> 0 .. Far ]
  /\ nearest \in [ Keys -> 0 .. Far ]

(* No page is reported, and so billed, twice, however many spellings its      *)
(* links have (crawl.rs enqueue_discovered_links).                            *)
ReportedOnce == IsInjective([ i \in DOMAIN results |-> Key[results[i].url] ])

(* A page is crawled at the least depth any fetched page offers it at, so the *)
(* depth limit cuts off no page a shorter path reaches (crawl.rs, BFS order). *)
ShortestDepth == \A k \in visited : foundAt[k] = nearest[k]

(* A completed crawl left out a page it was offered within the depth limit    *)
(* only because the page limit was reached.                                   *)
NothingMissed ==
  pub.status = "Completed" =>
    \/ Cardinality(visited) = MaxKnown
    \/ \A k \in Keys : nearest[k] <= asked.depth => k \in visited

(* What a poll bills, completed - blocked, is the number of documents without *)
(* a block, on every path a page can end on.                                  *)
BillsWhatItDelivers ==
  pub.status \in {"InProgress", "Completed"} =>
    pub.completed - pub.blocked =
      Cardinality({ i \in 1 .. pub.completed : ~results[i].block })

(* What a poll finds: pages reported once each and billed for what they are. *)
ReportIsSound == TypeOK /\ ReportedOnce /\ BillsWhatItDelivers

(* The crawl goes where a breadth-first search goes, within its limits.       *)
CoversTheSite == ShortestDepth /\ NothingMissed

Promise == INSTANCE CrawlProgress WITH max <- MaxKnown

(* What a crawl publishes is what CrawlProgress promises its pollers: no      *)
(* counter ever falls, nothing follows the end, the documents ship once.      *)
KeepsPromise == Promise!ProgressSpec

(* A crawl nobody aborts ends, whatever the site answers: a crawl that hung   *)
(* would hold one of the process-wide permits and never be evicted            *)
(* (crawl.rs:259-261).                                                        *)
CrawlEnds == <>(phase \in {"ended", "dropped"})
=============================================================================
