----------------------------- MODULE CrawlProofs -----------------------------
(***************************************************************************)
(* A crawl and the job table that runs it, for any site, any spellings of  *)
(* its links, any limits, and any number of jobs, permits and pages.       *)
(*                                                                         *)
(* What carries the crawl: its queue is in the order of its depths, which  *)
(* span the level of the page in hand and the next (QueueSound); reported, *)
(* in hand and waiting are different keys (Apart), fewer than are known    *)
(* (Counted); and while there is room, what was offered is known (Near).   *)
(* What carries the table: a crawl nobody cancelled published its own      *)
(* counters, and what left the table has said its last word (Told).        *)
(***************************************************************************)
EXTENDS Crawl, CrawlJobs, FiniteSetTheorems, SequenceTheorems, TLAPS

(* An element of a sequence. *)
LEMMA Element ==
  ASSUME NEW S, NEW q \in Seq(S), NEW i \in 1 .. Len(q)
  PROVE  q[i] \in S
OBVIOUS

(* A sequence with one element more. *)
LEMMA Longer ==
  ASSUME NEW S, NEW q \in Seq(S), NEW e \in S, NEW p, p = Append(q, e)
  PROVE  /\ p \in Seq(S) /\ Len(p) = Len(q) + 1 /\ Len(q) \in Nat
         /\ p[Len(q) + 1] = e /\ \A i \in 1 .. Len(q) : p[i] = q[i]
         /\ \A i \in 1 .. Len(p) : i \in 1 .. Len(q) \/ i = Len(q) + 1
         /\ Len(q) + 1 \in 1 .. Len(p)
<1>0. /\ Append(q, e) \in Seq(S) /\ Len(Append(q, e)) = Len(q) + 1 /\ Len(q) \in Nat
      /\ Append(q, e)[Len(q) + 1] = e /\ \A i \in 1 .. Len(q) : Append(q, e)[i] = q[i]
  OBVIOUS
<1>1. /\ p \in Seq(S) /\ Len(p) = Len(q) + 1 /\ Len(q) \in Nat
      /\ p[Len(q) + 1] = e /\ \A i \in 1 .. Len(q) : p[i] = q[i]
  BY <1>0
<1>2. \A i \in 1 .. Len(p) : i \in 1 .. Len(q) \/ i = Len(q) + 1
  BY <1>1
<1>3. Len(q) + 1 \in 1 .. Len(p)
  BY <1>1
<1> QED
  BY <1>1, <1>2, <1>3

(* A sequence without its head. *)
LEMMA Shorter ==
  ASSUME NEW S, NEW q \in Seq(S), q # << >>, NEW p, p = Tail(q)
  PROVE  /\ p \in Seq(S) /\ Len(p) = Len(q) - 1 /\ Len(q) \in Nat /\ Len(q) >= 1
         /\ 1 \in 1 .. Len(q) /\ Head(q) = q[1]
         /\ \A i \in 1 .. Len(p) : p[i] = q[i + 1] /\ i + 1 \in 1 .. Len(q)
         /\ \A i \in 1 .. Len(q) : i = 1 \/ (i - 1 \in 1 .. Len(p) /\ p[i - 1] = q[i])
OBVIOUS

-----------------------------------------------------------------------------

(* A page is being worked on. *)
Busy == phase \in {"fetching", "linking", "extracting"}

KeyOf(item) == Key[item.url]

(* The queue is in the order of its depths, which span one level: that of    *)
(* the page last fetched and the next.                                       *)
QueueSound ==
  /\ queue \in Seq([ url : Urls, depth : 0 .. asked.depth ])
  /\ \A i \in 1 .. Len(queue) :
       /\ KeyOf(queue[i]) \in visited
       /\ cur.depth <= queue[i].depth
       /\ queue[i].depth <= cur.depth + 1
  /\ \A i, j \in 1 .. Len(queue) :
       /\ KeyOf(queue[i]) = KeyOf(queue[j]) => i = j
       /\ i <= j => queue[i].depth <= queue[j].depth

(* What was reported, what is being worked on and what waits are pages of    *)
(* different keys, all of them visited.                                      *)
Apart ==
  /\ \A i \in 1 .. Len(results) : KeyOf(results[i]) \in visited
  /\ \A i, j \in 1 .. Len(results) : KeyOf(results[i]) = KeyOf(results[j]) => i = j
  /\ \A i \in 1 .. Len(results), j \in 1 .. Len(queue) : KeyOf(results[i]) # KeyOf(queue[j])
  /\ Busy => /\ KeyOf(cur) \in visited
             /\ \A i \in 1 .. Len(results) : KeyOf(results[i]) # KeyOf(cur)
             /\ \A j \in 1 .. Len(queue) : KeyOf(queue[j]) # KeyOf(cur)

InHand == IF Busy THEN 1 ELSE 0

(* There are as many keys as pages reported, worked on and waiting.          *)
Counted ==
  /\ IsFiniteSet(visited)
  /\ Len(results) + Len(queue) + InHand <= Cardinality(visited)
  /\ Cardinality(visited) <= MaxKnown

(* While there is room, what was offered is known, or among the links that   *)
(* are still to be taken; what is known was found as near as it was offered. *)
Near ==
  /\ \A k \in visited : foundAt[k] = nearest[k] /\ foundAt[k] <= cur.depth + 1
  /\ Room(visited) => \A k \in Keys :
       nearest[k] # Far => \/ k \in visited
                           \/ /\ phase = "linking"
                              /\ \E i \in 1 .. Len(links) : links[i] \in Followable /\ Key[links[i]] = k
  /\ phase = "linking" /\ Room(visited) => \A i \in 1 .. Len(links) :
       links[i] \in Followable /\ Key[links[i]] \notin visited => nearest[Key[links[i]]] = cur.depth + 1
  /\ links # << >> => cur.depth < asked.depth /\ phase = "linking"

(* How many documents are not blocked. *)
Clear == { i \in 1 .. Len(results) : ~results[i].block }

(* What is published is what there is. *)
Published ==
  /\ pub.status # "Failed" => pub.completed = Len(results) /\ pub.blocked = blocked
  /\ pub.status = "Failed" => pub = FailedProgress
  /\ pub.total <= Cardinality(visited)
  /\ IsFiniteSet(Clear) /\ Len(results) - blocked = Cardinality(Clear)
  /\ phase \notin {"ended", "dropped"} => pub.status = "InProgress"
  /\ pub.status = "Completed" => phase = "ended"
  /\ phase \in {"checking", "robots"} =>
       /\ pub = FreshProgress(0) /\ results = << >> /\ queue = << >> /\ visited = {}
       /\ cur.depth = 0
  /\ phase = "next" \/ Busy \/ pub.status = "Completed" => visited # {}

CrawlTyped ==
  /\ asked \in [ pages : PageLimits, depth : DepthLimits ]
  /\ phase \in {"checking", "robots", "next", "fetching", "linking", "extracting", "ended",
               "dropped"}
  /\ rules \in SUBSET Urls
  /\ visited \in SUBSET Keys
  /\ cur \in [ url : Urls, depth : 0 .. asked.depth ]
  /\ links \in Seq(Urls)
  /\ results \in Seq([ url : Urls, block : BOOLEAN ])
  /\ blocked \in 0 .. Len(results)
  /\ pub \in Progress(MaxKnown)
  /\ foundAt \in [ Keys -> 0 .. Far ]
  /\ nearest \in [ Keys -> 0 .. Far ]

CrawlInv == CrawlTyped /\ QueueSound /\ Apart /\ Counted /\ Near /\ Published

(* What CrawlProgress lets a crawl publish. *)
ProgressOf ==
  /\ \/ pub.status = "InProgress" /\ pub' \in AdvancesOf(pub, MaxKnown)
     \/ pub.status = "InProgress" /\ pub' \in FinishesOf(pub, MaxKnown)
     \/ pub = FreshProgress(0) /\ pub' = FailedProgress
  /\ MaxKnown' = MaxKnown

LEMMA InitCrawlInv == Init => CrawlInv
<1> SUFFICES ASSUME Init
             PROVE  CrawlInv
  OBVIOUS
<1>1. /\ asked \in [ pages : PageLimits, depth : DepthLimits ]
      /\ phase = "checking" /\ rules = {} /\ queue = << >> /\ visited = {}
      /\ cur = [ url |-> Seed, depth |-> 0 ] /\ links = << >> /\ results = << >>
      /\ blocked = 0
      /\ pub = [ status |-> "InProgress", total |-> 0, completed |-> 0, blocked |-> 0, docs |-> 0 ]
      /\ foundAt = [ k \in Keys |-> Far ]
      /\ nearest = [ k \in Keys |-> Far ]
  BY DEF Init, Item, FreshProgress
<1>2. asked.pages \in Nat /\ asked.depth \in Nat /\ MaxKnown \in Nat \ {0}
  <2>1. asked.pages \in PageLimits /\ asked.depth \in DepthLimits
    BY <1>1
  <2>2. asked.pages \in Nat /\ asked.depth \in 0 .. MaxDepth
    BY <2>1, LimitsAssumption
  <2>3. asked.depth \in Nat
    BY <2>2
  <2> QED
    BY <2>2, <2>3 DEF MaxKnown
<1>3. /\ << >> \in Seq(Urls) /\ << >> \in Seq([ url : Urls, block : BOOLEAN ])
      /\ << >> \in Seq([ url : Urls, depth : 0 .. asked.depth ])
      /\ Len(<< >>) = 0 /\ 1 .. 0 = {}
  OBVIOUS
<1>4. /\ \A i \in 1 .. Len(queue) : FALSE
      /\ \A i \in 1 .. Len(results) : FALSE
      /\ \A i \in 1 .. Len(links) : FALSE
      /\ Len(queue) = 0 /\ Len(results) = 0
  BY <1>1, <1>3
<1>5. pub \in Progress(MaxKnown)
  BY <1>1, <1>2 DEF Progress, Statuses
<1>6. CrawlTyped
  BY <1>1, <1>2, <1>3, <1>4, <1>5, LimitsAssumption, UrlsAssumption DEF CrawlTyped, Far
<1>7. QueueSound
  BY <1>1, <1>3, <1>4 DEF QueueSound
<1>8. ~Busy
  BY <1>1 DEF Busy
<1>9. Apart
  BY <1>4, <1>8 DEF Apart
<1>10. IsFiniteSet(visited) /\ Cardinality(visited) = 0
  BY <1>1, FS_EmptySet
<1>11. Counted
  BY <1>2, <1>4, <1>8, <1>10 DEF Counted, InHand
<1>12. Near
  BY <1>1 DEF Near
<1>13. IsFiniteSet(Clear) /\ Cardinality(Clear) = 0
  <2>1. Clear = {}
    BY <1>4 DEF Clear
  <2> QED
    BY <2>1, FS_EmptySet
<1>14. Published
  BY <1>1, <1>4, <1>8, <1>10, <1>13 DEF Published, FreshProgress
<1> QED
  BY <1>6, <1>7, <1>9, <1>11, <1>12, <1>14 DEF CrawlInv

(* The numbers of the invariant. *)
LEMMA CrawlNumbers ==
  ASSUME CrawlInv
  PROVE  /\ asked.pages \in Nat /\ asked.depth \in 0 .. MaxDepth /\ MaxDepth \in Nat
         /\ MaxKnown \in Nat \ {0}
         /\ cur.depth \in Nat /\ cur.depth <= asked.depth
         /\ Len(queue) \in Nat /\ Len(results) \in Nat /\ Len(links) \in Nat
         /\ Cardinality(visited) \in Nat
         /\ blocked \in Nat /\ blocked <= Len(results)
         /\ InHand \in {0, 1}
         /\ Len(results) <= MaxKnown
<1>1. /\ asked.pages \in Nat /\ asked.depth \in 0 .. MaxDepth /\ MaxDepth \in Nat
  BY LimitsAssumption DEF CrawlInv, CrawlTyped
<1>2. MaxKnown \in Nat \ {0}
  BY <1>1 DEF MaxKnown
<1>3. cur.depth \in Nat /\ cur.depth <= asked.depth
  BY <1>1 DEF CrawlInv, CrawlTyped
<1>4. Len(queue) \in Nat /\ Len(results) \in Nat /\ Len(links) \in Nat
  <2>1. /\ queue \in Seq([ url : Urls, depth : 0 .. asked.depth ])
        /\ links \in Seq(Urls)
        /\ results \in Seq([ url : Urls, block : BOOLEAN ])
    BY DEF CrawlInv, QueueSound, CrawlTyped
  <2> QED
    BY <2>1
<1>5. Cardinality(visited) \in Nat
  BY FS_CardinalityType DEF CrawlInv, Counted
<1>6. blocked \in Nat /\ blocked <= Len(results)
  BY <1>4 DEF CrawlInv, CrawlTyped
<1>7. InHand \in {0, 1}
  BY DEF InHand
<1>8. Len(results) <= MaxKnown
  BY <1>2, <1>4, <1>5, <1>7 DEF CrawlInv, Counted
<1> QED
  BY <1>1, <1>2, <1>3, <1>4, <1>5, <1>6, <1>7, <1>8

(* Only the phase changes, and what is published: no page is taken up.       *)
LEMMA PhaseInv ==
  ASSUME CrawlInv, Refuse \/ Accept \/ Abort
  PROVE  CrawlInv'
<1>1. /\ asked' = asked /\ rules' = rules /\ queue' = queue /\ visited' = visited
      /\ cur' = cur /\ links' = links /\ results' = results /\ blocked' = blocked
      /\ foundAt' = foundAt /\ nearest' = nearest
      /\ phase \in {"checking", "robots", "fetching", "extracting"}
      /\ phase' \in {"ended", "robots", "dropped"}
      /\ phase' = "robots" => phase = "checking"
      /\ phase' = "ended" => pub' = FailedProgress
      /\ phase' # "ended" => pub' = pub
  BY DEF Refuse, Accept, Abort
<1>2. MaxKnown' = MaxKnown /\ MaxKnown \in Nat
  BY <1>1, CrawlNumbers DEF MaxKnown
<1>3. CrawlTyped'
  <2>1. FailedProgress \in Progress(MaxKnown)
    BY <1>2 DEF FailedProgress, Progress, Statuses
  <2>2. pub' \in Progress(MaxKnown)
    BY <1>1, <2>1 DEF CrawlInv, CrawlTyped
  <2> QED
    BY <1>1, <1>2, <2>2 DEF CrawlInv, CrawlTyped
<1>4. QueueSound'
  BY <1>1 DEF CrawlInv, QueueSound, KeyOf
<1>5. ~Busy'
  BY <1>1 DEF Busy
<1>6. Apart'
  BY <1>1, <1>5 DEF CrawlInv, Apart, KeyOf
<1>7. Counted'
  BY <1>1, <1>2, <1>5, CrawlNumbers DEF CrawlInv, Counted, InHand
<1>8. Near'
  BY <1>1 DEF CrawlInv, Near, Room
<1>9. Published'
  <2>1. Clear' = Clear
    BY <1>1 DEF Clear
  <2>2. FailedProgress.status = "Failed" /\ FailedProgress.total = 0
    BY DEF FailedProgress
  <2>3. CASE phase' = "ended"
    BY <1>1, <1>5, <2>1, <2>2, <2>3, CrawlNumbers DEF CrawlInv, Published
  <2>4. CASE phase' # "ended"
    BY <1>1, <1>5, <2>1, <2>4 DEF CrawlInv, Published
  <2> QED
    BY <2>3, <2>4
<1> QED
  BY <1>3, <1>4, <1>6, <1>7, <1>8, <1>9 DEF CrawlInv

(* The seed is the only key known. *)
LEMMA LoadRobotsInv ==
  ASSUME CrawlInv, LoadRobots
  PROVE  CrawlInv'
<1> DEFINE seed == [ url |-> Seed, depth |-> 0 ]
<1>1. /\ asked' = asked /\ cur' = cur /\ links' = links /\ results' = results
      /\ blocked' = blocked /\ pub' = pub
      /\ phase = "robots" /\ phase' = "next"
      /\ queue' = << seed >> /\ visited' = {Key[Seed]}
      /\ foundAt' = [ foundAt EXCEPT ![Key[Seed]] = 0 ]
      /\ nearest' = [ nearest EXCEPT ![Key[Seed]] = 0 ]
      /\ rules' \in SUBSET Urls
  BY DEF LoadRobots, RobotsAnswer, Item
<1>2. /\ pub = FreshProgress(0) /\ results = << >> /\ cur.depth = 0 /\ visited = {}
  BY <1>1 DEF CrawlInv, Published
<1>3. MaxKnown' = MaxKnown /\ MaxKnown \in Nat \ {0} /\ asked.depth \in Nat
  BY <1>1, CrawlNumbers DEF MaxKnown
<1>4. Key[Seed] \in Keys /\ seed \in [ url : Urls, depth : 0 .. asked.depth ]
  BY <1>3, UrlsAssumption DEF Keys
<1>5. CrawlTyped'
  <2>1. foundAt' \in [ Keys -> 0 .. Far ] /\ nearest' \in [ Keys -> 0 .. Far ]
    BY <1>1, <1>4, LimitsAssumption DEF CrawlInv, CrawlTyped, Far
  <2> QED
    BY <1>1, <1>3, <1>4, <2>1 DEF CrawlInv, CrawlTyped
<1>6. /\ queue' \in Seq([ url : Urls, depth : 0 .. asked.depth ])
      /\ Len(queue') = 1 /\ queue'[1] = seed
      /\ \A i \in 1 .. Len(queue') : i = 1 /\ queue'[i] = seed
  <2>1. << seed >> \in Seq([ url : Urls, depth : 0 .. asked.depth ])
    BY <1>4
  <2>2. Len(<< seed >>) = 1 /\ << seed >>[1] = seed
    OBVIOUS
  <2>3. \A i \in 1 .. 1 : i = 1
    OBVIOUS
  <2> QED
    BY <1>1, <2>1, <2>2, <2>3
<1>7. QueueSound'
  BY <1>1, <1>2, <1>6 DEF QueueSound, KeyOf
<1>8. ~Busy'
  BY <1>1 DEF Busy
<1>9. Len(results) = 0 /\ \A i \in 1 .. Len(results) : FALSE
  BY <1>2
<1>10. Apart'
  BY <1>1, <1>8, <1>9 DEF Apart
<1>11. IsFiniteSet(visited') /\ Cardinality(visited') = 1
  BY <1>1, FS_Singleton
<1>12. Counted'
  BY <1>1, <1>3, <1>6, <1>8, <1>9, <1>11 DEF Counted, InHand
<1>13. Near'
  <2>1. links = << >>
    BY <1>1 DEF CrawlInv, Near
  <2>2. \A k \in visited' : foundAt'[k] = 0 /\ nearest'[k] = 0
    BY <1>1, <1>4 DEF CrawlInv, CrawlTyped
  <2>3. \A k \in Keys \ visited' : Room(visited') => nearest'[k] = Far
    <3>1. Room(visited') => Room(visited)
      BY <1>2, <1>11, FS_EmptySet, CrawlNumbers DEF Room
    <3>2. \A k \in Keys \ visited' : nearest'[k] = nearest[k] /\ k \notin visited
      BY <1>1, <1>2 DEF CrawlInv, CrawlTyped
    <3> QED
      BY <1>1, <3>1, <3>2 DEF CrawlInv, Near
  <2>4. \A k \in visited' : foundAt'[k] = nearest'[k] /\ foundAt'[k] <= cur.depth + 1
    BY <1>2, <2>2
  <2>5. links' = << >> /\ phase' # "linking"
    BY <1>1, <2>1
  <2> QED
    BY <1>1, <2>3, <2>4, <2>5 DEF Near, Room
<1>14. Published'
  <2>1. Clear' = Clear
    BY <1>1 DEF Clear
  <2>2. pub.status = "InProgress" /\ pub.total = 0
    BY <1>2 DEF FreshProgress
  <2> QED
    BY <1>1, <1>2, <1>8, <1>11, <2>1, <2>2 DEF CrawlInv, Published
<1> QED
  BY <1>5, <1>7, <1>10, <1>12, <1>13, <1>14 DEF CrawlInv

(* What waits behind the head of the queue. *)
LEMMA Popped ==
  ASSUME CrawlInv, queue # << >>, NEW p, p = Tail(queue)
  PROVE  /\ Head(queue) = queue[1] /\ 1 \in 1 .. Len(queue)
         /\ p \in Seq([ url : Urls, depth : 0 .. asked.depth ]) /\ Len(p) = Len(queue) - 1
         /\ \A i \in 1 .. Len(p) :
              /\ KeyOf(p[i]) \in visited
              /\ KeyOf(p[i]) # KeyOf(queue[1])
              /\ queue[1].depth <= p[i].depth
              /\ p[i].depth <= cur.depth + 1
         /\ \A i, j \in 1 .. Len(p) :
              /\ KeyOf(p[i]) = KeyOf(p[j]) => i = j
              /\ i <= j => p[i].depth <= p[j].depth
         /\ \A i \in 1 .. Len(results), j \in 1 .. Len(p) : KeyOf(results[i]) # KeyOf(p[j])
<1>1. queue \in Seq([ url : Urls, depth : 0 .. asked.depth ])
  BY DEF CrawlInv, QueueSound
<1>2. /\ p \in Seq([ url : Urls, depth : 0 .. asked.depth ])
      /\ Len(p) = Len(queue) - 1 /\ Len(queue) \in Nat /\ Len(queue) >= 1
      /\ 1 \in 1 .. Len(queue) /\ Head(queue) = queue[1]
      /\ \A i \in 1 .. Len(p) : p[i] = queue[i + 1] /\ i + 1 \in 1 .. Len(queue)
  BY <1>1, Shorter
<1>3. ASSUME NEW i \in 1 .. Len(p)
      PROVE  /\ KeyOf(p[i]) \in visited
             /\ KeyOf(p[i]) # KeyOf(queue[1])
             /\ queue[1].depth <= p[i].depth
             /\ p[i].depth <= cur.depth + 1
  <2>1. p[i] = queue[i + 1] /\ i + 1 \in 1 .. Len(queue) /\ 1 <= i + 1 /\ i + 1 # 1
    BY <1>2
  <2> QED
    BY <1>2, <2>1 DEF CrawlInv, QueueSound
<1>4. ASSUME NEW i \in 1 .. Len(p), NEW j \in 1 .. Len(p)
      PROVE  /\ KeyOf(p[i]) = KeyOf(p[j]) => i = j
             /\ i <= j => p[i].depth <= p[j].depth
  <2>1. /\ p[i] = queue[i + 1] /\ i + 1 \in 1 .. Len(queue)
        /\ p[j] = queue[j + 1] /\ j + 1 \in 1 .. Len(queue)
        /\ i + 1 = j + 1 => i = j
        /\ i <= j => i + 1 <= j + 1
    BY <1>2
  <2> QED
    BY <2>1 DEF CrawlInv, QueueSound
<1>5. \A i \in 1 .. Len(results), j \in 1 .. Len(p) : KeyOf(results[i]) # KeyOf(p[j])
  BY <1>2 DEF CrawlInv, Apart
<1> QED
  BY <1>2, <1>3, <1>4, <1>5

(* A page that robots.txt disallows leaves the queue. *)
LEMMA SkipInv ==
  ASSUME CrawlInv, SkipDisallowed
  PROVE  CrawlInv'
<1>1. /\ asked' = asked /\ phase' = phase /\ rules' = rules /\ visited' = visited
      /\ cur' = cur /\ links' = links /\ results' = results /\ blocked' = blocked /\ pub' = pub
      /\ foundAt' = foundAt /\ nearest' = nearest
      /\ phase = "next" /\ queue # << >> /\ queue' = Tail(queue)
  BY DEF SkipDisallowed
<1>2. MaxKnown' = MaxKnown
  BY <1>1 DEF MaxKnown
<1>3. /\ Len(queue') = Len(queue) - 1 /\ 1 \in 1 .. Len(queue)
      /\ queue' \in Seq([ url : Urls, depth : 0 .. asked.depth ])
      /\ \A i \in 1 .. Len(queue') :
           /\ KeyOf(queue'[i]) \in visited
           /\ queue[1].depth <= queue'[i].depth
           /\ queue'[i].depth <= cur.depth + 1
      /\ \A i, j \in 1 .. Len(queue') :
           /\ KeyOf(queue'[i]) = KeyOf(queue'[j]) => i = j
           /\ i <= j => queue'[i].depth <= queue'[j].depth
      /\ \A i \in 1 .. Len(results), j \in 1 .. Len(queue') : KeyOf(results[i]) # KeyOf(queue'[j])
  BY <1>1, Popped
<1>4. CrawlTyped'
  BY <1>1, <1>2 DEF CrawlInv, CrawlTyped
<1>5. QueueSound'
  <2>1. cur.depth <= queue[1].depth /\ queue[1].depth \in Nat /\ cur.depth \in Nat
    <3>1. queue \in Seq([ url : Urls, depth : 0 .. asked.depth ])
      BY DEF CrawlInv, QueueSound
    <3>2. queue[1] \in [ url : Urls, depth : 0 .. asked.depth ]
      BY <1>3, <3>1, Element
    <3>3. queue[1].depth \in 0 .. asked.depth
      BY <3>2
    <3> QED
      BY <1>3, <3>3, CrawlNumbers DEF CrawlInv, QueueSound
  <2>2. ASSUME NEW i \in 1 .. Len(queue')
        PROVE  cur.depth <= queue'[i].depth
    <3>1. queue'[i] \in [ url : Urls, depth : 0 .. asked.depth ]
      BY <1>3, Element
    <3>2. queue'[i].depth \in Nat
      <4>1. asked.depth \in Nat
        BY CrawlNumbers DEF CrawlInv
      <4>2. QED
        BY <3>1, <4>1
    <3>3. queue[1].depth <= queue'[i].depth
      BY <1>3
    <3> QED
      BY <2>1, <3>2, <3>3
  <2> QED
    BY <1>1, <1>3, <2>2 DEF QueueSound, KeyOf
<1>6. ~Busy /\ ~Busy'
  BY <1>1 DEF Busy
<1>7. Apart'
  BY <1>1, <1>3, <1>6 DEF CrawlInv, Apart, KeyOf
<1>8. Counted'
  BY <1>1, <1>2, <1>3, <1>6, CrawlNumbers DEF CrawlInv, Counted, InHand
<1>9. Near'
  BY <1>1 DEF CrawlInv, Near, Room
<1>10. Published'
  BY <1>1, <1>6 DEF CrawlInv, Published, Clear, Busy
<1> QED
  BY <1>4, <1>5, <1>7, <1>8, <1>9, <1>10 DEF CrawlInv

(* The head of the queue is taken up: nothing that waits is nearer. *)
LEMMA FetchInv ==
  ASSUME CrawlInv, Fetch
  PROVE  CrawlInv'
<1>1. /\ asked' = asked /\ rules' = rules /\ visited' = visited
      /\ links' = links /\ results' = results /\ blocked' = blocked /\ pub' = pub
      /\ foundAt' = foundAt /\ nearest' = nearest
      /\ phase = "next" /\ phase' = "fetching"
      /\ queue # << >> /\ queue' = Tail(queue) /\ cur' = Head(queue)
  BY DEF Fetch
<1>2. MaxKnown' = MaxKnown
  BY <1>1 DEF MaxKnown
<1>3. /\ cur' = queue[1] /\ 1 \in 1 .. Len(queue)
      /\ Len(queue') = Len(queue) - 1
      /\ queue' \in Seq([ url : Urls, depth : 0 .. asked.depth ])
      /\ \A i \in 1 .. Len(queue') :
           /\ KeyOf(queue'[i]) \in visited
           /\ KeyOf(queue'[i]) # KeyOf(queue[1])
           /\ queue[1].depth <= queue'[i].depth
           /\ queue'[i].depth <= cur.depth + 1
      /\ \A i, j \in 1 .. Len(queue') :
           /\ KeyOf(queue'[i]) = KeyOf(queue'[j]) => i = j
           /\ i <= j => queue'[i].depth <= queue'[j].depth
      /\ \A i \in 1 .. Len(results), j \in 1 .. Len(queue') : KeyOf(results[i]) # KeyOf(queue'[j])
  BY <1>1, Popped
<1>4. cur' \in [ url : Urls, depth : 0 .. asked.depth ]
  <2>1. queue \in Seq([ url : Urls, depth : 0 .. asked.depth ])
    BY DEF CrawlInv, QueueSound
  <2> QED
    BY <1>3, <2>1, Element
<1>5. cur.depth <= cur'.depth /\ cur'.depth \in Nat /\ cur.depth \in Nat
  <2>1. cur'.depth \in 0 .. asked.depth
    BY <1>4
  <2> QED
    BY <1>3, <2>1, CrawlNumbers DEF CrawlInv, QueueSound
<1>6. CrawlTyped'
  BY <1>1, <1>2, <1>4 DEF CrawlInv, CrawlTyped
<1>7. QueueSound'
  <2>1. ASSUME NEW i \in 1 .. Len(queue')
        PROVE  cur'.depth <= queue'[i].depth /\ queue'[i].depth <= cur'.depth + 1
    <3>1. queue'[i] \in [ url : Urls, depth : 0 .. asked.depth ]
      BY <1>3, Element
    <3>2. queue'[i].depth \in 0 .. asked.depth
      BY <3>1
    <3> QED
      BY <1>3, <1>5, <3>2
  <2> QED
    BY <1>1, <1>3, <2>1 DEF QueueSound, KeyOf
<1>8. ~Busy /\ Busy'
  BY <1>1 DEF Busy
<1>9. Apart'
  <2>1. KeyOf(queue[1]) \in visited /\ \A i \in 1 .. Len(results) : KeyOf(results[i]) # KeyOf(queue[1])
    BY <1>3 DEF CrawlInv, QueueSound, Apart
  <2> QED
    BY <1>1, <1>3, <2>1 DEF CrawlInv, Apart, KeyOf
<1>10. Counted'
  BY <1>1, <1>2, <1>3, <1>8, CrawlNumbers DEF CrawlInv, Counted, InHand
<1>11. Near'
  <2>1. links' = << >> /\ phase' # "linking" /\ phase # "linking"
    BY <1>1 DEF CrawlInv, Near
  <2>2. \A k \in visited : foundAt[k] = nearest[k] /\ foundAt[k] <= cur'.depth + 1
    <3>1. TAKE k \in visited
    <3>2. k \in Keys /\ foundAt[k] \in Nat
      BY LimitsAssumption DEF CrawlInv, CrawlTyped, Far
    <3> QED
      BY <1>5, <3>2 DEF CrawlInv, Near
  <2> QED
    BY <1>1, <2>1, <2>2 DEF CrawlInv, Near, Room
<1>12. Published'
  BY <1>1, <1>8 DEF CrawlInv, Published, Clear, Busy
<1> QED
  BY <1>6, <1>7, <1>9, <1>10, <1>11, <1>12 DEF CrawlInv

(* A page arrives: while there is room, none of its new links was offered    *)
(* before.                                                                   *)
LEMMA ArrivesInv ==
  ASSUME CrawlInv, NEW ls \in PageLinks, FetchArrives(ls)
  PROVE  CrawlInv'
<1> DEFINE offered == IF cur.depth < asked.depth THEN { Key[u] : u \in Followable \cap ToSet(ls) } ELSE {}
<1>1. /\ asked' = asked /\ rules' = rules /\ queue' = queue /\ visited' = visited /\ cur' = cur
      /\ results' = results /\ blocked' = blocked /\ pub' = pub /\ foundAt' = foundAt
      /\ phase = "fetching" /\ phase' = "linking"
      /\ links' = IF cur.depth < asked.depth THEN ls ELSE << >>
      /\ nearest' = [ k \in Keys |-> IF k \in offered /\ cur.depth + 1 < nearest[k]
                                     THEN cur.depth + 1 ELSE nearest[k] ]
  BY DEF FetchArrives, Follows
<1>2. ls \in Seq(Urls) /\ Len(ls) \in Nat
  <2>1. PICK n \in 0 .. LinkCap : ls \in [ 1 .. n -> Urls ]
    BY DEF PageLinks
  <2>2. n \in Nat
    BY <2>1, LimitsAssumption
  <2>3. ls \in Seq(Urls)
    BY <2>1, <2>2
  <2> QED
    BY <2>3
<1>3. MaxKnown' = MaxKnown
  BY <1>1 DEF MaxKnown
<1>4. cur.depth < asked.depth => cur.depth + 1 \in 0 .. Far /\ cur.depth + 1 < Far
  BY CrawlNumbers DEF Far
<1>5. offered = IF cur.depth < asked.depth
                THEN { Key[u] : u \in { ls[i] : i \in 1 .. Len(ls) } \cap Followable } ELSE {}
  <2>1. ToSet(ls) = { ls[i] : i \in 1 .. Len(ls) }
    BY <1>2 DEF ToSet
  <2> QED
    BY <2>1
<1>6. CrawlTyped'
  <2>1. links' \in Seq(Urls)
    BY <1>1, <1>2
  <2>2. nearest' \in [ Keys -> 0 .. Far ]
    <3>1. \A k \in Keys : nearest[k] \in 0 .. Far
      BY DEF CrawlInv, CrawlTyped
    <3>2. ASSUME NEW k \in Keys
          PROVE  (IF k \in offered /\ cur.depth + 1 < nearest[k]
                  THEN cur.depth + 1 ELSE nearest[k]) \in 0 .. Far
      <4>1. k \in offered => cur.depth < asked.depth
        OBVIOUS
      <4> HIDE DEF offered
      <4> QED
        BY <1>4, <3>1, <4>1
    <3> HIDE DEF offered
    <3> QED
      BY <1>1, <3>2
  <2> QED
    BY <1>1, <1>3, <2>1, <2>2 DEF CrawlInv, CrawlTyped
<1>7. QueueSound'
  BY <1>1 DEF CrawlInv, QueueSound, KeyOf
<1>8. Busy /\ Busy'
  BY <1>1 DEF Busy
<1>9. Apart'
  BY <1>1, <1>8 DEF CrawlInv, Apart, KeyOf
<1>10. Counted'
  BY <1>1, <1>3, <1>8 DEF CrawlInv, Counted, InHand
<1>11. Near'
  <2>1. \A k \in visited : /\ foundAt[k] = nearest[k] /\ foundAt[k] <= cur.depth + 1
                           /\ k \in Keys /\ nearest[k] \in 0 .. Far
    BY DEF CrawlInv, CrawlTyped, Near
  <2>2. ASSUME NEW k \in visited
        PROVE  nearest'[k] = nearest[k]
    <3>1. ~(cur.depth + 1 < nearest[k])
      BY <2>1, CrawlNumbers, LimitsAssumption DEF Far
    <3> HIDE DEF offered
    <3> QED
      BY <1>1, <2>1, <3>1
  <2>3. Room(visited) => \A k \in Keys : nearest[k] # Far => k \in visited
    BY <1>1 DEF CrawlInv, Near
  <2>4. ASSUME NEW k \in Keys, nearest'[k] # Far, k \notin visited, Room(visited)
        PROVE  \E i \in 1 .. Len(links') : links'[i] \in Followable /\ Key[links'[i]] = k
    <3>1. nearest[k] = Far
      BY <2>3, <2>4
    <3>2. k \in offered
      <4> HIDE DEF offered
      <4> QED
        BY <1>1, <2>4, <3>1
    <3>3. cur.depth < asked.depth /\ links' = ls
      BY <1>1, <3>2
    <3>4. \E u \in { ls[i] : i \in 1 .. Len(ls) } \cap Followable : Key[u] = k
      BY <1>5, <3>2, <3>3
    <3> QED
      BY <3>3, <3>4
  <2>5. ASSUME NEW i \in 1 .. Len(links'), links'[i] \in Followable, Key[links'[i]] \notin visited,
               Room(visited)
        PROVE  nearest'[Key[links'[i]]] = cur.depth + 1
    <3> DEFINE k == Key[links'[i]]
    <3>1. cur.depth < asked.depth /\ links' = ls
      <4>1. ASSUME links' = << >>
            PROVE  FALSE
        BY <2>5, <4>1
      <4> QED
        BY <1>1, <4>1
    <3>2. k \in Keys
      BY <2>5, UrlsAssumption DEF Keys
    <3>3. nearest[k] = Far
      BY <2>3, <2>5, <3>2
    <3>4. k \in offered
      BY <1>5, <2>5, <3>1
    <3> HIDE DEF k, offered
    <3>5. nearest'[k] = cur.depth + 1
      BY <1>1, <1>4, <3>1, <3>2, <3>3, <3>4
    <3> QED
      BY <3>5 DEF k
  <2>6. links' # << >> => cur.depth < asked.depth
    BY <1>1
  <2> HIDE DEF offered
  <2>7. \A k \in visited : foundAt'[k] = nearest'[k] /\ foundAt'[k] <= cur.depth + 1
    BY <1>1, <2>1, <2>2
  <2> QED
    BY <1>1, <2>4, <2>5, <2>6, <2>7 DEF Near, Room
<1>12. Published'
  BY <1>1, <1>8 DEF CrawlInv, Published, Clear, Busy
<1> QED
  BY <1>6, <1>7, <1>9, <1>10, <1>11, <1>12 DEF CrawlInv

(* A link joins the queue behind what is at most as deep, or is left out. *)
LEMMA TakeLinkInv ==
  ASSUME CrawlInv, TakeLink
  PROVE  CrawlInv'
<1> DEFINE u    == Head(links)
           item == [ url |-> u, depth |-> cur.depth + 1 ]
           new  == u \in Followable /\ Key[u] \notin visited /\ Room(visited)
<1>1. /\ asked' = asked /\ phase' = phase /\ rules' = rules /\ cur' = cur
      /\ results' = results /\ blocked' = blocked /\ pub' = pub /\ nearest' = nearest
      /\ phase = "linking" /\ links # << >> /\ links' = Tail(links)
      /\ new => /\ queue' = Append(queue, item)
                /\ visited' = visited \cup {Key[u]}
                /\ foundAt' = [ foundAt EXCEPT ![Key[u]] = cur.depth + 1 ]
      /\ ~new => queue' = queue /\ visited' = visited /\ foundAt' = foundAt
  BY DEF TakeLink, Unseen, Enqueued, Item
<1>2. MaxKnown' = MaxKnown
  BY <1>1 DEF MaxKnown
<1>3. /\ links' \in Seq(Urls) /\ links \in Seq(Urls)
      /\ 1 \in 1 .. Len(links) /\ u = links[1] /\ u \in Urls
      /\ \A i \in 1 .. Len(links') : links'[i] = links[i + 1] /\ i + 1 \in 1 .. Len(links)
      /\ \A i \in 1 .. Len(links) : i = 1 \/ (i - 1 \in 1 .. Len(links') /\ links'[i - 1] = links[i])
  <2>1. links \in Seq(Urls)
    BY DEF CrawlInv, CrawlTyped
  <2>2. /\ links' \in Seq(Urls) /\ 1 \in 1 .. Len(links) /\ u = links[1]
        /\ \A i \in 1 .. Len(links') : links'[i] = links[i + 1] /\ i + 1 \in 1 .. Len(links)
        /\ \A i \in 1 .. Len(links) : i = 1 \/ (i - 1 \in 1 .. Len(links') /\ links'[i - 1] = links[i])
    BY <1>1, <2>1, Shorter
  <2>3. u \in Urls
    BY <2>1, <2>2, Element
  <2> QED
    BY <2>1, <2>2, <2>3
<1>4. Key[u] \in Keys
  BY <1>3 DEF Keys
<1>5. cur.depth < asked.depth /\ cur.depth + 1 \in 0 .. asked.depth /\ cur.depth + 1 \in 0 .. Far
  <2>1. /\ cur.depth \in Nat /\ asked.depth \in Nat /\ cur.depth < asked.depth
        /\ asked.depth < Far /\ Far \in Nat
    <3>1. cur.depth \in Nat /\ asked.depth \in Nat
      BY CrawlNumbers DEF CrawlInv
    <3>2. cur.depth < asked.depth
      BY <1>1 DEF CrawlInv, Near
    <3>3. asked.depth < Far /\ Far \in Nat
      <4>1. asked.depth \in 0 .. MaxDepth /\ MaxDepth \in Nat
        BY CrawlNumbers
      <4> QED
        BY <4>1 DEF Far
    <3> QED
      BY <3>1, <3>2, <3>3
  <2> QED
    BY <2>1
<1>6. Busy /\ Busy' /\ phase # "next"
  BY <1>1 DEF Busy
<1>7. CASE ~new
  <2>1. /\ queue' = queue /\ visited' = visited /\ foundAt' = foundAt
        /\ asked' = asked /\ phase' = phase /\ rules' = rules /\ cur' = cur
        /\ results' = results /\ blocked' = blocked /\ pub' = pub /\ nearest' = nearest
    BY <1>1, <1>7
  <2>2. CrawlTyped'
    BY <1>2, <1>3, <2>1 DEF CrawlInv, CrawlTyped
  <2>3. QueueSound'
    BY <2>1 DEF CrawlInv, QueueSound, KeyOf
  <2>4. Apart'
    BY <1>6, <2>1 DEF CrawlInv, Apart, KeyOf
  <2>5. Counted'
    BY <1>2, <1>6, <2>1 DEF CrawlInv, Counted, InHand
  <2>6. Near'
    <3>1. ASSUME NEW k \in Keys, nearest[k] # Far, Room(visited), k \notin visited
          PROVE  \E i \in 1 .. Len(links') : links'[i] \in Followable /\ Key[links'[i]] = k
      <4>1. PICK i \in 1 .. Len(links) : links[i] \in Followable /\ Key[links[i]] = k
        BY <3>1 DEF CrawlInv, Near
      <4>2. i # 1
        BY <1>3, <1>7, <3>1, <4>1
      <4> QED
        BY <1>3, <4>1, <4>2
    <3>2. ASSUME Room(visited), NEW i \in 1 .. Len(links'),
                 links'[i] \in Followable, Key[links'[i]] \notin visited
          PROVE  nearest[Key[links'[i]]] = cur.depth + 1
      BY <1>1, <1>3, <3>2 DEF CrawlInv, Near
    <3> HIDE DEF new, u
    <3> QED
      BY <1>1, <1>5, <2>1, <3>1, <3>2 DEF CrawlInv, Near, Room
  <2>7. Published'
    BY <1>1, <1>6, <2>1 DEF CrawlInv, Published, Clear
  <2> QED
    BY <2>2, <2>3, <2>4, <2>5, <2>6, <2>7 DEF CrawlInv
<1>8. CASE new
  <2>0. /\ u \in Followable /\ Key[u] \notin visited /\ Room(visited)
        /\ queue' = Append(queue, item) /\ visited' = visited \cup {Key[u]}
        /\ foundAt' = [ foundAt EXCEPT ![Key[u]] = cur.depth + 1 ]
    BY <1>1, <1>8
  <2>1. item \in [ url : Urls, depth : 0 .. asked.depth ]
    BY <1>3, <1>5
  <2>2. queue \in Seq([ url : Urls, depth : 0 .. asked.depth ])
    BY DEF CrawlInv, QueueSound
  <2>3. /\ queue' \in Seq([ url : Urls, depth : 0 .. asked.depth ])
        /\ Len(queue') = Len(queue) + 1 /\ Len(queue) \in Nat
        /\ queue'[Len(queue) + 1] = item
        /\ \A i \in 1 .. Len(queue) : queue'[i] = queue[i]
        /\ \A i \in 1 .. Len(queue') : i \in 1 .. Len(queue) \/ i = Len(queue) + 1
    BY <2>0, <2>1, <2>2, Longer
  <2>4. KeyOf(item) = Key[u] /\ item.depth = cur.depth + 1
    BY DEF KeyOf
  <2> HIDE DEF item
  <2>5. CrawlTyped'
    <3>1. foundAt' \in [ Keys -> 0 .. Far ]
      BY <1>4, <1>5, <2>0 DEF CrawlInv, CrawlTyped
    <3>2. visited' \in SUBSET Keys
      BY <1>4, <2>0 DEF CrawlInv, CrawlTyped
    <3> HIDE DEF new, u
    <3> QED
      BY <1>1, <1>2, <1>3, <3>1, <3>2 DEF CrawlInv, CrawlTyped
  <2>6. QueueSound'
    <3>1. ASSUME NEW i \in 1 .. Len(queue')
          PROVE  /\ KeyOf(queue'[i]) \in visited'
                 /\ cur.depth <= queue'[i].depth
                 /\ queue'[i].depth <= cur.depth + 1
      <4>1. CASE i \in 1 .. Len(queue)
        BY <2>0, <2>3, <4>1 DEF CrawlInv, QueueSound
      <4>2. CASE i = Len(queue) + 1
        BY <2>0, <2>3, <2>4, <4>2, CrawlNumbers
      <4> QED
        BY <2>3, <4>1, <4>2
    <3>2. ASSUME NEW i \in 1 .. Len(queue'), NEW j \in 1 .. Len(queue')
          PROVE  /\ KeyOf(queue'[i]) = KeyOf(queue'[j]) => i = j
                 /\ i <= j => queue'[i].depth <= queue'[j].depth
      <4>1. CASE i \in 1 .. Len(queue) /\ j \in 1 .. Len(queue)
        BY <2>3, <4>1 DEF CrawlInv, QueueSound
      <4>2. CASE i \in 1 .. Len(queue) /\ j = Len(queue) + 1
        <5>1. queue'[i] = queue[i] /\ queue'[j] = item
          BY <2>3, <4>2
        <5> QED
          BY <2>0, <2>4, <4>2, <5>1 DEF CrawlInv, QueueSound
      <4>3. CASE i = Len(queue) + 1 /\ j \in 1 .. Len(queue)
        <5>1. queue'[i] = item /\ queue'[j] = queue[j] /\ ~(i <= j)
          BY <2>3, <4>3
        <5> QED
          BY <2>0, <2>4, <4>3, <5>1 DEF CrawlInv, QueueSound
      <4>4. CASE i = Len(queue) + 1 /\ j = Len(queue) + 1
        BY <2>3, <2>4, <4>4, CrawlNumbers
      <4> QED
        BY <2>3, <4>1, <4>2, <4>3, <4>4
    <3> HIDE DEF new, u
    <3> QED
      BY <1>1, <2>3, <3>1, <3>2 DEF QueueSound, KeyOf
  <2>7. Apart'
    <3>1. ASSUME NEW i \in 1 .. Len(results), NEW j \in 1 .. Len(queue')
          PROVE  KeyOf(results[i]) # KeyOf(queue'[j])
      <4>1. CASE j \in 1 .. Len(queue)
        BY <2>3, <4>1 DEF CrawlInv, Apart
      <4>2. CASE j = Len(queue) + 1
        BY <2>0, <2>3, <2>4, <4>2 DEF CrawlInv, Apart
      <4> QED
        BY <2>3, <4>1, <4>2
    <3>2. ASSUME NEW j \in 1 .. Len(queue')
          PROVE  KeyOf(queue'[j]) # KeyOf(cur)
      <4>1. CASE j \in 1 .. Len(queue)
        BY <1>6, <2>3, <4>1 DEF CrawlInv, Apart
      <4>2. CASE j = Len(queue) + 1
        BY <1>6, <2>0, <2>3, <2>4, <4>2 DEF CrawlInv, Apart
      <4> QED
        BY <2>3, <4>1, <4>2
    <3>3. \A k \in visited : k \in visited'
      BY <2>0
    <3> HIDE DEF new, u
    <3> QED
      BY <1>1, <1>6, <3>1, <3>2, <3>3 DEF CrawlInv, Apart, KeyOf
  <2>8. /\ IsFiniteSet(visited') /\ Cardinality(visited') = Cardinality(visited) + 1
        /\ Cardinality(visited) \in Nat /\ Cardinality(visited) < asked.pages
    BY <2>0, FS_AddElement, CrawlNumbers DEF CrawlInv, Counted, Room
  <2>9. Counted'
    <3>1. Cardinality(visited) + 1 <= MaxKnown
      BY <2>8, CrawlNumbers DEF MaxKnown
    <3> HIDE DEF new, u
    <3> QED
      BY <1>1, <1>2, <1>6, <2>3, <2>8, <3>1, CrawlNumbers DEF CrawlInv, Counted, InHand
  <2>10. Near'
    <3>1. Room(visited') => Room(visited)
      BY <2>0
    <3>2. nearest[Key[u]] = cur.depth + 1
      BY <1>1, <1>3, <2>0 DEF CrawlInv, Near
    <3>3. \A k \in visited' : foundAt'[k] = nearest[k] /\ foundAt'[k] <= cur.depth + 1
      <4>1. ASSUME NEW k \in visited
            PROVE  foundAt'[k] = foundAt[k] /\ foundAt[k] = nearest[k] /\ foundAt[k] <= cur.depth + 1
        BY <2>0, <4>1 DEF CrawlInv, CrawlTyped, Near
      <4>2. foundAt'[Key[u]] = cur.depth + 1
        BY <1>4, <2>0 DEF CrawlInv, CrawlTyped
      <4> QED
        BY <2>0, <3>2, <4>1, <4>2, CrawlNumbers
    <3>4. ASSUME NEW k \in Keys, nearest[k] # Far, k \notin visited'
          PROVE  \E i \in 1 .. Len(links') : links'[i] \in Followable /\ Key[links'[i]] = k
      <4>1. PICK i \in 1 .. Len(links) : links[i] \in Followable /\ Key[links[i]] = k
        BY <2>0, <3>4 DEF CrawlInv, Near
      <4>2. i # 1
        BY <1>3, <2>0, <3>4, <4>1
      <4> QED
        BY <1>3, <4>1, <4>2
    <3>5. ASSUME NEW i \in 1 .. Len(links'),
                 links'[i] \in Followable, Key[links'[i]] \notin visited'
          PROVE  nearest[Key[links'[i]]] = cur.depth + 1
      <4>1. i + 1 \in 1 .. Len(links) /\ links'[i] = links[i + 1]
        BY <1>3
      <4>2. links[i + 1] \in Followable /\ Key[links[i + 1]] \notin visited
        BY <2>0, <3>5, <4>1
      <4>3. nearest[Key[links[i + 1]]] = cur.depth + 1
        BY <1>1, <2>0, <4>1, <4>2 DEF CrawlInv, Near
      <4> QED
        BY <4>1, <4>3
    <3> HIDE DEF new, u
    <3> QED
      BY <1>1, <1>5, <3>3, <3>4, <3>5 DEF Near
  <2>11. Published'
    <3>1. pub.total <= Cardinality(visited')
      <4>1. pub.total \in Nat
        BY CrawlNumbers DEF CrawlInv, CrawlTyped, Progress
      <4> QED
        BY <2>8, <4>1 DEF CrawlInv, Published
    <3>2. visited' # {}
      BY <2>0
    <3>3. Clear' = Clear
      BY <1>1 DEF Clear
    <3> HIDE DEF new, u
    <3> QED
      BY <1>1, <1>6, <3>1, <3>2, <3>3 DEF CrawlInv, Published
  <2> QED
    BY <2>5, <2>6, <2>7, <2>9, <2>10, <2>11 DEF CrawlInv
<1> QED
  BY <1>7, <1>8

(* No link is left to take. *)
LEMMA LinksDoneInv ==
  ASSUME CrawlInv, LinksDone
  PROVE  CrawlInv'
<1>1. /\ asked' = asked /\ rules' = rules /\ queue' = queue /\ visited' = visited
      /\ cur' = cur /\ links' = links /\ results' = results /\ blocked' = blocked
      /\ pub' = pub /\ foundAt' = foundAt /\ nearest' = nearest
      /\ phase = "linking" /\ links = << >> /\ phase' = "extracting"
  BY DEF LinksDone
<1>2. MaxKnown' = MaxKnown
  BY <1>1 DEF MaxKnown
<1>3. Busy /\ Busy'
  BY <1>1 DEF Busy
<1>4. CrawlTyped'
  BY <1>1, <1>2 DEF CrawlInv, CrawlTyped
<1>5. QueueSound'
  BY <1>1 DEF CrawlInv, QueueSound, KeyOf
<1>6. Apart'
  BY <1>1, <1>3 DEF CrawlInv, Apart, KeyOf
<1>7. Counted'
  BY <1>1, <1>2, <1>3 DEF CrawlInv, Counted, InHand
<1>8. Near'
  <2>1. \A i \in 1 .. Len(links) : FALSE
    BY <1>1
  <2> QED
    BY <1>1, <2>1 DEF CrawlInv, Near, Room
<1>9. Published'
  BY <1>1, <1>3 DEF CrawlInv, Published, Clear
<1> QED
  BY <1>4, <1>5, <1>6, <1>7, <1>8, <1>9 DEF CrawlInv

(* A document joins the results: it is the one page in hand, and what is     *)
(* published counts it.                                                      *)
LEMMA ReportEffect ==
  ASSUME CrawlInv, NEW b \in BOOLEAN, Report(b), Busy, pub.status = "InProgress",
         asked' = asked, rules' = rules, queue' = queue, visited' = visited, cur' = cur,
         links' = links, foundAt' = foundAt, nearest' = nearest, links = << >>
  PROVE  /\ CrawlInv'
         /\ pub' \in AdvancesOf(pub, MaxKnown)
<1> DEFINE doc == [ url |-> cur.url, block |-> b ]
<1>1. /\ results' = Append(results, doc)
      /\ blocked' = IF b THEN blocked + 1 ELSE blocked
      /\ pub' = [ status |-> "InProgress", total |-> Cardinality(visited),
                  completed |-> Len(results'), blocked |-> blocked', docs |-> 0 ]
      /\ phase' = "next"
  BY DEF Report, BlockedAfter
<1>2. MaxKnown' = MaxKnown
  BY DEF MaxKnown
<1>3. doc \in [ url : Urls, block : BOOLEAN ] /\ doc.block = b /\ KeyOf(doc) = KeyOf(cur)
  BY DEF CrawlInv, CrawlTyped, KeyOf
<1>4. results \in Seq([ url : Urls, block : BOOLEAN ])
  BY DEF CrawlInv, CrawlTyped
<1>5. /\ results' \in Seq([ url : Urls, block : BOOLEAN ])
      /\ Len(results') = Len(results) + 1 /\ Len(results) \in Nat
      /\ results'[Len(results) + 1] = doc
      /\ \A i \in 1 .. Len(results) : results'[i] = results[i]
      /\ \A i \in 1 .. Len(results') : i \in 1 .. Len(results) \/ i = Len(results) + 1
      /\ Len(results) + 1 \in 1 .. Len(results')
  BY <1>1, <1>3, <1>4, Longer
<1> HIDE DEF doc
<1>6. Len(results) + 1 <= Cardinality(visited) /\ Cardinality(visited) <= MaxKnown
  BY CrawlNumbers DEF CrawlInv, Counted, InHand
<1>7. blocked' \in 0 .. Len(results')
  BY <1>1, <1>5, CrawlNumbers
<1>8. ~Busy'
  BY <1>1 DEF Busy
<1>9. CrawlTyped'
  <2>1. pub' \in Progress(MaxKnown)
    <3>1. /\ Cardinality(visited) \in 0 .. MaxKnown /\ Len(results') \in 0 .. MaxKnown
          /\ blocked' \in 0 .. MaxKnown /\ 0 \in 0 .. MaxKnown
      BY <1>5, <1>6, <1>7, CrawlNumbers
    <3> QED
      BY <1>1, <3>1 DEF Progress, Statuses
  <2> QED
    BY <1>1, <1>2, <1>5, <1>7, <2>1 DEF CrawlInv, CrawlTyped
<1>10. QueueSound'
  BY DEF CrawlInv, QueueSound, KeyOf
<1>11. Apart'
  <2>1. ASSUME NEW i \in 1 .. Len(results')
        PROVE  KeyOf(results'[i]) \in visited
    BY <1>3, <1>5 DEF CrawlInv, Apart
  <2>2. ASSUME NEW i \in 1 .. Len(results'), NEW j \in 1 .. Len(queue)
        PROVE  KeyOf(results'[i]) # KeyOf(queue[j])
    BY <1>3, <1>5 DEF CrawlInv, Apart
  <2>3. ASSUME NEW i \in 1 .. Len(results'), NEW j \in 1 .. Len(results'),
               KeyOf(results'[i]) = KeyOf(results'[j])
        PROVE  i = j
    <3>1. CASE i \in 1 .. Len(results) /\ j \in 1 .. Len(results)
      BY <1>5, <2>3, <3>1 DEF CrawlInv, Apart
    <3>2. CASE i \in 1 .. Len(results) /\ j = Len(results) + 1
      BY <1>3, <1>5, <2>3, <3>2 DEF CrawlInv, Apart
    <3>3. CASE i = Len(results) + 1 /\ j \in 1 .. Len(results)
      BY <1>3, <1>5, <2>3, <3>3 DEF CrawlInv, Apart
    <3> QED
      BY <1>5, <3>1, <3>2, <3>3
  <2> QED
    BY <1>8, <2>1, <2>2, <2>3 DEF Apart, KeyOf
<1>12. Counted'
  BY <1>2, <1>5, <1>8, CrawlNumbers DEF CrawlInv, Counted, InHand
<1>13. Near'
  <2>1. \A i \in 1 .. Len(links) : FALSE
    OBVIOUS
  <2> QED
    BY <1>1, <2>1 DEF CrawlInv, Near, Room
<1>14. IsFiniteSet(Clear') /\ Len(results') - blocked' = Cardinality(Clear')
  <2>1. Clear \subseteq 1 .. Len(results) /\ Len(results) + 1 \notin Clear
    BY <1>5 DEF Clear
  <2>2. IsFiniteSet(Clear) /\ Len(results) - blocked = Cardinality(Clear)
    BY DEF CrawlInv, Published
  <2>3. Clear' = IF b THEN Clear ELSE Clear \cup {Len(results) + 1}
    <3>1. \A i \in 1 .. Len(results) : i \in 1 .. Len(results') /\ (i \in Clear' <=> i \in Clear)
      BY <1>5 DEF Clear
    <3>2. Len(results) + 1 \in Clear' <=> ~b
      BY <1>3, <1>5 DEF Clear
    <3>3. Clear' \subseteq 1 .. Len(results')
      BY DEF Clear
    <3>4. ASSUME NEW i \in 1 .. Len(results')
          PROVE  i \in Clear' <=> i \in Clear \/ (i = Len(results) + 1 /\ ~b)
      <4>1. CASE i \in 1 .. Len(results)
        BY <1>5, <3>1, <4>1
      <4>2. CASE i = Len(results) + 1
        BY <2>1, <3>2, <4>2
      <4> QED
        BY <1>5, <4>1, <4>2
    <3>5. \A i \in Clear : i \in 1 .. Len(results')
      BY <1>5, <2>1
    <3> HIDE DEF doc
    <3>6. \A i : i \in Clear' <=> i \in Clear \/ (i = Len(results) + 1 /\ ~b)
      BY <1>5, <3>3, <3>4, <3>5
    <3>7. CASE b
      BY <3>6, <3>7
    <3>8. CASE ~b
      BY <3>6, <3>8
    <3> QED
      BY <3>7, <3>8
  <2>4. CASE b
    BY <1>1, <1>5, <2>2, <2>3, <2>4, CrawlNumbers
  <2>5. CASE ~b
    <3>1. Clear' = Clear \cup {Len(results) + 1} /\ blocked' = blocked
      BY <1>1, <2>3, <2>5
    <3>2. IsFiniteSet(Clear') /\ Cardinality(Clear') = Cardinality(Clear) + 1
      BY <2>1, <2>2, <3>1, FS_AddElement
    <3> QED
      BY <1>5, <2>2, <3>1, <3>2, CrawlNumbers
  <2> QED
    BY <2>4, <2>5
<1>15. Published'
  <2>1. /\ pub'.status = "InProgress" /\ pub'.completed = Len(results')
        /\ pub'.blocked = blocked' /\ pub'.total = Cardinality(visited)
    BY <1>1
  <2>2. visited # {}
    BY DEF CrawlInv, Published
  <2> QED
    BY <1>1, <1>8, <1>14, <2>1, <2>2, CrawlNumbers DEF Published
<1>16. pub' \in AdvancesOf(pub, MaxKnown)
  <2>1. /\ pub.completed = Len(results) /\ pub.blocked = blocked /\ pub.total <= Cardinality(visited)
    BY DEF CrawlInv, Published
  <2>2. pub.total \in Nat
    BY CrawlNumbers DEF CrawlInv, CrawlTyped, Progress
  <2>3. Cardinality(visited) \in { u \in pub.total .. MaxKnown : u > pub.completed }
    BY <1>6, <2>1, <2>2, CrawlNumbers
  <2>4. \E c \in 0 .. 1 : blocked' = pub.blocked + c
    <3>1. CASE b
      BY <1>1, <2>1, <3>1, 1 \in 0 .. 1
    <3>2. CASE ~b
      BY <1>1, <2>1, <3>2, CrawlNumbers, 0 \in 0 .. 1
    <3> QED
      BY <3>1, <3>2
  <2>5. Len(results') = pub.completed + 1
    BY <1>5, <2>1
  <2> QED
    BY <1>1, <2>3, <2>4, <2>5 DEF AdvancesOf
<1> QED
  BY <1>9, <1>10, <1>11, <1>12, <1>13, <1>15, <1>16 DEF CrawlInv

LEMMA ReportInv ==
  ASSUME CrawlInv, FetchFails \/ (\E b \in BOOLEAN : Extracted(b))
  PROVE  /\ CrawlInv'
         /\ pub.status = "InProgress" /\ pub' \in AdvancesOf(pub, MaxKnown)
<1>1. PICK b \in BOOLEAN : Report(b)
  BY DEF FetchFails, Extracted
<1>2. /\ asked' = asked /\ rules' = rules /\ queue' = queue /\ visited' = visited /\ cur' = cur
      /\ links' = links /\ foundAt' = foundAt /\ nearest' = nearest
      /\ phase \in {"fetching", "extracting"}
  BY DEF FetchFails, Extracted
<1>3. Busy /\ phase # "linking" /\ phase \notin {"ended", "dropped"}
  BY <1>2 DEF Busy
<1>4. links = << >> /\ pub.status = "InProgress"
  BY <1>3 DEF CrawlInv, Near, Published
<1> QED
  BY <1>1, <1>2, <1>3, <1>4, ReportEffect

(* A state that is completed, field by field. *)
LEMMA CompletedState ==
  ASSUME NEW m, NEW p \in Progress(m), NEW u, NEW e, NEW q,
         q = [ p EXCEPT !.status = "Completed", !.total = u, !.docs = e ]
  PROVE  q = [ status |-> "Completed", total |-> u, completed |-> p.completed,
               blocked |-> p.blocked, docs |-> e ]
BY DEF Progress

(* The crawl completes with every document. *)
LEMMA CompleteInv ==
  ASSUME CrawlInv, Complete
  PROVE  /\ CrawlInv'
         /\ pub.status = "InProgress" /\ pub' \in FinishesOf(pub, MaxKnown)
<1>1. /\ asked' = asked /\ rules' = rules /\ queue' = queue /\ visited' = visited
      /\ cur' = cur /\ links' = links /\ results' = results /\ blocked' = blocked
      /\ foundAt' = foundAt /\ nearest' = nearest
      /\ phase = "next" /\ phase' = "ended"
      /\ pub' = [ status |-> "Completed", total |-> Cardinality(visited),
                  completed |-> Len(results), blocked |-> blocked, docs |-> Len(results) ]
  BY DEF Complete, FinalTotal
<1>2. MaxKnown' = MaxKnown
  BY <1>1 DEF MaxKnown
<1>3. /\ pub.status = "InProgress" /\ pub.completed = Len(results) /\ pub.blocked = blocked
      /\ pub.total <= Cardinality(visited) /\ visited # {}
  BY <1>1 DEF CrawlInv, Published
<1>4. /\ Cardinality(visited) \in 0 .. MaxKnown /\ Len(results) \in 0 .. MaxKnown
      /\ blocked \in 0 .. MaxKnown
  BY CrawlNumbers DEF CrawlInv, Counted
<1>5. CrawlTyped'
  <2>1. pub' \in Progress(MaxKnown)
    BY <1>1, <1>4 DEF Progress, Statuses
  <2> QED
    BY <1>1, <1>2, <2>1 DEF CrawlInv, CrawlTyped
<1>6. QueueSound'
  BY <1>1 DEF CrawlInv, QueueSound, KeyOf
<1>7. ~Busy /\ ~Busy'
  BY <1>1 DEF Busy
<1>8. Apart'
  BY <1>1, <1>7 DEF CrawlInv, Apart, KeyOf
<1>9. Counted'
  BY <1>1, <1>2, <1>7 DEF CrawlInv, Counted, InHand
<1>10. Near'
  BY <1>1 DEF CrawlInv, Near, Room
<1>11. Published'
  <2>1. /\ pub'.status = "Completed" /\ pub'.completed = Len(results)
        /\ pub'.blocked = blocked /\ pub'.total = Cardinality(visited)
    BY <1>1
  <2> QED
    BY <1>1, <1>3, <1>7, <2>1, CrawlNumbers DEF CrawlInv, Published, Clear
<1>12. pub' \in FinishesOf(pub, MaxKnown)
  <2>1. /\ pub \in [ status : Statuses, total : 0 .. MaxKnown, completed : 0 .. MaxKnown,
                     blocked : 0 .. MaxKnown, docs : 0 .. MaxKnown ]
    BY DEF CrawlInv, CrawlTyped, Progress
  <2>2. Cardinality(visited) \in pub.total .. MaxKnown
    <3>1. pub.total \in 0 .. MaxKnown
      BY <2>1
    <3> QED
      BY <1>3, <1>4, <3>1, CrawlNumbers
  <2>3. pub' = [ pub EXCEPT !.status = "Completed", !.total = Cardinality(visited),
                            !.docs = pub.completed ]
    <3>1. pub \in Progress(MaxKnown)
      BY DEF CrawlInv, CrawlTyped
    <3>2. [ pub EXCEPT !.status = "Completed", !.total = Cardinality(visited),
                       !.docs = pub.completed ]
            = [ status |-> "Completed", total |-> Cardinality(visited),
                completed |-> pub.completed, blocked |-> pub.blocked, docs |-> pub.completed ]
      BY <3>1, CompletedState
    <3> QED
      BY <1>1, <1>3, <3>2
  <2> QED
    BY <2>2, <2>3 DEF FinishesOf
<1> QED
  BY <1>3, <1>5, <1>6, <1>8, <1>9, <1>10, <1>11, <1>12 DEF CrawlInv

(* Every step keeps the invariant and publishes what CrawlProgress allows.   *)
LEMMA CrawlStep ==
  ASSUME CrawlInv, [Next]_vars
  PROVE  /\ CrawlInv'
         /\ [ProgressOf]_<< pub, MaxKnown >>
<1>1. CASE Refuse
  <2>1. pub = FreshProgress(0) /\ pub' = FailedProgress /\ MaxKnown' = MaxKnown
    BY <1>1 DEF Refuse, CrawlInv, Published, MaxKnown
  <2> QED
    BY <1>1, <2>1, PhaseInv DEF ProgressOf
<1>2. CASE Accept \/ Abort
  BY <1>2, PhaseInv DEF Accept, Abort, MaxKnown
<1>3. CASE LoadRobots
  BY <1>3, LoadRobotsInv DEF LoadRobots, MaxKnown
<1>4. CASE SkipDisallowed
  BY <1>4, SkipInv DEF SkipDisallowed, MaxKnown
<1>5. CASE Fetch
  BY <1>5, FetchInv DEF Fetch, MaxKnown
<1>6. CASE FetchFails \/ (\E b \in BOOLEAN : Extracted(b))
  <2>1. MaxKnown' = MaxKnown
    BY <1>6 DEF FetchFails, Extracted, MaxKnown
  <2> QED
    BY <1>6, <2>1, ReportInv DEF ProgressOf
<1>7. CASE \E ls \in PageLinks : FetchArrives(ls)
  BY <1>7, ArrivesInv DEF FetchArrives, MaxKnown
<1>8. CASE TakeLink
  BY <1>8, TakeLinkInv DEF TakeLink, MaxKnown
<1>9. CASE LinksDone
  BY <1>9, LinksDoneInv DEF LinksDone, MaxKnown
<1>10. CASE Complete
  <2>1. MaxKnown' = MaxKnown
    BY <1>10 DEF Complete, MaxKnown
  <2> QED
    BY <1>10, <2>1, CompleteInv DEF ProgressOf
<1>11. CASE UNCHANGED vars
  <2>1. /\ asked' = asked /\ rules' = rules /\ queue' = queue /\ visited' = visited
        /\ cur' = cur /\ links' = links /\ results' = results /\ blocked' = blocked
        /\ pub' = pub /\ foundAt' = foundAt /\ nearest' = nearest /\ phase' = phase
    BY <1>11 DEF vars
  <2>2. MaxKnown' = MaxKnown /\ (Busy' <=> Busy) /\ Clear' = Clear
    BY <2>1 DEF MaxKnown, Busy, Clear
  <2>3. CrawlTyped' /\ QueueSound' /\ Apart'
    BY <2>1, <2>2 DEF CrawlInv, CrawlTyped, QueueSound, Apart, KeyOf
  <2>4. Counted' /\ Near' /\ Published'
    BY <2>1, <2>2 DEF CrawlInv, Counted, InHand, Near, Room, Published
  <2> QED
    BY <2>1, <2>2, <2>3, <2>4 DEF CrawlInv
<1> QED
  BY <1>1, <1>2, <1>3, <1>4, <1>5, <1>6, <1>7, <1>8, <1>9, <1>10, <1>11 DEF Next, Step

(* The queue is in breadth-first order, no page is in it twice or reported,  *)
(* and what is published is what the task counted, in every reachable state  *)
(* of a crawl: of any site, with any spellings, links and limits.            *)
THEOREM CrawlInductive == Spec => []CrawlInv
<1>1. CrawlInv /\ [Next]_vars => CrawlInv'
  BY CrawlStep
<1> QED
  BY InitCrawlInv, <1>1, PTL DEF Spec

(* Every variable of a crawl keeps its type, the queue within the depth      *)
(* asked for, and at most the pages asked for are known.                     *)
LEMMA CrawlTypes == CrawlInv => TypeOK
<1> SUFFICES ASSUME CrawlInv
             PROVE  TypeOK
  OBVIOUS
<1>1. \A i \in DOMAIN queue : queue[i] \in [ url : Urls, depth : 0 .. asked.depth ]
  <2>1. queue \in Seq([ url : Urls, depth : 0 .. asked.depth ])
    BY DEF CrawlInv, QueueSound
  <2>2. DOMAIN queue = 1 .. Len(queue)
    BY <2>1
  <2> QED
    BY <2>1, <2>2, Element
<1> QED
  BY <1>1 DEF CrawlInv, CrawlTyped, Counted, TypeOK

(* What a poller finds is every page once, and a bill for the documents that *)
(* are not blocked: on every path a page can end on, with any spellings.     *)
THEOREM ReportsSound == Spec => []ReportIsSound
<1>1. CrawlInv => ReportedOnce
  <2> SUFFICES ASSUME CrawlInv
               PROVE  ReportedOnce
    OBVIOUS
  <2>1. results \in Seq([ url : Urls, block : BOOLEAN ])
    BY DEF CrawlInv, CrawlTyped
  <2>2. DOMAIN results = 1 .. Len(results)
    BY <2>1
  <2>3. \A i, j \in 1 .. Len(results) : Key[results[i].url] = Key[results[j].url] => i = j
    BY DEF CrawlInv, Apart, KeyOf
  <2> QED
    BY <2>2, <2>3 DEF ReportedOnce, IsInjective
<1>2. CrawlInv => BillsWhatItDelivers
  <2> SUFFICES ASSUME CrawlInv, pub.status \in {"InProgress", "Completed"}
               PROVE  pub.completed - pub.blocked =
                        Cardinality({ i \in 1 .. pub.completed : ~results[i].block })
    BY DEF BillsWhatItDelivers
  <2>1. pub.completed = Len(results) /\ pub.blocked = blocked
    BY DEF CrawlInv, Published
  <2>2. Len(results) - blocked = Cardinality({ i \in 1 .. Len(results) : ~results[i].block })
    BY DEF CrawlInv, Published, Clear
  <2> QED
    BY <2>1, <2>2
<1>3. CrawlInv => ReportIsSound
  BY <1>1, <1>2, CrawlTypes DEF ReportIsSound
<1> QED
  BY CrawlInductive, <1>3, PTL

(* A crawl goes where a breadth-first search goes: every page it knows was   *)
(* found at the least depth any page offered it at, and a completed crawl    *)
(* left out an offered page only for its page limit.                         *)
THEOREM SiteCovered == Spec => []CoversTheSite
<1>1. CrawlInv => ShortestDepth
  BY DEF CrawlInv, Near, ShortestDepth
<1>2. CrawlInv => NothingMissed
  <2> SUFFICES ASSUME CrawlInv, pub.status = "Completed", Cardinality(visited) # MaxKnown,
                      NEW k \in Keys, nearest[k] <= asked.depth
               PROVE  k \in visited
    BY DEF NothingMissed
  <2>1. phase = "ended" /\ visited # {} /\ IsFiniteSet(visited)
    BY DEF CrawlInv, Published, Counted
  <2>2. Cardinality(visited) # 0
    BY <2>1, FS_EmptySet
  <2>3. Room(visited)
    BY <2>2, CrawlNumbers DEF CrawlInv, Counted, Room, MaxKnown
  <2>4. nearest[k] # Far
    BY CrawlNumbers DEF Far
  <2> QED
    BY <2>1, <2>3, <2>4 DEF CrawlInv, Near
<1>3. CrawlInv => CoversTheSite
  BY <1>1, <1>2 DEF CoversTheSite
<1> QED
  BY CrawlInductive, <1>3, PTL

(* What a crawl publishes is what CrawlProgress promises: its initial states *)
(* map to initial states, and every step to a step or a stutter.             *)
THEOREM ImplementsProgress == Spec => KeepsPromise
<1>1. Init => Promise!ProgressInit
  <2> SUFFICES ASSUME Init
               PROVE  MaxKnown \in Nat \ {0} /\ pub = FreshProgress(0)
    BY DEF Promise!ProgressInit, Promise!FreshProgress, FreshProgress
  <2> QED
    BY InitCrawlInv, CrawlNumbers DEF Init
<1>2. CrawlInv /\ [Next]_vars => [Promise!ProgressNext]_<< pub, MaxKnown >>
  <2> SUFFICES ASSUME CrawlInv, [Next]_vars
               PROVE  [Promise!ProgressNext]_<< pub, MaxKnown >>
    OBVIOUS
  <2>1. [ProgressOf]_<< pub, MaxKnown >>
    BY CrawlStep
  <2>2. /\ Promise!AdvancesOf(pub, MaxKnown) = AdvancesOf(pub, MaxKnown)
        /\ Promise!FinishesOf(pub, MaxKnown) = FinishesOf(pub, MaxKnown)
        /\ Promise!FreshProgress(0) = FreshProgress(0)
        /\ Promise!FailedProgress = FailedProgress
    BY DEF Promise!AdvancesOf, Promise!FinishesOf, Promise!FreshProgress, Promise!FailedProgress,
           AdvancesOf, FinishesOf, FreshProgress, FailedProgress
  <2>3. ProgressOf => Promise!ProgressNext
    BY <2>2 DEF ProgressOf, Promise!ProgressNext, Promise!Advance, Promise!Finish, Promise!Fail
  <2> QED
    BY <2>1, <2>3
<1> QED
  BY <1>1, <1>2, CrawlInductive, PTL DEF Spec, KeepsPromise, Promise!ProgressSpec

-----------------------------------------------------------------------------

(* No job waits twice. *)
Once(q) == \A i, j \in 1 .. Len(q) : q[i] = q[j] => i = j

In(e, q) == \E i \in 1 .. Len(q) : q[i] = e

JobsTyped ==
  /\ listed \in SUBSET Jobs
  /\ age \in [ Jobs -> 0 .. Ttl ]
  /\ handle \in [ Jobs -> BOOLEAN ]
  /\ chan \in [ Jobs -> Progress(MaxUrls) ]
  /\ own \in [ Jobs -> Progress(MaxUrls) ]
  /\ task \in [ Jobs -> {"none", "queued", "parked", "polled", "gone"} ]
  /\ aborting \in [ Jobs -> BOOLEAN ]
  /\ starter \in [ Jobs -> {"idle", "spawned", "answered"} ]
  /\ deleting \in Jobs \cup {None}
  /\ cancelled \in SUBSET Jobs

(* The semaphore's queue holds the tasks that wait for a permit. *)
QueueOfJobs ==
  /\ waiting \in Seq(Jobs)
  /\ Once(waiting)
  /\ \A j \in Jobs : In(j, waiting) <=> task[j] = "queued"

AtWork == { k \in Jobs : Running(k) }

Permits == IsFiniteSet(AtWork) /\ Cardinality(AtWork) <= MaxConcurrent

(* A job that was not started has nothing to show. *)
Unstarted ==
  /\ \A j \in Jobs : starter[j] = "idle" =>
       /\ task[j] = "none" /\ j \notin listed
       /\ chan[j] = FreshProgress(0) /\ own[j] = FreshProgress(0)
  /\ deleting # None => starter[deleting] # "idle"

(* What is published of a job agrees with its work: a crawl that nobody      *)
(* cancelled published its own counters, and a job that left the table has   *)
(* said its last word.                                                       *)
Told(j) ==
  /\ Coherent(chan[j])
  /\ j \in Batches => chan[j].docs = chan[j].completed
  /\ j \in Crawls =>
       /\ Coherent(own[j]) /\ own[j].status = "InProgress"
       /\ task[j] # "gone" =>
            /\ chan[j].completed = own[j].completed /\ chan[j].blocked = own[j].blocked
            /\ j \notin cancelled => chan[j].status = "InProgress"
  /\ starter[j] # "idle" /\ j \notin listed /\ j \notin cancelled => Terminal(chan[j])

AllTold == \A j \in Jobs : Told(j)

JobsInv == JobsTyped /\ QueueOfJobs /\ Permits /\ Unstarted /\ AllTold

(* What is left of a sequence without its k-th element. *)
LEMMA RemovedAt ==
  ASSUME NEW S, NEW q \in Seq(S), NEW k \in 1 .. Len(q)
  PROVE  /\ RemoveAt(q, k) \in Seq(S)
         /\ Len(RemoveAt(q, k)) = Len(q) - 1
         /\ \A i \in 1 .. Len(q) - 1 : RemoveAt(q, k)[i] = IF i < k THEN q[i] ELSE q[i + 1]
<1> DEFINE a == SubSeq(q, 1, k - 1)
           b == SubSeq(q, k + 1, Len(q))
<1>0. Len(q) \in Nat /\ k \in Int /\ 1 <= k /\ k <= Len(q)
  OBVIOUS
<1>1. /\ a \in Seq(S) /\ Len(a) = k - 1
      /\ \A i \in 1 .. k - 1 : a[i] = q[i]
  OBVIOUS
<1>2. /\ b \in Seq(S) /\ Len(b) = Len(q) - k
      /\ \A i \in 1 .. Len(q) - k : b[i] = q[i + k]
  OBVIOUS
<1> HIDE DEF a, b
<1>3. /\ a \o b \in Seq(S) /\ Len(a \o b) = Len(a) + Len(b)
      /\ \A i \in 1 .. Len(a) + Len(b) :
           (a \o b)[i] = IF i <= Len(a) THEN a[i] ELSE b[i - Len(a)]
  BY <1>1, <1>2, ConcatProperties
<1>4. RemoveAt(q, k) = a \o b
  BY DEF RemoveAt, a, b
<1>5. ASSUME NEW i \in 1 .. Len(q) - 1
      PROVE  (a \o b)[i] = IF i < k THEN q[i] ELSE q[i + 1]
  <2>0. i \in Int /\ k \in Int /\ i \in 1 .. Len(a) + Len(b)
    BY <1>0, <1>1, <1>2
  <2>1. CASE i < k
    <3>1. i <= Len(a) /\ a[i] = q[i]
      BY <1>0, <1>1, <2>0, <2>1
    <3> QED
      BY <1>3, <2>0, <2>1, <3>1
  <2>2. CASE ~(i < k)
    <3>1. /\ i - Len(a) \in 1 .. Len(q) - k /\ ~(i <= Len(a))
          /\ (i - Len(a)) + k = i + 1
      BY <1>0, <1>1, <2>0, <2>2
    <3>2. b[i - Len(a)] = q[i + 1]
      BY <1>2, <3>1
    <3> QED
      BY <1>3, <2>0, <2>2, <3>1, <3>2
  <2> QED
    BY <2>1, <2>2
<1>6. Len(a \o b) = Len(q) - 1
  BY <1>0, <1>1, <1>2, <1>3
<1> QED
  BY <1>3, <1>4, <1>5, <1>6

(* Removing the only occurrence of e leaves the others in place. *)
LEMMA Removed ==
  ASSUME NEW S, NEW q \in Seq(S), Once(q), NEW e
  PROVE  /\ RemoveFirst(q, e) \in Seq(S) /\ Once(RemoveFirst(q, e))
         /\ ~In(e, RemoveFirst(q, e))
         /\ \A f : f # e => (In(f, RemoveFirst(q, e)) <=> In(f, q))
<1>1. CASE ~In(e, q)
  BY <1>1 DEF In, RemoveFirst
<1>2. CASE In(e, q)
  <2>1. PICK k \in 1 .. Len(q) : q[k] = e
    BY <1>2 DEF In
  <2>2. { i \in 1 .. Len(q) : q[i] = e } = {k}
    BY <2>1 DEF Once
  <2>3. Min({k}) = k
    BY DEF Min
  <2>4. SelectInSeq(q, LAMBDA v : v = e) = k
    BY <2>2, <2>3 DEF SelectInSeq
  <2>5. RemoveFirst(q, e) = RemoveAt(q, k)
    BY <2>1, <2>4 DEF RemoveFirst
  <2> DEFINE p == RemoveAt(q, k)
  <2>6. /\ p \in Seq(S) /\ Len(p) = Len(q) - 1
        /\ \A i \in 1 .. Len(q) - 1 : p[i] = IF i < k THEN q[i] ELSE q[i + 1]
    BY RemovedAt
  <2> HIDE DEF p
  <2>7. Once(p)
    BY <2>6 DEF Once
  <2>8. ~In(e, p)
    BY <2>1, <2>6 DEF Once, In
  <2>9. ASSUME NEW f, f # e, In(f, q)
        PROVE  In(f, p)
    <3>1. PICK i \in 1 .. Len(q) : q[i] = f
      BY <2>9 DEF In
    <3>2. CASE i < k
      BY <3>1, <3>2, <2>6 DEF In
    <3>3. CASE i > k
      <4>1. i - 1 \in 1 .. Len(p) /\ p[i - 1] = f
        BY <3>1, <3>3, <2>6
      <4> QED
        BY <4>1 DEF In
    <3> QED
      BY <3>1, <3>2, <3>3, <2>1, <2>9
  <2>10. ASSUME NEW f, In(f, p)
         PROVE  In(f, q)
    BY <2>10, <2>6 DEF In
  <2> QED
    BY <2>5, <2>6, <2>7, <2>8, <2>9, <2>10 DEF p
<1> QED
  BY <1>1, <1>2

(* A job that was not there joins the queue. *)
LEMMA Joined ==
  ASSUME NEW S, NEW q \in Seq(S), Once(q), NEW e \in S, ~In(e, q)
  PROVE  /\ Append(q, e) \in Seq(S) /\ Once(Append(q, e))
         /\ \A f : In(f, Append(q, e)) <=> In(f, q) \/ f = e
<1> DEFINE p == Append(q, e)
<1>1. /\ p \in Seq(S) /\ Len(p) = Len(q) + 1 /\ Len(q) \in Nat
      /\ p[Len(q) + 1] = e /\ \A i \in 1 .. Len(q) : p[i] = q[i]
  OBVIOUS
<1> HIDE DEF p
<1>2. \A i \in 1 .. Len(p) : i \in 1 .. Len(q) \/ i = Len(q) + 1
  BY <1>1
<1>3. Once(p)
  BY <1>1, <1>2 DEF Once, In
<1>4. ASSUME NEW f
      PROVE  In(f, p) <=> In(f, q) \/ f = e
  <2>1. In(f, p) => In(f, q) \/ f = e
    BY <1>1, <1>2 DEF In
  <2>2. In(f, q) => In(f, p)
    BY <1>1 DEF In
  <2>3. Len(q) + 1 \in 1 .. Len(p)
    BY <1>1
  <2>4. In(e, p)
    BY <1>1, <2>3 DEF In
  <2> QED
    BY <2>1, <2>2, <2>4
<1> QED
  BY <1>1, <1>3, <1>4 DEF p

(* The head of the queue leaves it. *)
LEMMA HeadLeaves ==
  ASSUME NEW S, NEW q \in Seq(S), Once(q), q # << >>
  PROVE  /\ Tail(q) \in Seq(S) /\ Once(Tail(q))
         /\ \A f : In(f, Tail(q)) <=> In(f, q) /\ f # Head(q)
<1> DEFINE p == Tail(q)
<1>1. /\ p \in Seq(S) /\ Len(p) = Len(q) - 1 /\ Len(q) \in Nat /\ Len(q) >= 1
      /\ \A i \in 1 .. Len(p) : p[i] = q[i + 1]
      /\ Head(q) = q[1]
  OBVIOUS
<1> HIDE DEF p
<1>2. Once(p)
  BY <1>1 DEF Once
<1>3. ASSUME NEW f
      PROVE  In(f, p) <=> In(f, q) /\ f # Head(q)
  <2>1. ASSUME In(f, p)
        PROVE  In(f, q) /\ f # Head(q)
    <3>1. PICK i \in 1 .. Len(p) : p[i] = f
      BY <2>1 DEF In
    <3>2. i + 1 \in 1 .. Len(q) /\ 1 \in 1 .. Len(q) /\ q[i + 1] = f /\ i + 1 # 1
      BY <1>1, <3>1
    <3> QED
      BY <1>1, <3>2 DEF In, Once
  <2>2. ASSUME In(f, q), f # Head(q)
        PROVE  In(f, p)
    <3>1. PICK i \in 1 .. Len(q) : q[i] = f
      BY <2>2 DEF In
    <3>2. i - 1 \in 1 .. Len(p) /\ p[i - 1] = f
      BY <1>1, <2>2, <3>1
    <3> QED
      BY <3>2 DEF In
  <2> QED
    BY <2>1, <2>2
<1> QED
  BY <1>1, <1>2, <1>3 DEF p

LEMMA InitJobsInv == JobsInit => JobsInv
<1> SUFFICES ASSUME JobsInit
             PROVE  JobsInv
  OBVIOUS
<1>1. FreshProgress(0) \in Progress(MaxUrls)
  BY JobsAssumption DEF FreshProgress, Progress, Statuses
<1>2. JobsTyped
  BY <1>1, JobsAssumption DEF JobsInit, JobsTyped
<1>3. QueueOfJobs
  <2>1. << >> \in Seq(Jobs) /\ Once(<< >>) /\ \A j : ~In(j, << >>)
    BY DEF Once, In
  <2> QED
    BY <2>1 DEF JobsInit, QueueOfJobs
<1>4. Permits
  <2>1. AtWork = {}
    BY DEF JobsInit, AtWork, Running
  <2> QED
    BY <2>1, FS_EmptySet, JobsAssumption DEF Permits
<1>5. Unstarted
  BY DEF JobsInit, Unstarted
<1>6. AllTold
  BY DEF JobsInit, AllTold, Told, Coherent, FreshProgress
<1> QED
  BY <1>2, <1>3, <1>4, <1>5, <1>6 DEF JobsInv

(* Nobody new runs. *)
LEMMA NobodyStarts ==
  ASSUME Permits, AtWork' \subseteq AtWork
  PROVE  Permits'
<1>1. IsFiniteSet(AtWork') /\ Cardinality(AtWork') <= Cardinality(AtWork)
  BY FS_Subset DEF Permits
<1>2. Cardinality(AtWork) \in Nat /\ Cardinality(AtWork') \in Nat
  BY <1>1, FS_CardinalityType DEF Permits
<1> QED
  BY <1>1, <1>2, JobsAssumption DEF Permits

(* A job is listed and its task queues for a permit. *)
LEMMA StartInv ==
  ASSUME JobsInv, NEW j \in Jobs, NEW total \in 0 .. MaxUrls, Start(j, total)
  PROVE  JobsInv'
<1> DEFINE fresh == FreshProgress(total)
<1>1. /\ starter[j] = "idle" /\ deleting = None /\ (j \in Crawls => total = 0)
      /\ starter' = [ starter EXCEPT ![j] = "spawned" ]
      /\ listed' = listed \cup {j}
      /\ chan' = [ chan EXCEPT ![j] = fresh ]
      /\ task' = [ task EXCEPT ![j] = "queued" ]
      /\ waiting' = Append(waiting, j)
      /\ age' = age /\ handle' = handle /\ own' = own /\ aborting' = aborting
      /\ deleting' = deleting /\ cancelled' = cancelled
  BY DEF Start, Unlocked
<1>2. fresh \in Progress(MaxUrls) /\ Coherent(fresh) /\ fresh.docs = fresh.completed
  BY JobsAssumption DEF FreshProgress, Progress, Statuses, Coherent
<1>3. task[j] = "none" /\ own[j] = FreshProgress(0)
  BY <1>1 DEF JobsInv, Unstarted
<1>4. fresh.completed = 0 /\ fresh.blocked = 0 /\ fresh.status = "InProgress"
  BY DEF FreshProgress
<1> HIDE DEF fresh
<1>5. JobsTyped'
  BY <1>1, <1>2 DEF JobsInv, JobsTyped
<1>6. QueueOfJobs'
  <2>1. waiting \in Seq(Jobs) /\ Once(waiting) /\ ~In(j, waiting)
    BY <1>3 DEF JobsInv, QueueOfJobs
  <2>2. /\ waiting' \in Seq(Jobs) /\ Once(waiting')
        /\ \A k : In(k, waiting') <=> In(k, waiting) \/ k = j
    BY <1>1, <2>1, Joined
  <2>3. \A k \in Jobs : task'[k] = "queued" <=> task[k] = "queued" \/ k = j
    BY <1>1 DEF JobsInv, JobsTyped
  <2> QED
    BY <2>2, <2>3 DEF JobsInv, QueueOfJobs
<1>7. Permits'
  <2>1. AtWork' \subseteq AtWork
    BY <1>1 DEF JobsInv, JobsTyped, AtWork, Running
  <2> QED
    BY <2>1, NobodyStarts DEF JobsInv
<1>8. Unstarted'
  BY <1>1 DEF JobsInv, JobsTyped, Unstarted
<1>9. AllTold'
  <2> SUFFICES ASSUME NEW k \in Jobs
               PROVE  Told(k)'
    BY DEF AllTold
  <2>1. CASE k = j
    <3>1. chan'[k] = fresh /\ own'[k] = FreshProgress(0) /\ k \in listed'
      BY <1>1, <1>3, <2>1 DEF JobsInv, JobsTyped
    <3>2. /\ FreshProgress(0).completed = 0 /\ FreshProgress(0).blocked = 0
          /\ FreshProgress(0).status = "InProgress" /\ Coherent(FreshProgress(0))
      BY DEF FreshProgress, Coherent
    <3> QED
      BY <1>2, <1>4, <3>1, <3>2 DEF Told
  <2>2. CASE k # j
    <3>1. /\ chan'[k] = chan[k] /\ own'[k] = own[k] /\ task'[k] = task[k] /\ starter'[k] = starter[k]
          /\ (k \in listed' <=> k \in listed)
      BY <1>1, <2>2 DEF JobsInv, JobsTyped
    <3> QED
      BY <1>1, <3>1 DEF JobsInv, AllTold, Told
  <2> QED
    BY <2>1, <2>2
<1> QED
  BY <1>5, <1>6, <1>7, <1>8, <1>9 DEF JobsInv

(* A step that publishes nothing, lists nothing and unlists nothing.         *)
LEMMA NothingTold ==
  ASSUME JobsInv, chan' = chan, own' = own, listed' = listed, cancelled' = cancelled,
         \A k \in Jobs : task[k] = "gone" => task'[k] = "gone",
         \A k \in Jobs : starter[k] = "idle" <=> starter'[k] = "idle"
  PROVE  AllTold'
BY DEF JobsInv, AllTold, Told

(* The handler that started a job stores its abort handle or goes away. *)
LEMMA StarterInv ==
  ASSUME JobsInv, NEW j \in Jobs, StoreHandle(j) \/ StarterDropped(j)
  PROVE  JobsInv'
<1>1. /\ starter[j] = "spawned" /\ starter' = [ starter EXCEPT ![j] = "answered" ]
      /\ handle' = handle \/ \E b \in BOOLEAN : handle' = [ handle EXCEPT ![j] = b ]
      /\ listed' = listed /\ age' = age /\ chan' = chan /\ own' = own /\ task' = task
      /\ aborting' = aborting /\ waiting' = waiting /\ deleting' = deleting
      /\ cancelled' = cancelled
  <2>1. (j \in listed) \in BOOLEAN
    OBVIOUS
  <2> QED
    BY <2>1 DEF StoreHandle, StarterDropped
<1>2. JobsTyped'
  <2>1. handle' \in [ Jobs -> BOOLEAN ]
    BY <1>1 DEF JobsInv, JobsTyped
  <2> QED
    BY <1>1, <2>1 DEF JobsInv, JobsTyped
<1>3. QueueOfJobs'
  BY <1>1 DEF JobsInv, QueueOfJobs
<1>4. Permits'
  BY <1>1 DEF JobsInv, Permits, AtWork, Running
<1>5. \A k \in Jobs : starter[k] = "idle" <=> starter'[k] = "idle"
  BY <1>1 DEF JobsInv, JobsTyped
<1>6. Unstarted'
  <2>1. deleting # None => deleting \in Jobs
    BY DEF JobsInv, JobsTyped
  <2> QED
    BY <1>1, <1>5, <2>1 DEF JobsInv, Unstarted
<1>7. AllTold'
  BY <1>1, <1>5, NothingTold
<1> QED
  BY <1>2, <1>3, <1>4, <1>6, <1>7 DEF JobsInv

(* A permit goes to the head of the queue. *)
LEMMA GrantInv ==
  ASSUME JobsInv, NEW j \in Jobs, Grant(j)
  PROVE  JobsInv'
<1>1. /\ waiting # << >> /\ Head(waiting) = j /\ PermitFree
      /\ waiting' = Tail(waiting) /\ task' = [ task EXCEPT ![j] = "polled" ]
      /\ listed' = listed /\ age' = age /\ handle' = handle /\ chan' = chan /\ own' = own
      /\ aborting' = aborting /\ starter' = starter /\ deleting' = deleting
      /\ cancelled' = cancelled
  BY DEF Grant
<1>2. JobsTyped'
  BY <1>1 DEF JobsInv, JobsTyped
<1>3. waiting \in Seq(Jobs) /\ Once(waiting)
  BY DEF JobsInv, QueueOfJobs
<1>4. /\ waiting' \in Seq(Jobs) /\ Once(waiting')
      /\ \A k : In(k, waiting') <=> In(k, waiting) /\ k # j
  BY <1>1, <1>3, HeadLeaves
<1>5. task[j] = "queued"
  <2>1. 1 \in 1 .. Len(waiting) /\ waiting[1] = j
    BY <1>1, <1>3
  <2> QED
    BY <2>1 DEF JobsInv, QueueOfJobs, In
<1>6. QueueOfJobs'
  <2>1. \A k \in Jobs : task'[k] = "queued" <=> task[k] = "queued" /\ k # j
    BY <1>1 DEF JobsInv, JobsTyped
  <2> QED
    BY <1>4, <2>1 DEF JobsInv, QueueOfJobs
<1>7. Permits'
  <2>1. AtWork' = AtWork \cup {j} /\ j \notin AtWork
    BY <1>1, <1>5 DEF JobsInv, JobsTyped, AtWork, Running
  <2>2. IsFiniteSet(AtWork') /\ Cardinality(AtWork') = Cardinality(AtWork) + 1
    BY <2>1, FS_AddElement DEF JobsInv, Permits
  <2>3. Cardinality(AtWork) \in Nat /\ Cardinality(AtWork) < MaxConcurrent
    BY <1>1, FS_CardinalityType DEF JobsInv, Permits, PermitFree, AtWork
  <2> QED
    BY <2>2, <2>3, JobsAssumption DEF Permits
<1>8. Unstarted'
  BY <1>1, <1>5 DEF JobsInv, JobsTyped, Unstarted
<1>9. AllTold'
  <2>1. \A k \in Jobs : task[k] = "gone" => task'[k] = "gone"
    BY <1>1, <1>5 DEF JobsInv, JobsTyped
  <2> QED
    BY <1>1, <2>1, NothingTold
<1> QED
  BY <1>2, <1>6, <1>7, <1>8, <1>9 DEF JobsInv

(* A task that has its permit is polled or parked. *)
LEMMA PollInv ==
  ASSUME JobsInv, NEW j \in Jobs, Wake(j) \/ Park(j)
  PROVE  JobsInv'
<1>1. /\ task[j] \in {"parked", "polled"}
      /\ \E t \in {"parked", "polled"} : task' = [ task EXCEPT ![j] = t ]
      /\ waiting' = waiting
      /\ listed' = listed /\ age' = age /\ handle' = handle /\ chan' = chan /\ own' = own
      /\ aborting' = aborting /\ starter' = starter /\ deleting' = deleting
      /\ cancelled' = cancelled
  BY DEF Wake, Park
<1>2. /\ task' \in [ Jobs -> {"none", "queued", "parked", "polled", "gone"} ]
      /\ task'[j] \in {"parked", "polled"}
      /\ \A k \in Jobs \ {j} : task'[k] = task[k]
  BY <1>1 DEF JobsInv, JobsTyped
<1>3. JobsTyped'
  BY <1>1, <1>2 DEF JobsInv, JobsTyped
<1>4. QueueOfJobs'
  <2>1. \A k \in Jobs : task'[k] = "queued" <=> task[k] = "queued"
    BY <1>1, <1>2
  <2> QED
    BY <1>1, <2>1 DEF JobsInv, QueueOfJobs
<1>5. Permits'
  <2>1. AtWork' \subseteq AtWork
    BY <1>1, <1>2 DEF AtWork, Running
  <2> QED
    BY <2>1, NobodyStarts DEF JobsInv
<1>6. Unstarted'
  BY <1>1, <1>2 DEF JobsInv, Unstarted
<1>7. AllTold'
  BY <1>1, <1>2, NothingTold
<1> QED
  BY <1>3, <1>4, <1>5, <1>6, <1>7 DEF JobsInv

(* An aborted task is dropped, and its place in the queue with it. *)
LEMMA DropInv ==
  ASSUME JobsInv, NEW j \in Jobs, Drop(j)
  PROVE  JobsInv'
<1>1. /\ task[j] \in {"queued", "parked"} /\ task' = [ task EXCEPT ![j] = "gone" ]
      /\ waiting' = RemoveFirst(waiting, j)
      /\ listed' = listed /\ age' = age /\ handle' = handle /\ chan' = chan /\ own' = own
      /\ aborting' = aborting /\ starter' = starter /\ deleting' = deleting
      /\ cancelled' = cancelled
  BY DEF Drop
<1>2. /\ task' \in [ Jobs -> {"none", "queued", "parked", "polled", "gone"} ]
      /\ task'[j] = "gone"
      /\ \A k \in Jobs \ {j} : task'[k] = task[k]
  BY <1>1 DEF JobsInv, JobsTyped
<1>3. JobsTyped'
  BY <1>1, <1>2 DEF JobsInv, JobsTyped
<1>4. QueueOfJobs'
  <2>1. waiting \in Seq(Jobs) /\ Once(waiting)
    BY DEF JobsInv, QueueOfJobs
  <2>2. /\ waiting' \in Seq(Jobs) /\ Once(waiting') /\ ~In(j, waiting')
        /\ \A k : k # j => (In(k, waiting') <=> In(k, waiting))
    BY <1>1, <2>1, Removed
  <2> QED
    BY <1>2, <2>2 DEF JobsInv, QueueOfJobs
<1>5. Permits'
  <2>1. AtWork' \subseteq AtWork
    BY <1>2 DEF AtWork, Running
  <2> QED
    BY <2>1, NobodyStarts DEF JobsInv
<1>6. Unstarted'
  BY <1>1, <1>2 DEF JobsInv, Unstarted
<1>7. AllTold'
  BY <1>1, <1>2, NothingTold
<1> QED
  BY <1>3, <1>4, <1>5, <1>6, <1>7 DEF JobsInv

(* One job's state is published: everything else stands. *)
LEMMA OneTold ==
  ASSUME JobsInv, NEW j \in Jobs, NEW p \in Progress(MaxUrls), NEW q \in Progress(MaxUrls),
         chan' = [ chan EXCEPT ![j] = p ], own' = [ own EXCEPT ![j] = q ],
         task[j] = "polled",
         task' = task \/ task' = [ task EXCEPT ![j] = "gone" ],
         listed' = listed, age' = age, handle' = handle, aborting' = aborting,
         waiting' = waiting, starter' = starter, deleting' = deleting, cancelled' = cancelled,
         Told(j)'
  PROVE  JobsInv'
<1>1. /\ task' \in [ Jobs -> {"none", "queued", "parked", "polled", "gone"} ]
      /\ task'[j] \in {"polled", "gone"}
      /\ \A k \in Jobs \ {j} : task'[k] = task[k]
  BY DEF JobsInv, JobsTyped
<1>2. /\ chan' \in [ Jobs -> Progress(MaxUrls) ] /\ own' \in [ Jobs -> Progress(MaxUrls) ]
      /\ \A k \in Jobs \ {j} : chan'[k] = chan[k] /\ own'[k] = own[k]
  BY DEF JobsInv, JobsTyped
<1>3. JobsTyped'
  BY <1>1, <1>2 DEF JobsInv, JobsTyped
<1>4. QueueOfJobs'
  BY <1>1 DEF JobsInv, QueueOfJobs
<1>5. Permits'
  <2>1. AtWork' \subseteq AtWork
    BY <1>1 DEF AtWork, Running
  <2> QED
    BY <2>1, NobodyStarts DEF JobsInv
<1>6. Unstarted'
  BY <1>1, <1>2 DEF JobsInv, Unstarted
<1>7. AllTold'
  <2> SUFFICES ASSUME NEW k \in Jobs
               PROVE  Told(k)'
    BY DEF AllTold
  <2>1. CASE k # j
    BY <1>1, <1>2, <2>1 DEF JobsInv, AllTold, Told
  <2> QED
    BY <2>1
<1> QED
  BY <1>3, <1>4, <1>5, <1>6, <1>7 DEF JobsInv

(* What the task and the table know of a job under way. *)
LEMMA UnderWay ==
  ASSUME JobsInv, NEW j \in Jobs, task[j] = "polled"
  PROVE  /\ chan[j] \in Progress(MaxUrls) /\ own[j] \in Progress(MaxUrls)
         /\ starter[j] # "idle" /\ Told(j)
         /\ own = [ own EXCEPT ![j] = own[j] ] /\ chan = [ chan EXCEPT ![j] = chan[j] ]
<1>1. starter[j] # "idle" /\ Told(j)
  BY DEF JobsInv, Unstarted, AllTold
<1>2. /\ chan[j] \in Progress(MaxUrls) /\ own[j] \in Progress(MaxUrls)
      /\ own = [ own EXCEPT ![j] = own[j] ] /\ chan = [ chan EXCEPT ![j] = chan[j] ]
  BY DEF JobsInv, JobsTyped
<1> QED
  BY <1>1, <1>2

(* What may follow a state of a crawl that agrees with itself. *)
LEMMA Advanced ==
  ASSUME NEW m \in Nat, NEW p \in Progress(m), NEW q \in AdvancesOf(p, m), Coherent(p)
  PROVE  /\ q \in Progress(m) /\ Coherent(q) /\ q.status = "InProgress"
         /\ q.completed >= p.completed /\ q.blocked >= p.blocked
<1>1. PICK t \in { u \in p.total .. m : u > p.completed }, b \in 0 .. 1 :
        q = [ status |-> "InProgress", total |-> t, completed |-> p.completed + 1,
              blocked |-> p.blocked + b, docs |-> 0 ]
  BY DEF AdvancesOf
<1>2. /\ p.total \in 0 .. m /\ p.completed \in 0 .. m /\ p.blocked \in 0 .. m
      /\ p.blocked <= p.completed /\ p.completed <= p.total
  BY DEF Progress, Coherent
<1>3. /\ t \in 0 .. m /\ p.completed + 1 \in 0 .. m /\ p.blocked + b \in 0 .. m /\ 0 \in 0 .. m
      /\ p.blocked + b <= p.completed + 1 /\ p.completed + 1 <= t
      /\ p.completed + 1 >= p.completed /\ p.blocked + b >= p.blocked
  BY <1>2
<1> QED
  BY <1>1, <1>3 DEF Progress, Statuses, Coherent

LEMMA Finished ==
  ASSUME NEW m \in Nat, NEW p \in Progress(m), NEW q \in FinishesOf(p, m), Coherent(p)
  PROVE  /\ q \in Progress(m) /\ Coherent(q) /\ q.status = "Completed"
         /\ q.completed = p.completed /\ q.blocked = p.blocked
<1>1. PICK t \in p.total .. m :
        q = [ p EXCEPT !.status = "Completed", !.total = t, !.docs = p.completed ]
  BY DEF FinishesOf
<1>2. q = [ status |-> "Completed", total |-> t, completed |-> p.completed,
            blocked |-> p.blocked, docs |-> p.completed ]
  BY <1>1, CompletedState
<1>3. /\ p.total \in 0 .. m /\ p.completed \in 0 .. m /\ p.blocked \in 0 .. m
      /\ p.blocked <= p.completed /\ p.completed <= p.total
  BY DEF Progress, Coherent
<1>4. t \in 0 .. m /\ p.completed <= t
  BY <1>3
<1> QED
  BY <1>2, <1>3, <1>4 DEF Progress, Statuses, Coherent

(* No counter that is polled falls. *)
Upward(j) ==
  /\ starter[j] # "idle" =>
       chan'[j].completed >= chan[j].completed /\ chan'[j].blocked >= chan[j].blocked
  /\ j \in Batches /\ chan[j].status = "Cancelled" => (chan'[j].status = "Cancelled")

(* A crawl publishes a page, from its own counters. *)
LEMMA CrawlPageInv ==
  ASSUME JobsInv, NEW j \in Jobs, CrawlPage(j)
  PROVE  JobsInv' /\ Upward(j) /\ \A k \in Jobs \ {j} : chan'[k] = chan[k]
<1>1. PICK q \in AdvancesOf(own[j], MaxUrls) :
        own' = [ own EXCEPT ![j] = q ] /\ chan' = [ chan EXCEPT ![j] = q ]
  BY DEF CrawlPage, Reported
<1>2. /\ j \in Crawls /\ task[j] = "polled" /\ task' = task
      /\ listed' = listed /\ age' = age /\ handle' = handle /\ aborting' = aborting
      /\ waiting' = waiting /\ starter' = starter /\ deleting' = deleting
      /\ cancelled' = cancelled
  BY DEF CrawlPage
<1>3. chan[j] \in Progress(MaxUrls) /\ own[j] \in Progress(MaxUrls) /\ Told(j)
  BY <1>2, UnderWay
<1>4. /\ q \in Progress(MaxUrls) /\ Coherent(q) /\ q.status = "InProgress"
      /\ q.completed >= own[j].completed /\ q.blocked >= own[j].blocked
  BY <1>2, <1>3, JobsAssumption, Advanced DEF Told
<1>5. own'[j] = q /\ chan'[j] = q /\ \A k \in Jobs \ {j} : chan'[k] = chan[k]
  BY <1>1 DEF JobsInv, JobsTyped
<1>6. j \notin Batches
  BY <1>2, JobsAssumption
<1>7. Told(j)'
  BY <1>2, <1>3, <1>4, <1>5, <1>6 DEF Told, Terminal
<1>8. Upward(j)
  BY <1>2, <1>3, <1>4, <1>5, <1>6 DEF Told, Upward
<1>9. JobsInv'
  BY <1>1, <1>2, <1>4, <1>7, OneTold
<1> QED
  BY <1>5, <1>8, <1>9

(* A crawl completes with its own counters, or fails before its first page.  *)
LEMMA CrawlEndInv ==
  ASSUME JobsInv, NEW j \in Jobs, CrawlEnd(j)
  PROVE  JobsInv' /\ Upward(j) /\ \A k \in Jobs \ {j} : chan'[k] = chan[k]
<1>1. /\ j \in Crawls /\ task[j] = "polled" /\ task' = [ task EXCEPT ![j] = "gone" ]
      /\ listed' = listed /\ age' = age /\ handle' = handle /\ aborting' = aborting
      /\ waiting' = waiting /\ starter' = starter /\ deleting' = deleting
      /\ cancelled' = cancelled /\ own' = own
  BY DEF CrawlEnd
<1>2. PICK q : /\ chan' = [ chan EXCEPT ![j] = q ]
               /\ \/ q \in FinishesOf(own[j], MaxUrls)
                  \/ own[j] = FreshProgress(0) /\ q = FailedProgress
  BY DEF CrawlEnd
<1>3. /\ chan[j] \in Progress(MaxUrls) /\ own[j] \in Progress(MaxUrls) /\ Told(j)
      /\ own' = [ own EXCEPT ![j] = own[j] ]
  BY <1>1, UnderWay
<1>4. /\ q \in Progress(MaxUrls) /\ Coherent(q) /\ Terminal(q)
      /\ q.completed = own[j].completed /\ q.blocked = own[j].blocked
  <2>1. CASE q \in FinishesOf(own[j], MaxUrls)
    BY <1>1, <1>3, <2>1, JobsAssumption, Finished DEF Told, Terminal
  <2>2. CASE own[j] = FreshProgress(0) /\ q = FailedProgress
    BY <2>2, JobsAssumption
    DEF FreshProgress, FailedProgress, Progress, Statuses, Coherent, Terminal
  <2> QED
    BY <1>2, <2>1, <2>2
<1>5. /\ chan'[j] = q /\ own'[j] = own[j] /\ task'[j] = "gone"
      /\ \A k \in Jobs \ {j} : chan'[k] = chan[k]
  BY <1>1, <1>2 DEF JobsInv, JobsTyped
<1>6. j \notin Batches
  BY <1>1, JobsAssumption
<1>7. Told(j)'
  BY <1>1, <1>3, <1>4, <1>5, <1>6 DEF Told
<1>8. Upward(j)
  <2>1. own[j].completed \in Nat /\ own[j].blocked \in Nat
    BY <1>3 DEF Progress
  <2> QED
    BY <1>1, <1>3, <1>4, <1>5, <1>6, <2>1 DEF Told, Upward
<1>9. JobsInv'
  BY <1>1, <1>2, <1>3, <1>4, <1>7, OneTold
<1> QED
  BY <1>5, <1>8, <1>9

(* What a page does to the state of a batch. *)
LEMMA PageOfBatch ==
  ASSUME NEW m \in Nat, NEW p \in Progress(m), NEW b \in 0 .. 1, NEW q,
         q = AfterPage(WithPage(p, b)),
         Coherent(p), p.docs = p.completed, p.completed < p.total
  PROVE  /\ q \in Progress(m) /\ Coherent(q) /\ q.docs = q.completed
         /\ q.completed >= p.completed /\ q.blocked >= p.blocked
         /\ Terminal(p) => q.status = p.status
<1> DEFINE w == WithPage(p, b)
<1>1. /\ p.total \in 0 .. m /\ p.completed \in 0 .. m /\ p.blocked \in 0 .. m
      /\ p.docs \in 0 .. m /\ p.status \in Statuses
      /\ p.blocked <= p.completed /\ p.completed <= p.total
  BY DEF Progress, Coherent
<1>2. /\ p.completed + 1 \in 0 .. m /\ p.blocked + b \in 0 .. m /\ p.docs + 1 \in 0 .. m
      /\ p.blocked + b <= p.completed + 1 /\ p.completed + 1 <= p.total
      /\ p.completed + 1 >= p.completed /\ p.blocked + b >= p.blocked
  BY <1>1
<1>3. w = [ p EXCEPT !.completed = p.completed + 1, !.blocked = p.blocked + b,
                     !.docs = p.docs + 1 ]
  BY DEF WithPage
<1> HIDE DEF w
<1>4. /\ w.status = p.status /\ w.total = p.total /\ w.completed = p.completed + 1
      /\ w.blocked = p.blocked + b /\ w.docs = p.docs + 1
      /\ w \in Progress(m)
  BY <1>2, <1>3 DEF Progress
<1>5. q = w \/ (w.status = "InProgress" /\ q = [ w EXCEPT !.status = "Completed" ])
  BY DEF AfterPage, w
<1>6. /\ q \in Progress(m) /\ q.total = w.total /\ q.completed = w.completed
      /\ q.blocked = w.blocked /\ q.docs = w.docs
      /\ q.status = w.status \/ w.status = "InProgress"
  BY <1>4, <1>5 DEF Progress, Statuses
<1> QED
  BY <1>1, <1>2, <1>4, <1>6 DEF Coherent, Terminal

(* A page of a batch changes the published state in place. *)
LEMMA BatchPageInv ==
  ASSUME JobsInv, NEW j \in Jobs, BatchPage(j)
  PROVE  JobsInv' /\ Upward(j) /\ \A k \in Jobs \ {j} : chan'[k] = chan[k]
<1>1. /\ j \in Batches /\ task[j] = "polled" /\ task' = task
      /\ chan[j].completed < chan[j].total
      /\ listed' = listed /\ age' = age /\ handle' = handle /\ aborting' = aborting
      /\ waiting' = waiting /\ starter' = starter /\ deleting' = deleting
      /\ cancelled' = cancelled /\ own' = own
  BY DEF BatchPage
<1>2. /\ chan[j] \in Progress(MaxUrls) /\ own[j] \in Progress(MaxUrls) /\ Told(j)
      /\ own' = [ own EXCEPT ![j] = own[j] ]
  BY <1>1, UnderWay
<1>3. PICK b \in 0 .. 1 : chan' = [ chan EXCEPT ![j] = AfterPage(WithPage(chan[j], b)) ]
  BY DEF BatchPage
<1> DEFINE q == AfterPage(WithPage(chan[j], b))
<1>4. chan' = [ chan EXCEPT ![j] = q ]
  BY <1>3
<1>5. /\ q \in Progress(MaxUrls) /\ Coherent(q) /\ q.docs = q.completed
      /\ q.completed >= chan[j].completed /\ q.blocked >= chan[j].blocked
      /\ Terminal(chan[j]) => q.status = chan[j].status
  BY <1>1, <1>2, JobsAssumption, PageOfBatch DEF Told
<1> HIDE DEF q
<1>6. chan'[j] = q /\ \A k \in Jobs \ {j} : chan'[k] = chan[k]
  BY <1>4 DEF JobsInv, JobsTyped
<1>7. j \notin Crawls
  BY <1>1, JobsAssumption
<1>8. Told(j)'
  BY <1>1, <1>2, <1>5, <1>6, <1>7 DEF Told, Terminal
<1>9. Upward(j)
  BY <1>1, <1>5, <1>6 DEF Upward, Terminal
<1>10. JobsInv'
  BY <1>1, <1>2, <1>4, <1>5, <1>8, OneTold
<1> QED
  BY <1>6, <1>9, <1>10

(* Every URL of a batch was scraped. *)
LEMMA BatchEndInv ==
  ASSUME JobsInv, NEW j \in Jobs, BatchEnd(j)
  PROVE  JobsInv' /\ chan' = chan
<1>1. /\ j \in Batches /\ task[j] = "polled" /\ task' = [ task EXCEPT ![j] = "gone" ]
      /\ listed' = listed /\ age' = age /\ handle' = handle /\ aborting' = aborting
      /\ waiting' = waiting /\ starter' = starter /\ deleting' = deleting
      /\ cancelled' = cancelled /\ own' = own /\ chan' = chan
  BY DEF BatchEnd
<1>2. /\ chan[j] \in Progress(MaxUrls) /\ own[j] \in Progress(MaxUrls) /\ Told(j)
      /\ own' = [ own EXCEPT ![j] = own[j] ] /\ chan' = [ chan EXCEPT ![j] = chan[j] ]
  BY <1>1, UnderWay
<1>3. j \notin Crawls
  BY <1>1, JobsAssumption
<1>4. Told(j)'
  BY <1>1, <1>2, <1>3 DEF Told
<1> QED
  BY <1>1, <1>2, <1>4, OneTold

(* DELETE looks at the job, with the table's lock in hand. *)
LEMMA DeleteChecksInv ==
  ASSUME JobsInv, NEW j \in Jobs, DeleteChecks(j)
  PROVE  JobsInv'
<1>1. /\ j \in listed /\ deleting' = j
      /\ listed' = listed /\ age' = age /\ handle' = handle /\ chan' = chan /\ own' = own
      /\ task' = task /\ aborting' = aborting /\ waiting' = waiting /\ starter' = starter
      /\ cancelled' = cancelled
  BY DEF DeleteChecks
<1>2. JobsTyped'
  BY <1>1 DEF JobsInv, JobsTyped
<1>3. QueueOfJobs' /\ Permits'
  BY <1>1 DEF JobsInv, QueueOfJobs, Permits, AtWork, Running
<1>4. Unstarted'
  BY <1>1 DEF JobsInv, Unstarted
<1>5. AllTold'
  BY <1>1, NothingTold
<1> QED
  BY <1>2, <1>3, <1>4, <1>5 DEF JobsInv

(* DELETE marks the job, whatever was published since it looked. *)
LEMMA DeleteMarksInv ==
  ASSUME JobsInv, NEW j \in Jobs, DeleteMarks(j)
  PROVE  JobsInv' /\ Upward(j) /\ \A k \in Jobs \ {j} : chan'[k] = chan[k]
<1> DEFINE q == [ chan[j] EXCEPT !.status = "Cancelled" ]
<1>1. /\ deleting = j /\ deleting' = None
      /\ handle' = [ handle EXCEPT ![j] = FALSE ]
      /\ chan' = [ chan EXCEPT ![j] = q ]
      /\ cancelled' = cancelled \cup {j}
      /\ listed' = listed /\ age' = age /\ own' = own /\ task' = task
      /\ waiting' = waiting /\ starter' = starter
  <2>1. chan' = [ chan EXCEPT ![j].status = "Cancelled" ]
    BY DEF DeleteMarks
  <2>2. [ chan EXCEPT ![j].status = "Cancelled" ] = [ chan EXCEPT ![j] = q ]
    BY DEF JobsInv, JobsTyped
  <2> HIDE DEF q
  <2> QED
    BY <2>1, <2>2 DEF DeleteMarks
<1>2. \E b \in BOOLEAN : aborting' = [ aborting EXCEPT ![j] = b ]
  <2>1. (aborting[j] \/ (handle[j] /\ task[j] # "gone")) \in BOOLEAN
    OBVIOUS
  <2>2. aborting' = [ aborting EXCEPT ![j] = aborting[j] \/ (handle[j] /\ task[j] # "gone") ]
    BY DEF DeleteMarks
  <2> QED
    BY <2>1, <2>2
<1>3. /\ q \in Progress(MaxUrls) /\ q.status = "Cancelled"
      /\ q.total = chan[j].total /\ q.completed = chan[j].completed
      /\ q.blocked = chan[j].blocked /\ q.docs = chan[j].docs
  BY DEF JobsInv, JobsTyped, Progress, Statuses
<1> HIDE DEF q
<1>4. chan'[j] = q /\ \A k \in Jobs \ {j} : chan'[k] = chan[k]
  BY <1>1 DEF JobsInv, JobsTyped
<1>5. starter[j] # "idle" /\ j # None
  BY <1>1, JobsAssumption DEF JobsInv, Unstarted
<1>6. JobsTyped'
  <2>1. aborting' \in [ Jobs -> BOOLEAN ]
    BY <1>2 DEF JobsInv, JobsTyped
  <2>2. chan' \in [ Jobs -> Progress(MaxUrls) ] /\ handle' \in [ Jobs -> BOOLEAN ]
    BY <1>1, <1>3 DEF JobsInv, JobsTyped
  <2> QED
    BY <1>1, <2>1, <2>2 DEF JobsInv, JobsTyped
<1>7. QueueOfJobs' /\ Permits'
  BY <1>1 DEF JobsInv, QueueOfJobs, Permits, AtWork, Running
<1>8. Unstarted'
  BY <1>1, <1>4, <1>5 DEF JobsInv, Unstarted
<1>9. AllTold'
  <2> SUFFICES ASSUME NEW k \in Jobs
               PROVE  Told(k)'
    BY DEF AllTold
  <2>1. Told(k)
    BY DEF JobsInv, AllTold
  <2>2. CASE k = j
    BY <1>1, <1>3, <1>4, <2>1, <2>2 DEF Told, Coherent
  <2>3. CASE k # j
    BY <1>1, <1>4, <2>1, <2>3 DEF Told
  <2> QED
    BY <2>2, <2>3
<1>10. Upward(j)
  <2>1. chan[j].completed \in Nat /\ chan[j].blocked \in Nat
    BY DEF JobsInv, JobsTyped, Progress
  <2> QED
    BY <1>3, <1>4, <2>1 DEF Upward
<1> QED
  BY <1>4, <1>6, <1>7, <1>8, <1>9, <1>10 DEF JobsInv

(* What is evicted is terminal, and time passes. *)
LEMMA CleanupInv ==
  ASSUME JobsInv, Cleanup \/ Tick
  PROVE  JobsInv'
<1>1. /\ listed' \subseteq listed /\ \A j \in listed \ listed' : Terminal(chan[j])
      /\ handle' = handle /\ chan' = chan /\ own' = own /\ task' = task
      /\ aborting' = aborting /\ waiting' = waiting /\ starter' = starter
      /\ deleting' = deleting /\ cancelled' = cancelled
  BY DEF Cleanup, Expired, Tick
<1>2. age' \in [ Jobs -> 0 .. Ttl ]
  <2>1. CASE Cleanup
    BY <2>1 DEF Cleanup, JobsInv, JobsTyped
  <2>2. CASE Tick
    <3>1. ASSUME NEW j \in Jobs
          PROVE  (IF j \in listed THEN Least(age[j] + 1, Ttl) ELSE age[j]) \in 0 .. Ttl
      <4>1. age[j] \in 0 .. Ttl
        BY DEF JobsInv, JobsTyped
      <4> QED
        BY <4>1, JobsAssumption DEF Least
    <3>2. age' = [ j \in Jobs |-> IF j \in listed THEN Least(age[j] + 1, Ttl) ELSE age[j] ]
      BY <2>2 DEF Tick
    <3> QED
      BY <3>1, <3>2
  <2> QED
    BY <2>1, <2>2
<1>3. JobsTyped'
  BY <1>1, <1>2 DEF JobsInv, JobsTyped
<1>4. QueueOfJobs' /\ Permits'
  BY <1>1 DEF JobsInv, QueueOfJobs, Permits, AtWork, Running
<1>5. Unstarted'
  BY <1>1 DEF JobsInv, Unstarted
<1>6. AllTold'
  BY <1>1 DEF JobsInv, AllTold, Told
<1> QED
  BY <1>3, <1>4, <1>5, <1>6 DEF JobsInv

(* Nothing is published, unless a job starts. *)
LEMMA NothingFalls ==
  ASSUME JobsInv, NEW k \in Jobs, chan'[k] = chan[k]
  PROVE  Upward(k)
<1>1. chan[k].completed \in Nat /\ chan[k].blocked \in Nat
  BY DEF JobsInv, JobsTyped, Progress
<1> QED
  BY <1>1 DEF Upward

(* Only one job is told of: the others stand. *)
LEMMA OthersStand ==
  ASSUME JobsInv, NEW j \in Jobs, Upward(j), \A k \in Jobs \ {j} : chan'[k] = chan[k]
  PROVE  \A k \in Jobs : Upward(k)
BY NothingFalls

LEMMA JobsStep ==
  ASSUME JobsInv, [JobsNext]_jobsVars
  PROVE  JobsInv' /\ \A k \in Jobs : Upward(k)
<1>1. CASE \E j \in Jobs, total \in 0 .. MaxUrls : Start(j, total)
  <2>1. PICK j \in Jobs, total \in 0 .. MaxUrls : Start(j, total)
    BY <1>1
  <2>2. starter[j] = "idle" /\ chan[j] = FreshProgress(0) /\ \A k \in Jobs \ {j} : chan'[k] = chan[k]
    BY <2>1 DEF Start, JobsInv, JobsTyped, Unstarted
  <2>3. Upward(j)
    BY <2>2 DEF Upward, FreshProgress
  <2> QED
    BY <2>1, <2>2, <2>3, StartInv, OthersStand
<1>2. CASE \E j \in Jobs : StoreHandle(j) \/ StarterDropped(j)
  BY <1>2, StarterInv, NothingFalls DEF StoreHandle, StarterDropped
<1>3. CASE \E j \in Jobs : Grant(j)
  BY <1>3, GrantInv, NothingFalls DEF Grant
<1>4. CASE \E j \in Jobs : Wake(j) \/ Park(j)
  BY <1>4, PollInv, NothingFalls DEF Wake, Park
<1>5. CASE \E j \in Jobs : Drop(j)
  BY <1>5, DropInv, NothingFalls DEF Drop
<1>6. CASE \E j \in Jobs : CrawlPage(j)
  BY <1>6, CrawlPageInv, OthersStand
<1>7. CASE \E j \in Jobs : CrawlEnd(j)
  BY <1>7, CrawlEndInv, OthersStand
<1>8. CASE \E j \in Jobs : BatchPage(j)
  BY <1>8, BatchPageInv, OthersStand
<1>9. CASE \E j \in Jobs : BatchEnd(j)
  BY <1>9, BatchEndInv, NothingFalls
<1>10. CASE \E j \in Jobs : DeleteChecks(j)
  BY <1>10, DeleteChecksInv, NothingFalls DEF DeleteChecks
<1>11. CASE \E j \in Jobs : DeleteMarks(j)
  BY <1>11, DeleteMarksInv, OthersStand
<1>12. CASE Cleanup \/ Tick
  BY <1>12, CleanupInv, NothingFalls DEF Cleanup, Tick
<1>13. CASE UNCHANGED jobsVars
  <2>1. /\ listed' = listed /\ age' = age /\ handle' = handle /\ chan' = chan /\ own' = own
        /\ task' = task /\ aborting' = aborting /\ waiting' = waiting /\ starter' = starter
        /\ deleting' = deleting /\ cancelled' = cancelled
    BY <1>13 DEF jobsVars
  <2>2. JobsTyped' /\ QueueOfJobs' /\ Permits' /\ Unstarted' /\ AllTold'
    BY <2>1 DEF JobsInv, JobsTyped, QueueOfJobs, Permits, AtWork, Running, Unstarted, AllTold, Told
  <2> QED
    BY <2>1, <2>2, NothingFalls DEF JobsInv
<1> QED
  BY <1>1, <1>2, <1>3, <1>4, <1>5, <1>6, <1>7, <1>8, <1>9, <1>10, <1>11, <1>12, <1>13
  DEF JobsNext, PageStep

(* The table, the queue and the permits agree with the tasks, and what is    *)
(* published with their work, in every reachable state: any number of jobs,  *)
(* permits and pages.                                                        *)
THEOREM JobsInductive == JobsSpec => []JobsInv
<1>1. JobsInv /\ [JobsNext]_jobsVars => JobsInv'
  BY JobsStep
<1> QED
  BY InitJobsInv, <1>1, PTL DEF JobsSpec

(* Every variable keeps its type, the queue holds the waiting tasks once     *)
(* each, and no more tasks run than there are permits.                       *)
LEMMA JobsTypes == JobsInv => JobsTypeOK
<1> SUFFICES ASSUME JobsInv
             PROVE  JobsTypeOK
  OBVIOUS
<1>1. waiting \in Seq(Jobs) /\ DOMAIN waiting = 1 .. Len(waiting)
  BY DEF JobsInv, QueueOfJobs
<1>2. IsInjective(waiting)
  BY <1>1 DEF JobsInv, QueueOfJobs, Once, IsInjective
<1>3. ToSet(waiting) = { j \in Jobs : task[j] = "queued" }
  <2>1. ToSet(waiting) = { waiting[i] : i \in 1 .. Len(waiting) }
    BY <1>1 DEF ToSet
  <2>2. \A i \in 1 .. Len(waiting) : waiting[i] \in Jobs
    BY <1>1, Element
  <2>3. \A j \in Jobs : (\E i \in 1 .. Len(waiting) : waiting[i] = j) <=> task[j] = "queued"
    BY DEF JobsInv, QueueOfJobs, In
  <2> QED
    BY <2>1, <2>2, <2>3
<1>4. Cardinality({ j \in Jobs : Running(j) }) <= MaxConcurrent
  BY DEF JobsInv, Permits, AtWork
<1> QED
  BY <1>2, <1>3, <1>4 DEF JobsInv, JobsTyped, JobsTypeOK

(* What the table says of its jobs agrees with their work, whatever the      *)
(* order of pages, DELETE, eviction and the end of the task.                 *)
THEOREM TableSound == JobsSpec => []TableIsSound
<1>1. JobsInv => TableIsSound
  BY JobsTypes DEF JobsInv, AllTold, Told, TableIsSound, CountersAgree, KeptAtWork
<1> QED
  BY JobsInductive, <1>1, PTL

(* A poller never sees a counter fall, and a cancelled batch stays           *)
(* cancelled, whatever its task still finishes.                              *)
THEOREM ChannelNeverFalls == JobsSpec => ChannelStands
<1>1. JobsInv /\ [JobsNext]_jobsVars =>
        [ \A j \in Jobs :
            /\ starter[j] # "idle" =>
                 chan'[j].completed >= chan[j].completed /\ chan'[j].blocked >= chan[j].blocked
            /\ j \in Batches /\ chan[j].status = "Cancelled" =>
                 (chan'[j].status = "Cancelled") ]_jobsVars
  BY JobsStep DEF Upward
<1> QED
  BY JobsInductive, <1>1, PTL DEF JobsSpec, ChannelStands
=============================================================================
