------------------------------- MODULE Scrape -------------------------------
(***************************************************************************)
(* single.rs (scrape_url_inner) and page_cache.rs: scrapes of one page that  *)
(* share the cache under one key.  A scrape reads the cache or fetches,        *)
(* extracts, may fetch again with a browser when the markdown is thin or poor, *)
(* judges what it has, and stores it if it is worth replaying.  Each action    *)
(* is what one scrape does between two awaits; time passes in between.          *)
(*                                                                           *)
(* A page is one fetch result: what is wrong with it, which tier made it, when *)
(* and for whom.  The markdown belongs to the scrape that extracts it: 0 none,  *)
(* 1 below the retry threshold, 2 enough.                                       *)
(***************************************************************************)
EXTENDS Integers, FiniteSets

CONSTANTS
  Scrapes,     \* requests with the same cache key
  MaxAge,      \* effective_max_age of each, 0 where it reads nothing
  Budget,      \* time from the start of each to its deadline
  Storing,     \* those whose store_in_cache is not false
  Edges,       \* where a time budget falls into the next bucket
  MinTier,     \* MIN_TIER_BUDGET
  LastTime,    \* bound on the clock
  NoPage       \* no entry

ASSUME ScrapeAssumption ==
  /\ MaxAge \in [ Scrapes -> Nat ] /\ Budget \in [ Scrapes -> Nat ]
  /\ Storing \subseteq Scrapes
  /\ Edges \subseteq Nat /\ IsFiniteSet(Edges)
  /\ \A e \in Edges : e > 0
  /\ MinTier \in Nat /\ LastTime \in Nat

VARIABLES
  now,      \* the clock
  cache,    \* the entry of the key, or NoPage
  sc        \* each scrape

vars == << now, cache, sc >>

(* error: a status outside 2xx, cdn: 520..527.  cut: truncated.  wall: the     *)
(* ladder met a block page.  tagged: an HTTP body for which the ladder failed.  *)
(* One at most: a second changes nothing but how a scrape ends that keeps none. *)
Flaws == {"none", "error", "cdn", "cut", "wall", "tagged"}

(* low: HTTP or LightPanda made it.  born, by: when and for whom the network   *)
(* returned it.  late: its deadline had passed.  left: the least budget any of *)
(* its fetches was decided with.                                               *)
Pages == [ flaw : Flaws, low : BOOLEAN, late : BOOLEAN,
           born : 0..LastTime, by : Scrapes, left : Nat ]

Left(s) == IF sc[s].start + Budget[s] > now THEN sc[s].start + Budget[s] - now ELSE 0
Least(a, b) == IF a < b THEN a ELSE b

Bucket(ms) == Cardinality({ e \in Edges : e <= ms })

(* page is fetch_result, of the fetch whose html and extraction are in hand.  *)
Waiting == [ pc |-> "away", start |-> 0, page |-> NoPage, of |-> NoPage, md |-> 0,
             hit |-> FALSE, stamp |-> 0, standIn |-> FALSE, again |-> FALSE, out |-> "none" ]

Init == now = 0 /\ cache = NoPage /\ sc = [ s \in Scrapes |-> Waiting ]

Set(s, rec) == sc' = [ sc EXCEPT ![s] = rec ]
Fail(s) == sc' = [ sc EXCEPT ![s] = [ Waiting EXCEPT !.pc = "done", !.out = "error" ] ]

Begin(s) ==
  /\ sc[s].pc = "away"
  /\ sc' = [ sc EXCEPT ![s].pc = "lookup", ![s].start = now ]
  /\ UNCHANGED << now, cache >>

-----------------------------------------------------------------------------
(* page_cache.rs *)

(* Mutant: an entry made in a hurry is good enough for everybody. *)
MutReadable(s) == cache # NoPage /\ MaxAge[s] > 0 /\ now - cache.stamp <= MaxAge[s]

(* Age and budget are compared by the reader. *)
Readable(s) ==
  /\ cache # NoPage /\ MaxAge[s] > 0
  /\ now - cache.stamp <= MaxAge[s]
  /\ cache.bucket >= Bucket(Left(s))

Lookup(s) ==
  /\ sc[s].pc = "lookup"
  /\ IF Readable(s)
     THEN Set(s, [ sc[s] EXCEPT !.pc = "extract", !.page = cache.page, !.of = cache.page,
                                !.hit = TRUE, !.stamp = now ])
     ELSE Set(s, [ sc[s] EXCEPT !.pc = "fetch" ])
  /\ UNCHANGED << now, cache >>

(* Mutant: the entry claims to be as fresh as its store. *)
MutEntry(s, p) == [ page |-> p, stamp |-> now, bucket |-> Bucket(Left(s)) ]

(* The moment the network returned, not that of the store; the budget of now. *)
Entry(s, p) == [ page |-> p, stamp |-> sc[s].stamp, bucket |-> Bucket(Left(s)) ]

(* moka drops an entry when it is short of room. *)
Evict == cache # NoPage /\ cache' = NoPage /\ UNCHANGED << now, sc >>

-----------------------------------------------------------------------------
(* fetching *)

Fetched(s, flaws, low) ==
  [ flaw : flaws, low : low, late : {Left(s) = 0}, born : {now}, by : {s}, left : {Left(s)} ]

(* The tier counts only for a page that may be escalated or stored.            *)
Returned(s) == Fetched(s, {"none", "cut", "wall"}, BOOLEAN)
               \cup Fetched(s, {"error", "cdn"}, {FALSE}) \cup Fetched(s, {"tagged"}, {TRUE})

(* A fetch with a browser demanded: LightPanda's is of a low tier too, and     *)
(* when the ladder fails the body of the HTTP fetch comes back, tagged.        *)
Rendered(s) == Fetched(s, {"none", "error"}, BOOLEAN)
               \cup Fetched(s, {"cut", "wall"}, {FALSE}) \cup Fetched(s, {"tagged"}, {TRUE})

Fetch(s) ==
  /\ sc[s].pc = "fetch"
  /\ \/ \E p \in Returned(s) :
          Set(s, [ sc[s] EXCEPT !.pc = "extract", !.page = p, !.of = p, !.stamp = now ])
     \/ Fail(s)
  /\ UNCHANGED << now, cache >>

Thin(md) == md < 2

(* A low tier's 2xx page that no browser has been tried on in vain; whether    *)
(* the request and the pool allow it, and enough markdown is poor enough, is    *)
(* open.                                                                        *)
ShouldEscalate(s, md) ==
  LET p == sc[s].page IN
  IF /\ p.low /\ p.flaw \in {"none", "cut", "wall"}
     /\ ~(p.flaw = "wall" /\ Thin(md))
     /\ Left(s) >= MinTier
  THEN BOOLEAN ELSE {FALSE}

Extract(s) ==
  /\ sc[s].pc = "extract"
  /\ \/ \E md \in 0..2 : \E esc \in ShouldEscalate(s, md) :
          Set(s, [ sc[s] EXCEPT !.pc = IF esc THEN "escalate" ELSE "judge", !.md = md,
                                !.standIn = Thin(md) \/ esc,
                                !.page.left = IF sc[s].hit THEN @ ELSE Least(@, Left(s)) ])
     \/ Fail(s)
  /\ UNCHANGED << now, cache >>

(* accept_js_escalation: more than a thin page had, or enough and better; of    *)
(* two pages with as much, the second may be the better one.                    *)
Accept(md, jsmd) == jsmd > 0 /\ jsmd >= md

(* Mutant: the flags of the first fetch stay with the body of the second.      *)
MutMerged(p, js) == [ js EXCEPT !.flaw = p.flaw, !.late = p.late, !.left = Least(p.left, js.left) ]

(* The body, the wall, the truncation, the warning and the tier are those of   *)
(* the second fetch; status and deadline flag stay those of the first.          *)
Merged(p, js) ==
  [ js EXCEPT !.flaw = IF js.flaw \in {"cut", "wall", "tagged"} THEN js.flaw ELSE "none",
              !.late = p.late, !.left = Least(p.left, js.left) ]

Escalate(s) ==
  /\ sc[s].pc = "escalate"
  /\ \/ Set(s, [ sc[s] EXCEPT !.pc = "judge" ])   \* no page, a wall, or no better
     \/ \E js \in Rendered(s), jsmd \in 0..2 :
          /\ ~(js.flaw = "wall" /\ Thin(jsmd))
          /\ Accept(sc[s].md, jsmd)
          /\ Set(s, [ sc[s] EXCEPT !.pc = "judge", !.page = Merged(@, js), !.of = js,
                                   !.md = jsmd, !.standIn = FALSE, !.again = TRUE ])
  /\ UNCHANGED << now, cache >>

-----------------------------------------------------------------------------
(* judging and storing *)

(* classify_block, the walls of the ladder and http_error: a small page behind *)
(* a wall or of an error status is always one, other pages may be.             *)
Blocks(s) ==
  IF Thin(sc[s].md) /\ (sc[s].page.flaw = "wall" \/ sc[s].of.flaw = "error")
  THEN {TRUE} ELSE BOOLEAN

(* The page of this scrape that may be stored: not one the cache gave it. *)
HasCandidate(s) == sc[s].again \/ ~sc[s].hit

WorthReplaying(s, blocked) ==
  LET p == sc[s].page IN
  /\ HasCandidate(s)
  /\ p.flaw = "none" /\ ~p.late /\ ~blocked
  /\ sc[s].md > 0 /\ ~sc[s].standIn

Unserviceable(s) ==
  sc[s].page.flaw = "cdn" \/ (sc[s].page.flaw = "cut" /\ sc[s].md = 0)

Judge(s) ==
  /\ sc[s].pc = "judge"
  /\ IF Unserviceable(s)
     THEN Fail(s) /\ UNCHANGED cache
     ELSE \E blocked \in Blocks(s) :
            /\ cache' = IF WorthReplaying(s, blocked) /\ MaxAge[s] > 0 /\ s \in Storing
                        THEN Entry(s, sc[s].page) ELSE cache
            /\ Set(s, IF blocked THEN [ Waiting EXCEPT !.pc = "done", !.out = "block" ]
                                 ELSE [ sc[s] EXCEPT !.pc = "model" ])
  /\ UNCHANGED now

SaysCached(s) == sc[s].hit /\ ~sc[s].again

(* The formats a model makes of the page: their failure fails the scrape. *)
Deliver(s) ==
  /\ sc[s].pc = "model"
  /\ \/ Set(s, [ sc[s] EXCEPT !.pc = "done", !.out = IF SaysCached(s) THEN "cached" ELSE "fresh" ])
     \/ Fail(s)
  /\ UNCHANGED << now, cache >>

Tick == now < LastTime /\ now' = now + 1 /\ UNCHANGED << cache, sc >>

-----------------------------------------------------------------------------

Next ==
  \/ \E s \in Scrapes :
       \/ Begin(s) \/ Lookup(s) \/ Fetch(s) \/ Extract(s) \/ Escalate(s)
       \/ Judge(s) \/ Deliver(s)
  \/ Evict \/ Tick

Spec == Init /\ [][Next]_vars

-----------------------------------------------------------------------------

(* The type of every variable. *)
TypeOK ==
  /\ now \in 0..LastTime
  /\ cache # NoPage =>
       cache.page \in Pages /\ cache.stamp \in 0..now /\ cache.bucket \in 0..Cardinality(Edges)
  /\ \A s \in Scrapes :
       /\ sc[s].pc \in {"away", "lookup", "fetch", "extract", "escalate", "judge", "model", "done"}
       /\ {sc[s].page, sc[s].of} \subseteq Pages \cup {NoPage} /\ sc[s].md \in 0..2
       /\ sc[s].start \in 0..now /\ sc[s].stamp \in 0..now
       /\ sc[s].out \in {"none", "error", "block", "cached", "fresh"}

Delivered(s) == sc[s].out \in {"cached", "fresh"}

(* A page replayed to a caller left the network no longer ago than the caller *)
(* accepts, however long the scrape that stored it took to do so.              *)
ReplayIsFresh ==
  \A s \in Scrapes : sc[s].out = "cached" => sc[s].stamp - sc[s].page.born <= MaxAge[s]

(* A caller is never handed a page that a scrape with less time had to settle *)
(* for: no tier was skipped for it that this caller's budget would have tried. *)
BudgetHonoured ==
  \A s \in Scrapes : sc[s].hit /\ ~sc[s].again =>
    Bucket(sc[s].page.left) >= Bucket(sc[s].start + Budget[s] - sc[s].stamp)

(* What may be kept: a whole page that is no wall and no fallback, under the    *)
(* tier that made the body.  One of an error status, one that came too late or   *)
(* one with little content is kept only when a second fetch brought it.          *)
WorthKeeping(s) ==
  LET x == sc[s] IN
  /\ x.of.flaw \in {"none", "error"} /\ x.page.low = x.of.low /\ x.md > 0
  /\ x.of.flaw = "error" => x.again /\ x.md = 2
  /\ x.of.late \/ x.md = 1 => x.again

(* A scrape that stores a page stores the one in hand, and it is worth keeping   *)
(* by what the fetch that made its body was, whatever the record of two fetches  *)
(* says: a wall, a cut page or the HTTP body of a failed ladder is never kept.   *)
OnlyGoodPagesKept ==
  [][\A s \in Scrapes : sc'[s] # sc[s] /\ cache' # cache =>
       cache'.page = sc[s].page /\ WorthKeeping(s)]_vars

(* An answer says it is cached if and only if another scrape fetched what it  *)
(* delivers.                                                                    *)
CachedSaysSo == \A s \in Scrapes : Delivered(s) => (sc[s].out = "cached" <=> sc[s].page.by # s)

=============================================================================
