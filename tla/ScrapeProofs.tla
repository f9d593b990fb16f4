---------------------------- MODULE ScrapeProofs ----------------------------
(***************************************************************************)
(* The safety properties of Scrape for any number of scrapes of one key with *)
(* any ages and budgets.  Good says what holds of one scrape between two      *)
(* awaits, Kept what holds of the entry; a step of one scrape changes nothing *)
(* that is said of another, and time only takes budget away.                  *)
(***************************************************************************)
EXTENDS Scrape, FiniteSetTheorems, TLAPS

ScrapeRecord ==
  [ pc : {"away", "lookup", "fetch", "extract", "escalate", "judge", "model", "done"},
    start : Nat, page : Pages \cup {NoPage}, of : Pages \cup {NoPage}, md : 0..2,
    hit : BOOLEAN, stamp : Nat, standIn : BOOLEAN, again : BOOLEAN,
    out : {"none", "error", "block", "cached", "fresh"} ]

InHand(x) == x.pc \in {"extract", "escalate", "judge", "model"}
GotPage(x) == InHand(x) \/ x.out \in {"cached", "fresh"}

(* The page in hand is the scrape's own unless the cache gave it and no       *)
(* browser replaced it; then it was fresh enough, and made with budget enough. *)
Sourced(s, x) ==
  GotPage(x) =>
    /\ x.page \in Pages /\ x.page.born <= now
    /\ x.page.by = s <=> ~x.hit \/ x.again
    /\ x.page.by = s => x.stamp <= x.page.born
    /\ x.hit /\ ~x.again =>
         /\ x.stamp - x.page.born <= MaxAge[s]
         /\ Bucket(x.page.left) >= Bucket(x.start + Budget[s] - x.stamp)

(* Whatever the page in hand was decided with is no less than what is left.   *)
Paid(s, x) == InHand(x) => Bucket(x.page.left) >= Bucket(Left(s))

(* Until a second fetch is accepted the record is that of the body in hand; from *)
(* then on it shares the tier, and it hides no flaw but an error status.  A page   *)
(* that is not a stand-in is enough, or a second fetch brought it.                *)
Worth(x) ==
  InHand(x) =>
    /\ x.of \in Pages /\ x.page.low = x.of.low
    /\ ~x.again => x.page.flaw = x.of.flaw /\ x.page.late = x.of.late
    /\ x.again /\ x.page.flaw = "none" => x.of.flaw \in {"none", "error"}
    /\ x.pc \in {"escalate", "judge"} /\ ~x.again /\ ~x.standIn => x.md = 2

Placed(x) ==
  /\ x.pc \in {"away", "lookup", "fetch"} => ~x.hit
  /\ x.pc \in {"away", "lookup", "fetch", "extract", "escalate"} => ~x.again
  /\ x.pc = "done" <=> x.out # "none"
  /\ x.out \in {"cached", "fresh"} => (x.out = "cached" <=> x.hit /\ ~x.again)
  /\ x.out \in {"error", "block"} => ~x.hit

Good(s, x) ==
  /\ x \in ScrapeRecord /\ x.start <= now /\ x.stamp <= now
  /\ Sourced(s, x) /\ Paid(s, x) /\ Worth(x) /\ Placed(x)

(* An entry is older than its store says, and promises no more than its page. *)
Kept(e) ==
  /\ e.page \in Pages /\ e.stamp \in 0..now /\ e.page.born <= now
  /\ e.bucket \in 0..Cardinality(Edges)
  /\ e.stamp <= e.page.born
  /\ e.bucket <= Bucket(e.page.left)
  /\ sc[e.page.by].pc \in {"model", "done"}

(* The inductive invariant. *)
IInv ==
  /\ now \in 0..LastTime
  /\ DOMAIN sc = Scrapes
  /\ \A s \in Scrapes : Good(s, sc[s])
  /\ cache # NoPage => Kept(cache)

-----------------------------------------------------------------------------

LEMMA Constants ==
  /\ MaxAge \in [ Scrapes -> Nat ] /\ Budget \in [ Scrapes -> Nat ]
  /\ Edges \subseteq Nat /\ IsFiniteSet(Edges) /\ LastTime \in Nat /\ MinTier \in Nat
BY ScrapeAssumption

(* More budget never falls into a lesser bucket. *)
LEMMA BucketMonotone ==
  ASSUME NEW a \in Int, NEW b \in Int, a <= b
  PROVE  /\ Bucket(a) \in 0..Cardinality(Edges) /\ Bucket(b) \in 0..Cardinality(Edges)
         /\ Bucket(a) <= Bucket(b) /\ Cardinality(Edges) \in Nat
<1> DEFINE A == { e \in Edges : e <= a }
           B == { e \in Edges : e <= b }
<1>1. A \subseteq B /\ B \subseteq Edges
  <2> SUFFICES ASSUME NEW e \in A PROVE e \in B
    OBVIOUS
  <2>1. e \in Edges /\ e \in Nat /\ e <= a
    BY Constants
  <2>2. e <= b
    BY <2>1
  <2> QED
    BY <2>1, <2>2
<1>2. /\ IsFiniteSet(B) /\ Cardinality(B) <= Cardinality(Edges)
      /\ IsFiniteSet(A) /\ Cardinality(A) <= Cardinality(B)
  BY <1>1, Constants, FS_Subset
<1>3. Cardinality(A) \in Nat /\ Cardinality(B) \in Nat /\ Cardinality(Edges) \in Nat
  BY <1>2, Constants, FS_CardinalityType
<1>4. Bucket(a) = Cardinality(A) /\ Bucket(b) = Cardinality(B)
  BY DEF Bucket
<1> HIDE DEF A, B
<1> QED
  BY <1>2, <1>3, <1>4

LEMMA LeftType ==
  ASSUME IInv, NEW s \in Scrapes
  PROVE  /\ Left(s) \in Nat /\ now \in Nat
         /\ sc[s].start + Budget[s] - now <= Left(s)
BY Constants DEF IInv, Good, ScrapeRecord, Left

LEMMA PageFields ==
  ASSUME NEW p \in Pages
  PROVE  /\ p.flaw \in Flaws /\ p.low \in BOOLEAN /\ p.late \in BOOLEAN
         /\ p.born \in 0..LastTime /\ p.born \in Nat /\ p.by \in Scrapes /\ p.left \in Nat
BY Constants DEF Pages

LEMMA WaitingFields ==
  /\ Waiting.pc = "away" /\ Waiting.start = 0 /\ Waiting.stamp = 0 /\ Waiting.out = "none"
  /\ ~Waiting.hit /\ ~Waiting.again /\ Waiting \in ScrapeRecord
BY DEF Waiting, ScrapeRecord

LEMMA InitIInv == Init => IInv
<1> SUFFICES ASSUME Init PROVE IInv
  OBVIOUS
<1>1. now = 0 /\ cache = NoPage /\ DOMAIN sc = Scrapes /\ \A s \in Scrapes : sc[s] = Waiting
  BY DEF Init
<1>3. \A s \in Scrapes : Good(s, sc[s])
  BY <1>1, WaitingFields DEF Good, Sourced, Paid, Worth, Placed, GotPage, InHand
<1> QED
  BY <1>1, <1>3, Constants DEF IInv

(* A step of one scrape that leaves the entry alone. *)
LEMMA OneStep ==
  ASSUME IInv, NEW s \in Scrapes, NEW x, sc' = [ sc EXCEPT ![s] = x ],
         now' = now, cache' = cache, Good(s, x),
         InHand(x) => x.start = sc[s].start,
         sc[s].pc \in {"model", "done"} => x.pc \in {"model", "done"}
  PROVE  IInv'
<1>1. sc'[s] = x /\ DOMAIN sc' = Scrapes /\ \A r \in Scrapes \ {s} : sc'[r] = sc[r]
  BY DEF IInv
<1>2. \A r \in Scrapes \ {s} : Left(r)' = Left(r)
  BY <1>1 DEF Left
<1>3. \A r \in Scrapes \ {s} : Good(r, sc[r])'
  BY <1>1, <1>2 DEF IInv, Good, Sourced, Paid
<1>4. Good(s, x)'
  <2>1. InHand(x) => Left(s)' = Left(s)
    BY <1>1 DEF Left, InHand
  <2> QED
    BY <2>1 DEF Good, Sourced, Paid
<1>5. cache # NoPage => Kept(cache)'
  BY <1>1, PageFields DEF IInv, Kept
<1> QED
  BY <1>1, <1>3, <1>4, <1>5 DEF IInv

(* A scrape that fails or is blocked holds nothing. *)
LEMMA OverGood ==
  ASSUME IInv, NEW s \in Scrapes, NEW out \in {"error", "block"}
  PROVE  LET x == [ Waiting EXCEPT !.pc = "done", !.out = out ] IN
         Good(s, x) /\ x.pc = "done"
<1> DEFINE x == [ Waiting EXCEPT !.pc = "done", !.out = out ]
<1>1. /\ x.pc = "done" /\ x.start = 0 /\ x.stamp = 0 /\ x.out = out
      /\ ~x.hit /\ ~x.again /\ x \in ScrapeRecord
  BY WaitingFields DEF ScrapeRecord
<1>2. now \in Nat
  BY DEF IInv
<1> HIDE DEF x
<1>3. Good(s, x)
  BY <1>1, <1>2 DEF Good, Sourced, Paid, Worth, Placed, GotPage, InHand
<1> QED
  BY <1>1, <1>3 DEF x

LEMMA FailKeeps ==
  ASSUME IInv, NEW s \in Scrapes, Fail(s), UNCHANGED << now, cache >>
  PROVE  IInv'
<1> DEFINE x == [ Waiting EXCEPT !.pc = "done", !.out = "error" ]
<1>1. Good(s, x) /\ x.pc = "done"
  BY OverGood
<1>2. sc' = [ sc EXCEPT ![s] = x ]
  BY DEF Fail
<1> HIDE DEF x
<1> QED
  BY <1>1, <1>2, OneStep DEF InHand

LEMMA BeginKeeps ==
  ASSUME IInv, NEW s \in Scrapes, Begin(s)
  PROVE  IInv'
<1> DEFINE x == [ sc[s] EXCEPT !.pc = "lookup", !.start = now ]
<1>1. sc[s].pc = "away" /\ sc' = [ sc EXCEPT ![s] = x ] /\ UNCHANGED << now, cache >>
  BY DEF Begin
<1>2. /\ x \in ScrapeRecord /\ x.pc = "lookup" /\ x.start = now /\ x.stamp = sc[s].stamp
      /\ x.hit = sc[s].hit /\ x.again = sc[s].again /\ x.out = sc[s].out
  BY LeftType DEF IInv, Good, ScrapeRecord
<1> HIDE DEF x
<1>3. Good(s, x)
  BY <1>1, <1>2, LeftType DEF IInv, Good, Sourced, Paid, Worth, Placed, GotPage, InHand
<1> QED
  BY <1>1, <1>2, <1>3, OneStep DEF InHand

LEMMA LookupKeeps ==
  ASSUME IInv, NEW s \in Scrapes, Lookup(s)
  PROVE  IInv'
<1>1. /\ sc[s].pc = "lookup" /\ UNCHANGED << now, cache >>
      /\ sc[s] \in ScrapeRecord /\ Good(s, sc[s])
  BY DEF Lookup, IInv, Good
<1>2. CASE Readable(s)
  <2> DEFINE x == [ sc[s] EXCEPT !.pc = "extract", !.page = cache.page, !.of = cache.page,
                                 !.hit = TRUE, !.stamp = now ]
  <2>1. /\ cache # NoPage /\ Kept(cache) /\ now - cache.stamp <= MaxAge[s]
        /\ cache.bucket >= Bucket(Left(s))
    BY <1>2 DEF Readable, IInv
  <2>2. sc' = [ sc EXCEPT ![s] = x ]
    BY <1>2 DEF Lookup, Set
  <2>3. /\ x \in ScrapeRecord /\ x.pc = "extract" /\ x.page = cache.page /\ x.hit
        /\ x.stamp = now /\ x.start = sc[s].start /\ x.again = sc[s].again
        /\ x.out = sc[s].out /\ x.of = cache.page
    BY <1>1, <2>1, LeftType DEF ScrapeRecord, Kept
  <2> HIDE DEF x
  <2>4. cache.page.by # s
    BY <1>1, <2>1 DEF Kept
  <2>5. /\ cache.page.left \in Nat /\ cache.page.born \in Nat /\ cache.stamp \in Nat
        /\ now \in Nat /\ MaxAge[s] \in Nat /\ Left(s) \in Nat
        /\ sc[s].start \in Nat /\ Budget[s] \in Nat
        /\ sc[s].start + Budget[s] - now <= Left(s)
    BY <1>1, <2>1, PageFields, LeftType, Constants DEF Kept, ScrapeRecord
  <2>6. Bucket(cache.page.left) >= Bucket(Left(s))
    <3>1. Bucket(cache.page.left) \in Nat /\ Bucket(Left(s)) \in Nat /\ cache.bucket \in Nat
      BY <2>1, <2>5, BucketMonotone DEF Kept
    <3> QED
      BY <2>1, <3>1 DEF Kept
  <2>7. Bucket(cache.page.left) >= Bucket(sc[s].start + Budget[s] - now)
    <3> DEFINE b == sc[s].start + Budget[s] - now
    <3>1. b \in Int /\ b <= Left(s)
      BY <2>5
    <3>2. /\ Bucket(b) <= Bucket(Left(s)) /\ Bucket(b) \in Nat /\ Bucket(Left(s)) \in Nat
          /\ Bucket(cache.page.left) \in Nat
      BY <2>5, <3>1, BucketMonotone
    <3> QED
      BY <2>6, <3>2
  <2>8. Sourced(s, x)
    BY <1>1, <2>1, <2>3, <2>4, <2>5, <2>7 DEF Sourced, GotPage, InHand, Good, Placed, Kept
  <2>9. Good(s, x)
    BY <1>1, <2>1, <2>3, <2>5, <2>6, <2>8 DEF Good, Paid, Worth, Placed, InHand, Kept
  <2> QED
    BY <1>1, <2>2, <2>3, <2>9, OneStep
<1>3. CASE ~Readable(s)
  <2> DEFINE x == [ sc[s] EXCEPT !.pc = "fetch" ]
  <2>1. sc' = [ sc EXCEPT ![s] = x ]
    BY <1>3 DEF Lookup, Set
  <2>2. /\ x \in ScrapeRecord /\ x.pc = "fetch" /\ x.hit = sc[s].hit
        /\ x.stamp = sc[s].stamp /\ x.start = sc[s].start /\ x.again = sc[s].again
        /\ x.out = sc[s].out
    BY <1>1 DEF ScrapeRecord
  <2> HIDE DEF x
  <2>3. Good(s, x)
    BY <1>1, <2>2 DEF Good, Sourced, Paid, Worth, Placed, GotPage, InHand
  <2> QED
    BY <1>1, <2>1, <2>2, <2>3, OneStep
<1> QED
  BY <1>2, <1>3

(* What the network returns to s is its own page, of now, made with what is left. *)
LEMMA FetchedFields ==
  ASSUME IInv, NEW s \in Scrapes, NEW flaws \in SUBSET Flaws, NEW low \in SUBSET BOOLEAN,
         NEW p \in Fetched(s, flaws, low)
  PROVE  /\ p \in Pages /\ p.born = now /\ p.by = s /\ p.left = Left(s) /\ p.flaw \in flaws
<1>1. Left(s) \in Nat /\ now \in 0..LastTime
  BY LeftType DEF IInv
<1> QED
  BY <1>1 DEF Fetched, Pages

LEMMA ReturnedFields ==
  ASSUME IInv, NEW s \in Scrapes, NEW p \in Returned(s) \cup Rendered(s)
  PROVE  /\ p \in Pages /\ p.born = now /\ p.by = s /\ p.left = Left(s)
         /\ p \in Rendered(s) => p.flaw # "cdn"
<1>1. CASE p \in Rendered(s)
  <2>1. PICK flaws \in { {"none", "error"}, {"cut", "wall"}, {"tagged"} } :
          \E low \in { BOOLEAN, {FALSE}, {TRUE} } : p \in Fetched(s, flaws, low)
    BY <1>1 DEF Rendered
  <2>2. PICK low \in { BOOLEAN, {FALSE}, {TRUE} } : p \in Fetched(s, flaws, low)
    BY <2>1
  <2>3. flaws \in SUBSET Flaws /\ "cdn" \notin flaws /\ low \in SUBSET BOOLEAN
    BY DEF Flaws
  <2> QED
    BY <2>2, <2>3, FetchedFields
<1>2. CASE p \in Returned(s) /\ p \notin Rendered(s)
  <2>1. PICK flaws \in { {"none", "cut", "wall"}, {"error", "cdn"}, {"tagged"} } :
          \E low \in { BOOLEAN, {FALSE}, {TRUE} } : p \in Fetched(s, flaws, low)
    BY <1>2 DEF Returned
  <2>2. PICK low \in { BOOLEAN, {FALSE}, {TRUE} } : p \in Fetched(s, flaws, low)
    BY <2>1
  <2>3. flaws \in SUBSET Flaws /\ low \in SUBSET BOOLEAN
    BY DEF Flaws
  <2> QED
    BY <1>2, <2>2, <2>3, FetchedFields
<1> QED
  BY <1>1, <1>2

LEMMA FetchKeeps ==
  ASSUME IInv, NEW s \in Scrapes, Fetch(s)
  PROVE  IInv'
<1>1. /\ sc[s].pc = "fetch" /\ UNCHANGED << now, cache >>
      /\ sc[s] \in ScrapeRecord /\ Good(s, sc[s])
  BY DEF Fetch, IInv, Good
<1>2. ASSUME NEW p \in Returned(s),
             Set(s, [ sc[s] EXCEPT !.pc = "extract", !.page = p, !.of = p, !.stamp = now ])
      PROVE  IInv'
  <2> DEFINE x == [ sc[s] EXCEPT !.pc = "extract", !.page = p, !.of = p, !.stamp = now ]
  <2>1. sc' = [ sc EXCEPT ![s] = x ]
    BY <1>2 DEF Set
  <2>2. p \in Pages /\ p.born = now /\ p.by = s /\ p.left = Left(s)
    BY <1>2, ReturnedFields
  <2>3. /\ x \in ScrapeRecord /\ x.pc = "extract" /\ x.page = p /\ x.hit = sc[s].hit
        /\ x.stamp = now /\ x.start = sc[s].start /\ x.again = sc[s].again
        /\ x.out = sc[s].out /\ x.of = p
    BY <1>1, <2>2, LeftType DEF ScrapeRecord
  <2> HIDE DEF x
  <2>4. Good(s, x)
    <3>1. Bucket(Left(s)) \in Nat
      BY LeftType, BucketMonotone
    <3> QED
      BY <1>1, <2>2, <2>3, <3>1, LeftType DEF Good, Sourced, Paid, Worth, Placed, GotPage, InHand
  <2> QED
    BY <1>1, <2>1, <2>3, <2>4, OneStep
<1> QED
  BY <1>1, <1>2, FailKeeps DEF Fetch

LEMMA ExtractKeeps ==
  ASSUME IInv, NEW s \in Scrapes, Extract(s)
  PROVE  IInv'
<1>1. /\ sc[s].pc = "extract" /\ UNCHANGED << now, cache >>
      /\ sc[s] \in ScrapeRecord /\ Good(s, sc[s]) /\ sc[s].page \in Pages
  BY DEF Extract, IInv, Good, Sourced, GotPage, InHand
<1> DEFINE p == sc[s].page
           left == IF sc[s].hit THEN p.left ELSE Least(p.left, Left(s))
           X(md, esc) == [ sc[s] EXCEPT !.pc = IF esc THEN "escalate" ELSE "judge", !.md = md,
                                        !.standIn = Thin(md) \/ esc, !.page.left = left ]
<1>2. ASSUME NEW md \in 0..2, NEW esc \in ShouldEscalate(s, md), sc' = [ sc EXCEPT ![s] = X(md, esc) ]
      PROVE  IInv'
  <2> DEFINE x == X(md, esc)
  <2>1. sc' = [ sc EXCEPT ![s] = x ]
    BY <1>2
  <2>2. p.left \in Nat /\ Left(s) \in Nat /\ left \in Nat
    BY <1>1, LeftType, PageFields DEF Least
  <2>3. esc \in BOOLEAN /\ (Thin(md) \/ esc) \in BOOLEAN
    BY DEF ShouldEscalate
  <2>4. Bucket(left) >= Bucket(Left(s)) /\ (sc[s].hit => left = p.left)
    <3>1. Bucket(p.left) >= Bucket(Left(s)) /\ Bucket(Left(s)) \in Nat
      BY <1>1, <2>2, BucketMonotone DEF Good, Paid, InHand
    <3>2. left = p.left \/ left = Left(s)
      BY DEF Least
    <3> QED
      BY <3>1, <3>2
  <2> DEFINE q == [ p EXCEPT !.left = left ]
             pc == IF esc THEN "escalate" ELSE "judge"
             still == Thin(md) \/ esc
  <2>5. /\ q \in Pages /\ q.flaw = p.flaw /\ q.low = p.low
        /\ q.late = p.late /\ q.born = p.born /\ q.by = p.by /\ q.left = left
    BY <1>1, <2>2 DEF Pages
  <2>6. x = [ sc[s] EXCEPT !.pc = pc, !.md = md, !.standIn = still, !.page = q ]
    OBVIOUS
  <2>7. pc \in {"escalate", "judge"} /\ still \in BOOLEAN
    BY <2>3
  <2>8. ~still => md = 2
    <3>1. ~still => ~Thin(md)
      BY Zenon
    <3>2. ~Thin(md) => md = 2
      BY <1>2 DEF Thin
    <3> QED
      BY <3>1, <3>2, Zenon
  <2> HIDE DEF q, left, pc, still, x
  <2>9. /\ x.pc = pc /\ x.md = md /\ x.page = q /\ x.of = sc[s].of /\ x.hit = sc[s].hit
        /\ x.stamp = sc[s].stamp /\ x.start = sc[s].start /\ x.again = sc[s].again
        /\ x.out = sc[s].out
    BY <1>1, <2>6 DEF ScrapeRecord
  <2>10. x.standIn = still
    BY <1>1, <2>6, Zenon DEF ScrapeRecord
  <2>11. x \in ScrapeRecord
    <3>1. PICK a : a = [ sc[s] EXCEPT !.pc = pc, !.md = md ]
      OBVIOUS
    <3>2. a \in ScrapeRecord
      BY <1>1, <1>2, <2>7, <3>1 DEF ScrapeRecord
    <3>3. PICK b : b = [ a EXCEPT !.standIn = still ]
      OBVIOUS
    <3>4. b \in ScrapeRecord
      BY <2>7, <3>2, <3>3 DEF ScrapeRecord
    <3>5. x = [ b EXCEPT !.page = q ]
      BY <1>1, <2>6, <3>1, <3>3 DEF ScrapeRecord
    <3>6. q \in Pages \cup {NoPage}
      BY <2>5
    <3> QED
      BY <3>4, <3>5, <3>6 DEF ScrapeRecord
  <2>12. Sourced(s, x)
    <3>1. x.hit /\ ~x.again => q.left = p.left
      BY <2>4, <2>5, <2>9
    <3> QED
      BY <1>1, <2>5, <2>9, <3>1 DEF Good, Sourced, GotPage, InHand
  <2>13. Worth(x)
    <3>1. ~x.standIn => x.md = 2
      BY <2>8, <2>9, <2>10, Zenon
    <3> QED
      BY <1>1, <2>5, <2>9, <3>1 DEF Good, Worth, InHand
  <2>14. Paid(s, x) /\ Placed(x)
    BY <1>1, <2>4, <2>5, <2>7, <2>9 DEF Good, Paid, Placed, InHand
  <2>15. Good(s, x)
    BY <1>1, <2>9, <2>11, <2>12, <2>13, <2>14 DEF Good
  <2> QED
    BY <1>1, <2>1, <2>7, <2>9, <2>15, OneStep
<1> QED
  <2>1. CASE Fail(s)
    BY <1>1, <2>1, FailKeeps
  <2>2. CASE ~Fail(s)
    <3>1. PICK md \in 0..2 : \E esc \in ShouldEscalate(s, md) : sc' = [ sc EXCEPT ![s] = X(md, esc) ]
      BY <2>2 DEF Extract, Set
    <3>2. PICK esc \in ShouldEscalate(s, md) : sc' = [ sc EXCEPT ![s] = X(md, esc) ]
      BY <3>1
    <3> QED
      BY <1>2, <3>2
  <2> QED
    BY <2>1, <2>2

(* To the judge with the page in hand, whatever the second fetch was. *)
LEMMA RejectGood ==
  ASSUME IInv, NEW s \in Scrapes, sc[s].pc = "escalate",
         sc' = [ sc EXCEPT ![s] = [ sc[s] EXCEPT !.pc = "judge" ] ],
         UNCHANGED << now, cache >>
  PROVE  IInv'
<1>1. sc[s] \in ScrapeRecord /\ Good(s, sc[s])
  BY DEF IInv, Good
<1> DEFINE x == [ sc[s] EXCEPT !.pc = "judge" ]
<1>2. /\ x \in ScrapeRecord /\ x.pc = "judge" /\ x.page = sc[s].page /\ x.of = sc[s].of
      /\ x.hit = sc[s].hit /\ x.stamp = sc[s].stamp /\ x.standIn = sc[s].standIn
      /\ x.start = sc[s].start /\ x.again = sc[s].again /\ x.out = sc[s].out /\ x.md = sc[s].md
  BY <1>1 DEF ScrapeRecord
<1> HIDE DEF x
<1>3. Sourced(s, x) /\ Paid(s, x) /\ Placed(x)
  BY <1>1, <1>2 DEF Good, Sourced, Paid, Placed, GotPage, InHand
<1>4. Worth(x)
  BY <1>1, <1>2, Zenon DEF Good, Worth, InHand
<1>5. Good(s, x)
  BY <1>1, <1>2, <1>3, <1>4 DEF Good
<1>6. sc' = [ sc EXCEPT ![s] = x ]
  BY DEF x
<1> QED
  BY <1>2, <1>5, <1>6, OneStep DEF InHand

(* The second page is this scrape's own, of now, and its record hides an error *)
(* status and nothing else.                                                    *)
LEMMA AcceptGood ==
  ASSUME IInv, NEW s \in Scrapes, sc[s].pc = "escalate",
         NEW js \in Rendered(s), NEW jsmd \in 0..2,
         sc' = [ sc EXCEPT ![s] = [ sc[s] EXCEPT !.pc = "judge", !.page = Merged(sc[s].page, js),
                                      !.of = js, !.md = jsmd, !.standIn = FALSE, !.again = TRUE ] ],
         UNCHANGED << now, cache >>
  PROVE  IInv'
<1> DEFINE p == sc[s].page
           m == Merged(p, js)
           x == [ sc[s] EXCEPT !.pc = "judge", !.page = m, !.of = js, !.md = jsmd,
                               !.standIn = FALSE, !.again = TRUE ]
<1>1. sc[s] \in ScrapeRecord /\ Good(s, sc[s]) /\ p \in Pages
  BY DEF IInv, Good, Sourced, GotPage, InHand
<1>2. /\ js \in Pages /\ js.born = now /\ js.by = s /\ js.left = Left(s)
      /\ js.flaw \in Flaws \ {"cdn"}
  BY ReturnedFields, PageFields
<1>3. /\ p.left \in Nat /\ Left(s) \in Nat /\ p.late \in BOOLEAN /\ now \in Nat
  BY <1>1, LeftType, PageFields
<1>4. /\ m \in Pages /\ m.low = js.low /\ m.born = now /\ m.by = s
      /\ m.left = Least(p.left, Left(s))
      /\ m.flaw = "none" => js.flaw \in {"none", "error"}
  <2> DEFINE k == IF js.flaw \in {"cut", "wall", "tagged"} THEN js.flaw ELSE "none"
             l == Least(p.left, Left(s))
  <2>1. k \in Flaws /\ l \in Nat /\ (k = "none" => js.flaw \in {"none", "error"})
    BY <1>2, <1>3 DEF Flaws, Least
  <2>2. m = [ js EXCEPT !.flaw = k, !.late = p.late, !.left = l ]
    BY <1>2 DEF Merged
  <2> HIDE DEF k, l, m
  <2>3. /\ m \in Pages /\ m.flaw = k /\ m.low = js.low /\ m.born = js.born
        /\ m.by = js.by /\ m.left = l
    BY <1>2, <1>3, <2>1, <2>2 DEF Pages
  <2> QED
    BY <1>2, <2>1, <2>3 DEF l
<1>6. Bucket(m.left) >= Bucket(Left(s))
  <2>1. Bucket(p.left) >= Bucket(Left(s)) /\ Bucket(Left(s)) \in Nat
    BY <1>1, <1>3, BucketMonotone DEF Good, Paid, InHand
  <2>2. m.left = p.left \/ m.left = Left(s)
    BY <1>4 DEF Least
  <2> QED
    BY <2>1, <2>2
<1>7. sc' = [ sc EXCEPT ![s] = x ]
  OBVIOUS
<1> HIDE DEF m
<1>8. /\ x \in ScrapeRecord /\ x.pc = "judge" /\ x.page = m /\ x.of = js
      /\ x.hit = sc[s].hit /\ x.stamp = sc[s].stamp /\ x.again
      /\ x.start = sc[s].start /\ x.out = sc[s].out
  BY <1>1, <1>2, <1>4 DEF ScrapeRecord
<1> HIDE DEF x
<1>9. Sourced(s, x)
  BY <1>1, <1>3, <1>4, <1>8 DEF Good, Sourced, GotPage, InHand
<1>10. Worth(x)
  BY <1>2, <1>4, <1>8 DEF Worth
<1>11. Paid(s, x) /\ Placed(x)
  BY <1>1, <1>6, <1>8 DEF Good, Paid, Placed, InHand
<1>12. Good(s, x)
  BY <1>1, <1>8, <1>9, <1>10, <1>11 DEF Good
<1> QED
  BY <1>7, <1>8, <1>12, OneStep DEF InHand

LEMMA EscalateKeeps ==
  ASSUME IInv, NEW s \in Scrapes, Escalate(s)
  PROVE  IInv'
<1>1. sc[s].pc = "escalate" /\ UNCHANGED << now, cache >>
  BY DEF Escalate
<1>2. CASE Set(s, [ sc[s] EXCEPT !.pc = "judge" ])
  BY <1>1, <1>2, RejectGood DEF Set
<1>3. CASE ~Set(s, [ sc[s] EXCEPT !.pc = "judge" ])
  <2>1. PICK js \in Rendered(s), jsmd \in 0..2 :
          Set(s, [ sc[s] EXCEPT !.pc = "judge", !.page = Merged(@, js), !.of = js,
                                !.md = jsmd, !.standIn = FALSE, !.again = TRUE ])
    BY <1>3, Zenon DEF Escalate
  <2> QED
    BY <1>1, <2>1, AcceptGood DEF Set
<1> QED
  BY <1>2, <1>3

(* What the judge stores keeps the promises of an entry. *)
LEMMA StoreKeeps ==
  ASSUME IInv, NEW s \in Scrapes, sc[s].pc = "judge", WorthReplaying(s, FALSE),
         now' = now, cache' = Entry(s, sc[s].page),
         sc' = [ sc EXCEPT ![s] = [ sc[s] EXCEPT !.pc = "model" ] ]
  PROVE  Kept(cache)'
<1> DEFINE p == sc[s].page
<1>1. /\ sc[s] \in ScrapeRecord /\ Good(s, sc[s]) /\ p \in Pages /\ p.by = s
      /\ p.born <= now /\ sc[s].stamp <= p.born
  BY DEF IInv, Good, Sourced, GotPage, InHand, WorthReplaying, HasCandidate
<1>3. Bucket(p.left) >= Bucket(Left(s)) /\ Bucket(Left(s)) \in 0..Cardinality(Edges)
  BY <1>1, LeftType, BucketMonotone DEF Good, Paid, InHand
<1>4. /\ cache'.page = p /\ cache'.stamp = sc[s].stamp /\ cache'.bucket = Bucket(Left(s))
  BY DEF Entry
<1>5. sc'[s].pc = "model"
  BY <1>1 DEF IInv, ScrapeRecord
<1>6. sc[s].stamp \in 0..now /\ now \in Nat /\ Bucket(p.left) \in Nat /\ Cardinality(Edges) \in Nat
  BY <1>1, LeftType, PageFields, BucketMonotone DEF IInv, Good, ScrapeRecord
<1> HIDE DEF p
<1>7. Bucket(p.left)' = Bucket(p.left)
  BY <1>6 DEF Bucket, p
<1> QED
  BY <1>1, <1>3, <1>4, <1>5, <1>6 DEF Kept, Bucket

LEMMA JudgeKeeps ==
  ASSUME IInv, NEW s \in Scrapes, Judge(s)
  PROVE  IInv'
<1>1. /\ sc[s].pc = "judge" /\ now' = now
      /\ sc[s] \in ScrapeRecord /\ Good(s, sc[s])
  BY DEF Judge, IInv, Good
<1>2. CASE Unserviceable(s)
  <2>1. Fail(s) /\ UNCHANGED << now, cache >>
    BY <1>1, <1>2 DEF Judge
  <2> QED
    BY <2>1, FailKeeps
<1>3. CASE ~Unserviceable(s)
  <2>1. PICK blocked \in Blocks(s) :
          /\ cache' = IF WorthReplaying(s, blocked) /\ MaxAge[s] > 0 /\ s \in Storing
                      THEN Entry(s, sc[s].page) ELSE cache
          /\ sc' = [ sc EXCEPT ![s] =
                       IF blocked THEN [ Waiting EXCEPT !.pc = "done", !.out = "block" ]
                                  ELSE [ sc[s] EXCEPT !.pc = "model" ] ]
    BY <1>3 DEF Judge, Set
  <2>2. blocked \in BOOLEAN
    BY DEF Blocks
  <2>3. CASE blocked
    <3> DEFINE x == [ Waiting EXCEPT !.pc = "done", !.out = "block" ]
    <3>1. Good(s, x) /\ x.pc = "done"
      BY OverGood
    <3>2. sc' = [ sc EXCEPT ![s] = x ] /\ cache' = cache
      BY <2>1, <2>3 DEF WorthReplaying
    <3> HIDE DEF x
    <3> QED
      BY <1>1, <3>1, <3>2, OneStep DEF InHand
  <2>4. CASE ~blocked
    <3> DEFINE x == [ sc[s] EXCEPT !.pc = "model" ]
    <3>1. sc' = [ sc EXCEPT ![s] = x ] /\ blocked = FALSE
      BY <2>1, <2>2, <2>4
    <3>2. /\ x \in ScrapeRecord /\ x.pc = "model" /\ x.of = sc[s].of
          /\ x.page = sc[s].page /\ x.hit = sc[s].hit /\ x.stamp = sc[s].stamp
          /\ x.start = sc[s].start /\ x.again = sc[s].again /\ x.out = sc[s].out
      BY <1>1 DEF ScrapeRecord
    <3>3. CASE cache' = cache
      <4> HIDE DEF x
      <4>1. Good(s, x)
        BY <1>1, <3>2 DEF Good, Sourced, Paid, Worth, Placed, GotPage, InHand
      <4> QED
        BY <1>1, <3>1, <3>2, <3>3, <4>1, OneStep DEF InHand
    <3>4. CASE cache' # cache
      <4>1. WorthReplaying(s, FALSE) /\ cache' = Entry(s, sc[s].page)
        BY <2>1, <3>1, <3>4
      <4>2. Kept(cache)'
        BY <1>1, <3>1, <4>1, StoreKeeps
      <4> HIDE DEF x
      <4>3. Good(s, x)
        BY <1>1, <3>2 DEF Good, Sourced, Paid, Worth, Placed, GotPage, InHand
      <4>4. sc'[s] = x /\ DOMAIN sc' = Scrapes /\ \A r \in Scrapes \ {s} : sc'[r] = sc[r]
        BY <3>1 DEF IInv
      <4>5. \A r \in Scrapes : Left(r)' = Left(r)
        BY <1>1, <3>2, <4>4 DEF Left
      <4>6. \A r \in Scrapes : Good(r, sc[r])'
        BY <1>1, <4>3, <4>4, <4>5 DEF IInv, Good, Sourced, Paid
      <4> QED
        BY <1>1, <4>2, <4>4, <4>6 DEF IInv
    <3> QED
      BY <3>3, <3>4
  <2> QED
    BY <2>2, <2>3, <2>4
<1> QED
  BY <1>2, <1>3

LEMMA DeliverKeeps ==
  ASSUME IInv, NEW s \in Scrapes, Deliver(s)
  PROVE  IInv'
<1>1. /\ sc[s].pc = "model" /\ UNCHANGED << now, cache >>
      /\ sc[s] \in ScrapeRecord /\ Good(s, sc[s])
  BY DEF Deliver, IInv, Good
<1>2. CASE ~Fail(s)
  <2> DEFINE out == IF SaysCached(s) THEN "cached" ELSE "fresh"
             x == [ sc[s] EXCEPT !.pc = "done", !.out = out ]
  <2>1. sc' = [ sc EXCEPT ![s] = x ]
    BY <1>2 DEF Deliver, Set
  <2>2. out \in {"cached", "fresh"} /\ (out = "cached" <=> sc[s].hit /\ ~sc[s].again)
    BY DEF SaysCached
  <2> HIDE DEF out
  <2>3. /\ x \in ScrapeRecord /\ x.pc = "done" /\ x.out = out
        /\ x.page = sc[s].page /\ x.hit = sc[s].hit /\ x.stamp = sc[s].stamp
        /\ x.start = sc[s].start /\ x.again = sc[s].again
    BY <1>1, <2>2 DEF ScrapeRecord
  <2> HIDE DEF x
  <2>4. Sourced(s, x) /\ Paid(s, x) /\ Worth(x)
    BY <1>1, <2>3 DEF Good, Sourced, Paid, Worth, GotPage, InHand
  <2>5. Placed(x)
    BY <2>2, <2>3 DEF Placed
  <2>6. Good(s, x)
    BY <1>1, <2>3, <2>4, <2>5 DEF Good
  <2> QED
    BY <1>1, <2>1, <2>3, <2>6, OneStep DEF InHand
<1> QED
  BY <1>1, <1>2, FailKeeps

(* An eviction, and a step of nobody. *)
LEMMA NobodyKeeps ==
  ASSUME IInv, UNCHANGED << now, sc >>, cache' = NoPage \/ cache' = cache
  PROVE  IInv'
<1>1. \A r \in Scrapes : Good(r, sc[r])'
  BY DEF IInv, Good, Sourced, Paid, Left
<1>2. cache' # NoPage => Kept(cache)'
  BY DEF IInv, Kept
<1> QED
  BY <1>1, <1>2 DEF IInv

(* Time takes budget away from everybody, and adds to no page. *)
LEMMA TickKeeps ==
  ASSUME IInv, Tick
  PROVE  IInv'
<1>1. /\ now \in Nat /\ now' = now + 1 /\ now' \in 0..LastTime /\ sc' = sc /\ cache' = cache
  BY Constants DEF IInv, Tick
<1>2. ASSUME NEW r \in Scrapes
      PROVE  Good(r, sc[r])'
  <2>1. Good(r, sc[r]) /\ sc[r] \in ScrapeRecord
    BY DEF IInv, Good
  <2>2. Left(r)' <= Left(r) /\ Left(r) \in Nat /\ Left(r)' \in Nat
    BY <1>1, <2>1, Constants DEF Left, ScrapeRecord
  <2>3. InHand(sc[r]) => sc[r].page \in Pages /\ sc[r].page.left \in Nat
    BY <2>1, PageFields DEF Good, Sourced, GotPage
  <2>4. Bucket(Left(r)') <= Bucket(Left(r))
        /\ Bucket(Left(r)') \in Nat /\ Bucket(Left(r)) \in Nat
    BY <2>2, BucketMonotone
  <2>5. Paid(r, sc[r])'
    <3>1. InHand(sc[r]) => Bucket(sc[r].page.left) >= Bucket(Left(r))
                           /\ Bucket(sc[r].page.left) \in Nat
      BY <2>1, <2>3, BucketMonotone DEF Good, Paid
    <3>2. InHand(sc[r]) => Bucket(sc[r].page.left) >= Bucket(Left(r)')
      BY <2>4, <3>1
    <3>3. InHand(sc[r])' = InHand(sc[r])
      BY <1>1 DEF InHand
    <3> QED
      BY <1>1, <3>2 DEF Paid, InHand, Bucket
  <2>6. Sourced(r, sc[r])'
    <3>1. GotPage(sc[r]) => sc[r].page.born \in Nat
      BY <2>1, PageFields DEF Good, Sourced
    <3> QED
      BY <1>1, <2>1, <3>1 DEF Good, Sourced, GotPage, InHand, Bucket
  <2>7. sc[r].start <= now' /\ sc[r].stamp <= now'
    BY <1>1, <2>1 DEF Good, ScrapeRecord
  <2> QED
    BY <1>1, <2>1, <2>5, <2>6, <2>7 DEF Good, Worth, Placed
<1>3. cache # NoPage => Kept(cache)'
  <2>1. cache # NoPage => cache.page.born \in Nat
    BY PageFields DEF IInv, Kept
  <2> QED
    BY <1>1, <2>1 DEF IInv, Kept, Bucket
<1> QED
  BY <1>1, <1>2, <1>3 DEF IInv

LEMMA StepKeeps == IInv /\ [Next]_vars => IInv'
<1> SUFFICES ASSUME IInv, [Next]_vars PROVE IInv'
  OBVIOUS
<1>1. ASSUME NEW s \in Scrapes,
             Begin(s) \/ Lookup(s) \/ Fetch(s) \/ Extract(s) \/ Escalate(s) \/ Judge(s) \/ Deliver(s)
      PROVE  IInv'
  BY <1>1, BeginKeeps, LookupKeeps, FetchKeeps, ExtractKeeps, EscalateKeeps, JudgeKeeps, DeliverKeeps
<1>2. CASE Evict
  BY <1>2, NobodyKeeps DEF Evict
<1>3. CASE Tick
  BY <1>3, TickKeeps
<1>4. CASE UNCHANGED vars
  BY <1>4, NobodyKeeps DEF vars
<1> QED
  BY <1>1, <1>2, <1>3, <1>4 DEF Next

-----------------------------------------------------------------------------

(* What each scrape and the entry hold, in every state. *)
THEOREM Inductive == Spec => []IInv
<1>1. Init => IInv
  BY InitIInv
<1>2. IInv /\ [Next]_vars => IInv'
  BY StepKeeps
<1> QED
  BY <1>1, <1>2, PTL DEF Spec

(* Every variable keeps its type. *)
THEOREM TypeCorrect == Spec => []TypeOK
<1>1. IInv => TypeOK
  <2> SUFFICES ASSUME IInv PROVE TypeOK
    OBVIOUS
  <2>1. now \in Nat
    BY DEF IInv
  <2>2. ASSUME NEW s \in Scrapes
        PROVE  /\ sc[s].pc \in {"away", "lookup", "fetch", "extract", "escalate", "judge",
                                "model", "done"}
               /\ {sc[s].page, sc[s].of} \subseteq Pages \cup {NoPage} /\ sc[s].md \in 0..2
               /\ sc[s].start \in 0..now /\ sc[s].stamp \in 0..now
               /\ sc[s].out \in {"none", "error", "block", "cached", "fresh"}
    BY <2>1 DEF IInv, Good, ScrapeRecord
  <2> QED
    BY <2>2 DEF IInv, Kept, TypeOK
<1> QED
  BY <1>1, Inductive, PTL

(* A page replayed left the network no longer ago than its caller accepts. *)
THEOREM ReplaysFresh == Spec => []ReplayIsFresh
<1>1. IInv => ReplayIsFresh
  BY DEF IInv, Good, Sourced, Placed, GotPage, ReplayIsFresh
<1> QED
  BY <1>1, Inductive, PTL

(* What holds of a page the cache gave, from the moment it was given. *)
LEMMA OnlyWithPage ==
  ASSUME IInv, NEW s \in Scrapes, sc[s].hit
  PROVE  GotPage(sc[s])
BY DEF IInv, Good, ScrapeRecord, Placed, GotPage, InHand

(* Nobody is handed a page for which a tier was skipped that it could pay for. *)
THEOREM BudgetsHonoured == Spec => []BudgetHonoured
<1>1. IInv => BudgetHonoured
  <2> SUFFICES ASSUME IInv, NEW s \in Scrapes, sc[s].hit /\ ~sc[s].again
               PROVE  Bucket(sc[s].page.left) >= Bucket(sc[s].start + Budget[s] - sc[s].stamp)
    BY DEF BudgetHonoured
  <2>1. CASE GotPage(sc[s])
    BY <2>1 DEF IInv, Good, Sourced
  <2>2. CASE ~GotPage(sc[s])
    BY <2>2, OnlyWithPage
  <2> QED
    BY <2>1, <2>2
<1> QED
  BY <1>1, Inductive, PTL

(* What the judge stores is worth keeping by what its body is. *)
LEMMA StoredWorthKeeping ==
  ASSUME IInv, NEW s \in Scrapes, sc[s].pc = "judge", WorthReplaying(s, FALSE), FALSE \in Blocks(s)
  PROVE  WorthKeeping(s)
<1>1. Worth(sc[s]) /\ InHand(sc[s]) /\ sc[s].md \in 0..2
  BY DEF IInv, Good, ScrapeRecord, InHand
<1>2. /\ sc[s].page.flaw = "none" /\ ~sc[s].page.late /\ sc[s].md > 0 /\ ~sc[s].standIn
  BY DEF WorthReplaying
<1>3. sc[s].of.flaw = "error" => ~Thin(sc[s].md)
  BY DEF Blocks
<1>4. sc[s].of.flaw = "error" => sc[s].md = 2
  BY <1>1, <1>3 DEF Thin
<1>5. /\ sc[s].of.flaw \in {"none", "error"} /\ sc[s].page.low = sc[s].of.low
      /\ ~sc[s].again => sc[s].of.flaw = "none" /\ ~sc[s].of.late /\ sc[s].md = 2
  BY <1>1, <1>2, Zenon DEF Worth
<1> QED
  BY <1>2, <1>4, <1>5 DEF WorthKeeping

(* Only the judge changes a scrape and the entry in one step. *)
LEMMA OnlyJudgeStores ==
  ASSUME IInv, Next, NEW s \in Scrapes, sc'[s] # sc[s], cache' # cache
  PROVE  Judge(s)
<1>1. PICK r \in Scrapes : Judge(r)
  BY DEF Next, Begin, Lookup, Fetch, Extract, Escalate, Deliver, Evict, Tick
<1>2. CASE r = s
  BY <1>1, <1>2
<1>3. CASE r # s
  <2>1. sc'[s] = sc[s]
    BY <1>1, <1>3 DEF Judge, Fail, Set, IInv
  <2> QED
    BY <2>1
<1> QED
  BY <1>2, <1>3

(* Nothing is kept but a page whose own fetch made it worth keeping. *)
THEOREM GoodPagesKept == Spec => OnlyGoodPagesKept
<1>1. ASSUME IInv, [Next]_vars
      PROVE  [\A s \in Scrapes : sc'[s] # sc[s] /\ cache' # cache =>
                cache'.page = sc[s].page /\ WorthKeeping(s)]_vars
  <2>1. ASSUME Next, NEW s \in Scrapes, sc'[s] # sc[s], cache' # cache
        PROVE  cache'.page = sc[s].page /\ WorthKeeping(s)
    <3>1. Judge(s)
      BY <1>1, <2>1, OnlyJudgeStores
    <3>2. sc[s].pc = "judge" /\ ~Unserviceable(s)
      BY <2>1, <3>1 DEF Judge
    <3>3. PICK blocked \in Blocks(s) :
            WorthReplaying(s, blocked) /\ cache' = Entry(s, sc[s].page)
      BY <2>1, <3>1, <3>2 DEF Judge
    <3>4. blocked = FALSE
      BY <3>3 DEF WorthReplaying, Blocks
    <3>5. WorthKeeping(s)
      BY <1>1, <3>2, <3>3, <3>4, StoredWorthKeeping
    <3> QED
      BY <3>3, <3>5 DEF Entry
  <2> QED
    BY <1>1, <2>1
<1> QED
  BY <1>1, Inductive, PTL DEF Spec, OnlyGoodPagesKept

(* "Cached" is said of pages that others fetched, and of all of them. *)
THEOREM CachedIsSaid == Spec => []CachedSaysSo
<1>1. IInv => CachedSaysSo
  <2> SUFFICES ASSUME IInv, NEW s \in Scrapes, Delivered(s)
               PROVE  sc[s].out = "cached" <=> sc[s].page.by # s
    BY DEF CachedSaysSo
  <2>1. sc[s].page.by = s <=> ~sc[s].hit \/ sc[s].again
    BY DEF IInv, Good, Sourced, GotPage, Delivered
  <2>2. sc[s].out = "cached" <=> sc[s].hit /\ ~sc[s].again
    BY DEF IInv, Good, Placed, Delivered
  <2> QED
    BY <2>1, <2>2
<1> QED
  BY <1>1, Inductive, PTL

=============================================================================
