---------------------------- MODULE MonitorProofs ----------------------------
(***************************************************************************)
(* The safety properties of Monitor for any monitors with any targets: what *)
(* a check compares with is what was recorded last, what it reports is what  *)
(* it records, and an outage leaves the baselines alone.                     *)
(***************************************************************************)
EXTENDS Monitor, FiniteSetTheorems, SequenceTheorems, TLAPS

Target(m) == [ kind : {"scrape", "crawl"}, urls : SUBSET UrlsOf(m) ]

(* The scheduler's record has its fields, whatever they hold. *)
Fields == {"pc", "due", "queue", "cur", "todo", "ago", "prior", "pages"}
Shaped == DOMAIN sch = Fields

AtWork == sch.pc \in {"load", "fetch", "record", "post", "advance"}

(* A check in progress is one of a monitor, and of the rest of its targets. *)
Working ==
  /\ AtWork => sch.cur \in Monitors
  /\ sch.pc \in {"load", "fetch", "record", "post"} =>
       sch.todo \in Seq(Target(sch.cur)) /\ sch.todo # << >>

(* The scheduler knows only monitors that have been created. *)
Begun ==
  /\ \A m \in sch.due \cup sch.queue : mon[m].life # "planned"
  /\ AtWork => mon[sch.cur].life # "planned"

(* What a check compares with is what was recorded last. *)
PriorIsBase ==
  sch.pc = "fetch" =>
    /\ sch.prior \in [ UrlsOf(sch.cur) -> Bodies \cup {Absent} ]
    /\ Exists(sch.cur) => sch.prior = base[sch.cur]

(* The pages of a check are urls of its monitor, failed or with a baseline. *)
PagesTyped ==
  /\ sch.pc \notin {"record", "post"} => sch.pages = << >>
  /\ sch.pc \in {"record", "post"} =>
       /\ DOMAIN sch.pages \subseteq UrlsOf(sch.cur)
       /\ \A u \in DOMAIN sch.pages :
            /\ sch.pages[u].status \in Statuses
            /\ sch.pages[u].status # "error" => sch.pages[u].body \in Bodies \cup {Absent}

(* What is about to be recorded leaves a baseline, if there is one now. *)
SomethingIsLeft ==
  sch.pc = "record" /\ Exists(sch.cur) /\ Known(base[sch.cur]) # {} =>
    \E u \in UrlsOf(sch.cur) : Baselines(sch.cur, sch.pages)[u] # Absent

(* The inductive invariant. *)
IInv ==
  /\ TypeOK /\ Shaped /\ Working /\ Begun /\ PriorIsBase /\ PagesTyped
  /\ ReportsAreTrue /\ NewsIsOnRecord /\ NoOrphans /\ SomethingIsLeft

-----------------------------------------------------------------------------

LEMMA Constants ==
  /\ Hooked \subseteq Monitors /\ Garbled \subseteq Monitors /\ Nobody \notin Monitors
  /\ Absent \notin Bodies /\ Failed \notin Bodies /\ Absent # Failed
  /\ Interval \in Nat \ {0} /\ MaxCrashes \in Nat
  /\ Num \in Nat /\ Den \in Nat \ {0} /\ Num < Den
BY MonitorAssumption

(* The urls of a monitor are finitely many. *)
LEMMA UrlsFinite ==
  ASSUME NEW m \in Monitors
  PROVE  IsFiniteSet(UrlsOf(m))
<1> DEFINE each == { Targets[m][i].urls : i \in DOMAIN Targets[m] }
<1>1. Targets[m] \in Seq(Target(m))
  BY TargetsAssumption DEF Target
<1>2. DOMAIN Targets[m] = 1..Len(Targets[m]) /\ Len(Targets[m]) \in Nat
  BY <1>1
<1>3. IsFiniteSet(DOMAIN Targets[m])
  BY <1>2, FS_Interval
<1>4. IsFiniteSet(each)
  <2> DEFINE f == [ i \in DOMAIN Targets[m] |-> Targets[m][i].urls ]
  <2>1. f \in Surjection(DOMAIN Targets[m], each)
    BY DEF Surjection
  <2> QED
    BY <1>3, <2>1, FS_Surjection
<1>5. \A T \in each : IsFiniteSet(T)
  BY TargetsAssumption
<1> QED
  BY <1>4, <1>5, FS_UNION DEF UrlsOf

-----------------------------------------------------------------------------
(* run_check *)

(* What a crawl or a list of urls may have brought. *)
LEMMA FetchedTyped ==
  ASSUME NEW m, NEW target \in Target(m), NEW got \in Fetched(target)
  PROVE  /\ DOMAIN got \subseteq UrlsOf(m)
         /\ \A u \in DOMAIN got : got[u] \in Bodies \cup {Failed}
         /\ target.kind = "crawl" => \A u \in DOMAIN got : got[u] \in Bodies
<1>1. target.kind \in {"scrape", "crawl"} /\ target.urls \subseteq UrlsOf(m)
  BY DEF Target
<1>2. CASE target.kind = "scrape"
  BY <1>1, <1>2 DEF Fetched
<1>3. CASE target.kind = "crawl"
  <2>1. PICK found \in SUBSET target.urls : got \in [ found -> Bodies ]
    BY <1>3 DEF Fetched
  <2> QED
    BY <1>1, <1>3, <2>1
<1> QED
  BY <1>1, <1>2, <1>3

(* What a check says of its pages, against what it compared them with. *)
LEMMA ComparedRight ==
  ASSUME NEW D, NEW prior \in [ D -> Bodies \cup {Absent} ], NEW kind, NEW got,
         DOMAIN got \subseteq D, \A u \in DOMAIN got : got[u] \in Bodies \cup {Failed},
         NEW u \in DOMAIN Compared(kind, prior, got)
  PROVE  LET p == Compared(kind, prior, got)[u] IN
         /\ u \in D
         /\ p.status \in Statuses
         /\ p.status # "error" => p.body \in Bodies \cup {Absent}
         /\ p.status = "same" <=> prior[u] = p.body /\ p.body # Absent
         /\ p.status = "new" => prior[u] = Absent
         /\ p.status = "changed" => prior[u] \in Bodies \ {p.body}
         /\ p.status = "removed" => prior[u] # Absent
<1> DEFINE p == Compared(kind, prior, got)[u]
<1>1. u \in DOMAIN got \cup Vanished(kind, prior, got)
  BY DEF Compared
<1>2. Vanished(kind, prior, got) \subseteq Known(prior) \ DOMAIN got
  BY DEF Vanished
<1>3. CASE u \in DOMAIN got
  <2>1. p = [ status |-> StatusOf(prior[u], got[u]), body |-> got[u] ]
    BY <1>1, <1>3 DEF Compared
  <2>2. p.status = StatusOf(prior[u], got[u]) /\ p.body = got[u]
    BY <2>1
  <2>3. u \in D /\ prior[u] \in Bodies \cup {Absent} /\ got[u] \in Bodies \cup {Failed}
    BY <1>3
  <2>4. CASE got[u] = Failed
    BY <2>2, <2>3, <2>4, Constants DEF StatusOf, Statuses
  <2>5. CASE got[u] # Failed /\ prior[u] = Absent
    BY <2>2, <2>3, <2>5, Constants DEF StatusOf, Statuses
  <2>6. CASE got[u] # Failed /\ prior[u] # Absent /\ prior[u] = got[u]
    BY <2>2, <2>3, <2>6, Constants DEF StatusOf, Statuses
  <2>7. CASE got[u] # Failed /\ prior[u] # Absent /\ prior[u] # got[u]
    BY <2>2, <2>3, <2>7, Constants DEF StatusOf, Statuses
  <2> QED
    BY <2>4, <2>5, <2>6, <2>7
<1>4. CASE u \notin DOMAIN got
  <2>1. p = [ status |-> "removed", body |-> Absent ]
    BY <1>1, <1>4 DEF Compared
  <2>2. u \in D /\ prior[u] # Absent
    BY <1>1, <1>2, <1>4 DEF Known
  <2> QED
    BY <2>1, <2>2 DEF Statuses
<1> QED
  BY <1>3, <1>4

(* More than a fraction of the known urls is gone when all of them are. *)
LEMMA AllGoneIsDown ==
  ASSUME NEW prior, NEW got, IsFiniteSet(Known(prior)), Known(prior) # {}, DOMAIN got = {}
  PROVE  SiteDown(prior, got)
<1> DEFINE n == Cardinality(Known(prior))
<1>1. n \in Nat /\ n # 0
  BY FS_CardinalityType, FS_EmptySet
<1>2. Cardinality(DOMAIN got) = 0
  BY FS_EmptySet
<1>3. Known(prior) \ DOMAIN got = Known(prior)
  OBVIOUS
<1>4. Den * n > Num * n
  <2>1. Den \in Nat /\ Num \in Nat /\ Den >= Num + 1
    BY Constants
  <2> HIDE DEF n
  <2>2. Den * n >= (Num + 1) * n
    BY <2>1, <1>1
  <2>3. (Num + 1) * n = Num * n + n
    BY <2>1, <1>1
  <2>4. Num * n \in Nat /\ Den * n \in Nat
    BY <2>1, <1>1
  <2> QED
    BY <2>1, <2>2, <2>3, <2>4, <1>1
<1> QED
  BY <1>1, <1>2, <1>3, <1>4 DEF SiteDown

(* A check never leaves a monitor that had baselines without any. *)
LEMMA CheckLeavesSome ==
  ASSUME NEW m \in Monitors, base[m] \in [ UrlsOf(m) -> Bodies \cup {Absent} ],
         Known(base[m]) # {}, NEW target \in Target(m), NEW got \in Fetched(target)
  PROVE  \E u \in UrlsOf(m) : Baselines(m, Compared(target.kind, base[m], got))[u] # Absent
<1> DEFINE pages == Compared(target.kind, base[m], got)
           after == Baselines(m, pages)
<1>1. DOMAIN pages = DOMAIN got \cup Vanished(target.kind, base[m], got)
  BY DEF Compared
<1>2. \A u \in DOMAIN got :
        pages[u].status = StatusOf(base[m][u], got[u]) /\ pages[u].body = got[u]
  <2> TAKE u \in DOMAIN got
  <2>1. pages[u] = [ status |-> StatusOf(base[m][u], got[u]), body |-> got[u] ]
    BY DEF Compared
  <2> QED
    BY <2>1
<1>3. \A u \in UrlsOf(m) :
        after[u] = IF u \in DOMAIN pages /\ pages[u].status # "error"
                   THEN pages[u].body ELSE base[m][u]
  BY DEF Baselines
<1>4. PICK k \in UrlsOf(m) : base[m][k] # Absent
  BY DEF Known
<1> SUFFICES \E u \in UrlsOf(m) : after[u] # Absent
  OBVIOUS
<1> HIDE DEF pages, after
<1>5. CASE \E u \in DOMAIN got : got[u] \in Bodies
  <2>1. PICK u \in DOMAIN got : got[u] \in Bodies
    BY <1>5
  <2>2. pages[u].status = StatusOf(base[m][u], got[u]) /\ pages[u].body = got[u]
    BY <1>2
  <2>3. StatusOf(base[m][u], got[u]) # "error"
    BY <2>1, Constants DEF StatusOf
  <2>4. u \in UrlsOf(m) /\ u \in DOMAIN pages
    BY <1>1, FetchedTyped
  <2> QED
    BY <1>3, <2>1, <2>2, <2>3, <2>4, Constants
<1>6. CASE \A u \in DOMAIN got : got[u] \notin Bodies
  <2>1. \A u \in DOMAIN got : got[u] = Failed
    BY <1>6, FetchedTyped
  <2>2. \A u \in DOMAIN got : pages[u].status = "error"
    BY <1>2, <2>1 DEF StatusOf
  <2>3. Vanished(target.kind, base[m], got) = {}
    <3>1. CASE target.kind = "crawl"
      <4>1. DOMAIN got = {}
        BY <1>6, <3>1, FetchedTyped
      <4>2. IsFiniteSet(Known(base[m]))
        <5>1. Known(base[m]) \subseteq UrlsOf(m)
          BY DEF Known
        <5> QED
          BY <5>1, UrlsFinite, FS_Subset
      <4>3. SiteDown(base[m], got)
        BY <4>1, <4>2, AllGoneIsDown
      <4> QED
        BY <4>3 DEF Vanished
    <3>2. CASE target.kind # "crawl"
      BY <3>2 DEF Vanished
    <3> QED
      BY <3>1, <3>2
  <2> QED
    BY <1>1, <1>3, <1>4, <2>2, <2>3
<1> QED
  BY <1>5, <1>6

-----------------------------------------------------------------------------
(* the steps *)

LEMMA IdleFields ==
  /\ Idle.pc = "idle" /\ Idle.due = {} /\ Idle.queue = {} /\ Idle.cur = Nobody
  /\ Idle.todo = << >> /\ Idle.ago = 0 /\ Idle.prior = << >> /\ Idle.pages = << >>
  /\ DOMAIN Idle = Fields
BY DEF Idle, Fields

LEMMA InitIInv == Init => IInv
<1> SUFFICES ASSUME Init PROVE IInv
  OBVIOUS
<1>1. sch = Idle /\ crashes = 0
  BY DEF Init
<1>2. \A m \in Monitors :
        /\ mon[m] = [ life |-> "planned", status |-> "active", left |-> 0, parses |-> TRUE ]
        /\ base[m] = Blank(m)
  BY DEF Init
<1>3. mon \in [ Monitors -> Row ]
  BY Constants DEF Init, Row
<1>4. TypeOK
  <2>1. \A m \in Monitors : base[m] \in [ UrlsOf(m) -> Bodies \cup {Absent} ]
    BY <1>2 DEF Blank
  <2>2. sch.pages = << >> /\ DOMAIN sch.pages = {} /\ DOMAIN base = Monitors
    BY <1>1, IdleFields DEF Init
  <2> QED
    BY <1>1, <1>3, <2>1, <2>2, IdleFields, Constants DEF TypeOK
<1>5. Shaped
  BY <1>1, IdleFields DEF Shaped, Fields
<1> QED
  BY <1>1, <1>2, <1>4, <1>5, IdleFields DEF IInv, Working, AtWork, Begun, PriorIsBase, PagesTyped,
     ReportsAreTrue, NewsIsOnRecord, NoOrphans, SomethingIsLeft

(* Steps of the scheduler that leave the store alone and look at no page. *)
LEMMA ToIdle ==
  ASSUME IInv, sch' = Idle, UNCHANGED << mon, base >>, crashes' \in 0..MaxCrashes
  PROVE  IInv'
<1>1. TypeOK'
  BY IdleFields, Constants DEF IInv, TypeOK
<1>2. Shaped'
  BY IdleFields DEF Shaped, Fields
<1>3. NoOrphans'
  BY DEF IInv, NoOrphans, Exists
<1> QED
  BY <1>1, <1>2, <1>3, IdleFields DEF IInv, Working, AtWork, Begun, PriorIsBase, PagesTyped,
     ReportsAreTrue, NewsIsOnRecord, SomethingIsLeft

(* A step of the scheduler between two checks, or that ends one. *)
LEMMA BetweenChecks ==
  ASSUME IInv, UNCHANGED << base, crashes >>, mon' \in [ Monitors -> Row ],
         \A m \in Monitors : mon'[m].life = mon[m].life,
         Shaped', sch'.pc \in {"rows", "next", "load", "advance"},
         sch'.due \subseteq Monitors, sch'.queue \subseteq Monitors,
         sch'.cur \in Monitors \cup {Nobody}, sch'.ago \in 0..Interval, sch'.pages = << >>,
         sch'.pc \in {"load", "advance"} =>
           sch'.cur \in Monitors /\ mon[sch'.cur].life # "planned",
         \A m \in sch'.due \cup sch'.queue : mon[m].life # "planned",
         sch'.pc = "load" => sch'.todo \in Seq(Target(sch'.cur)) /\ sch'.todo # << >>
  PROVE  IInv'
<1>1. TypeOK'
  BY DEF IInv, TypeOK
<1>2. NoOrphans'
  BY DEF IInv, NoOrphans, Exists
<1> QED
  BY <1>1, <1>2 DEF IInv, Working, AtWork, Begun, PriorIsBase, PagesTyped,
     ReportsAreTrue, NewsIsOnRecord, SomethingIsLeft

LEMMA WakeKeeps ==
  ASSUME IInv, Wake
  PROVE  IInv'
<1>1. sch' = [ Idle EXCEPT !.pc = "rows", !.due = { m \in Monitors : Due(m) } ]
  BY DEF Wake
<1>2. /\ sch'.pc = "rows" /\ sch'.due \subseteq Monitors /\ sch'.queue = {}
      /\ sch'.cur = Nobody /\ sch'.ago = 0 /\ sch'.pages = << >> /\ Shaped'
  BY <1>1 DEF Idle, Shaped, Fields
<1>4. \A m \in sch'.due : mon[m].life # "planned"
  BY <1>1, <1>2 DEF Idle, Due, Active, Exists
<1>3. mon' \in [ Monitors -> Row ] /\ UNCHANGED << mon, base, crashes >>
  BY DEF Wake, IInv, TypeOK
<1> QED
  BY <1>2, <1>3, <1>4, BetweenChecks, Constants

LEMMA GetRowKeeps ==
  ASSUME IInv, NEW m \in Monitors, GetRow(m)
  PROVE  IInv'
<1>1. CASE ~Exists(m)
  BY <1>1, ToIdle DEF GetRow, IInv, TypeOK
<1>2. CASE Exists(m)
  <2>1. /\ sch'.pc \in {"rows", "next"} /\ sch'.due = sch.due \ {m}
        /\ sch'.queue = sch.queue \cup {m}
        /\ sch'.cur = sch.cur /\ sch'.ago = sch.ago /\ sch'.pages = sch.pages
        /\ Shaped'
    BY <1>2 DEF GetRow, IInv, Shaped, Fields
  <2>2. sch.pc = "rows" /\ sch.pages = << >>
    BY DEF GetRow, IInv, PagesTyped
  <2>3. mon' \in [ Monitors -> Row ] /\ UNCHANGED << mon, base, crashes >>
    BY DEF GetRow, IInv, TypeOK
  <2> QED
    BY <1>2, <2>1, <2>2, <2>3, BetweenChecks DEF IInv, TypeOK, Begun, Exists
<1> QED
  BY <1>1, <1>2

LEMMA StartKeeps ==
  ASSUME IInv, NEW m \in Monitors, Start(m)
  PROVE  IInv'
<1>1. /\ sch'.pc = IF Exists(m) /\ Targets[m] # << >> THEN "load" ELSE "advance"
      /\ sch'.todo = IF Exists(m) THEN Targets[m] ELSE << >>
      /\ sch'.due = sch.due /\ sch'.queue = sch.queue \ {m}
      /\ sch'.cur = m /\ sch'.ago = sch.ago /\ sch'.pages = sch.pages
      /\ Shaped'
  BY DEF Start, IInv, Shaped, Fields
<1>2. sch.pc = "next" /\ sch.pages = << >>
  BY DEF Start, IInv, PagesTyped
<1>3. Targets[m] \in Seq(Target(m))
  BY TargetsAssumption DEF Target
<1>4. mon' \in [ Monitors -> Row ] /\ UNCHANGED << mon, base, crashes >>
  BY DEF Start, IInv, TypeOK
<1>5. mon[m].life # "planned"
  BY DEF Start, IInv, Begun
<1> QED
  BY <1>1, <1>2, <1>3, <1>4, <1>5, BetweenChecks DEF IInv, TypeOK, Begun

LEMMA SleepKeeps ==
  ASSUME IInv, Sleep
  PROVE  IInv'
BY ToIdle DEF Sleep, IInv, TypeOK

LEMMA AfterErrorFields ==
  /\ AfterError.pc = "next" /\ AfterError.due = {} /\ AfterError.queue = sch.queue
  /\ AfterError.cur = Nobody /\ AfterError.todo = << >> /\ AfterError.ago = sch.ago
  /\ AfterError.prior = << >> /\ AfterError.pages = << >>
  /\ DOMAIN AfterError = Fields
BY IdleFields DEF AfterError, Fields

LEMMA ErrorKeeps ==
  ASSUME IInv, sch' = AfterError, UNCHANGED << mon, base, crashes >>
  PROVE  IInv'
<1>1. Shaped' /\ mon' \in [ Monitors -> Row ]
  BY AfterErrorFields DEF Shaped, Fields, IInv, TypeOK
<1> QED
  BY <1>1, AfterErrorFields, BetweenChecks DEF IInv, TypeOK, Begun

LEMMA LoadKeeps ==
  ASSUME IInv, Load
  PROVE  IInv'
<1>0. CASE sch' = AfterError
  BY <1>0, ErrorKeeps DEF Load
<1>1. ASSUME sch' = [ sch EXCEPT !.pc = "fetch", !.prior = base[sch.cur] ]
      PROVE  IInv'
  <2>1. /\ sch'.pc = "fetch" /\ sch'.prior = base[sch.cur] /\ sch'.todo = sch.todo
        /\ sch'.due = sch.due /\ sch'.queue = sch.queue
        /\ sch'.cur = sch.cur /\ sch'.ago = sch.ago /\ sch'.pages = sch.pages
        /\ Shaped'
    BY <1>1 DEF IInv, Shaped, Fields
  <2>2. sch.pc = "load" /\ sch.pages = << >> /\ UNCHANGED << mon, base, crashes >>
    BY DEF Load, IInv, PagesTyped
  <2>3. sch.cur \in Monitors /\ sch.todo \in Seq(Target(sch.cur)) /\ sch.todo # << >>
    BY <2>2 DEF IInv, Working, AtWork
  <2>4. TypeOK'
    BY <2>1, <2>2 DEF IInv, TypeOK
  <2>5. PriorIsBase'
    BY <2>1, <2>2, <2>3 DEF IInv, TypeOK, PriorIsBase
  <2>6. NoOrphans'
    BY <2>2 DEF IInv, NoOrphans, Exists
  <2> QED
    BY <2>1, <2>2, <2>3, <2>4, <2>5, <2>6 DEF IInv, Working, AtWork, Begun, PagesTyped,
       ReportsAreTrue, NewsIsOnRecord, SomethingIsLeft
<1> QED
  BY <1>0, <1>1 DEF Load

LEMMA RunCheckKeeps ==
  ASSUME IInv, RunCheck
  PROVE  IInv'
<1> DEFINE m == sch.cur
           target == Head(sch.todo)
<1>1. sch.pc = "fetch" /\ UNCHANGED << mon, base, crashes >>
  BY DEF RunCheck
<1>2. /\ m \in Monitors /\ target \in Target(m)
      /\ sch.todo \in Seq(Target(m)) /\ sch.todo # << >>
  BY <1>1 DEF IInv, Working, AtWork
<1>3. /\ sch.prior \in [ UrlsOf(m) -> Bodies \cup {Absent} ]
      /\ Exists(m) => sch.prior = base[m]
  BY <1>1 DEF IInv, PriorIsBase
<1>4. CASE sch' = AfterError
  BY <1>1, <1>4, ErrorKeeps
<1>5. ASSUME NEW got \in Fetched(target),
             sch' = [ sch EXCEPT !.pc = "record",
                                 !.pages = Compared(target.kind, sch.prior, got) ]
      PROVE  IInv'
  <2>1. /\ sch'.pc = "record" /\ sch'.pages = Compared(target.kind, sch.prior, got)
        /\ sch'.todo = sch.todo /\ sch'.due = sch.due /\ sch'.queue = sch.queue
        /\ sch'.cur = sch.cur /\ sch'.ago = sch.ago /\ sch'.prior = sch.prior
        /\ Shaped'
    BY <1>5 DEF IInv, Shaped, Fields
  <2>2. /\ DOMAIN got \subseteq UrlsOf(m)
        /\ \A u \in DOMAIN got : got[u] \in Bodies \cup {Failed}
    BY <1>2, FetchedTyped
  <2>3. \A u \in DOMAIN sch'.pages :
         LET p == sch'.pages[u] IN
         /\ u \in UrlsOf(m)
         /\ p.status \in Statuses
         /\ p.status # "error" => p.body \in Bodies \cup {Absent}
         /\ p.status = "same" <=> sch.prior[u] = p.body /\ p.body # Absent
         /\ p.status = "new" => sch.prior[u] = Absent
         /\ p.status = "changed" => sch.prior[u] \in Bodies \ {p.body}
         /\ p.status = "removed" => sch.prior[u] # Absent
    BY <1>3, <2>1, <2>2, ComparedRight
  <2>4. TypeOK'
    BY <1>1, <2>1, <2>3 DEF IInv, TypeOK
  <2>5. ReportsAreTrue'
    BY <1>1, <1>3, <2>1, <2>3 DEF ReportsAreTrue, Exists
  <2>6. SomethingIsLeft'
    <3> SUFFICES ASSUME Exists(m), Known(base[m]) # {}
                 PROVE  \E u \in UrlsOf(m) : Baselines(m, sch'.pages)[u] # Absent
      BY <1>1, <2>1 DEF SomethingIsLeft, Exists, Baselines
    <3>1. base[m] \in [ UrlsOf(m) -> Bodies \cup {Absent} ]
      BY <1>2 DEF IInv, TypeOK
    <3>2. sch'.pages = Compared(target.kind, base[m], got)
      BY <1>3, <2>1
    <3> QED
      BY <1>2, <3>1, <3>2, CheckLeavesSome
  <2>7. NoOrphans'
    BY <1>1 DEF IInv, NoOrphans, Exists
  <2>8. Working' /\ Begun' /\ PriorIsBase' /\ NewsIsOnRecord'
    BY <1>1, <1>2, <2>1 DEF IInv, Working, AtWork, Begun, PriorIsBase, NewsIsOnRecord
  <2>9. PagesTyped'
    BY <2>1, <2>3 DEF PagesTyped
  <2> QED
    BY <2>1, <2>4, <2>5, <2>6, <2>7, <2>8, <2>9 DEF IInv
<1> QED
  BY <1>4, <1>5 DEF RunCheck

(* Onward: the next target, or the end of the run. *)
LEMMA OnwardFields ==
  ASSUME IInv, sch.pc \in {"record", "post"}
  PROVE  /\ Onward.pc \in {"load", "advance"} /\ Onward.due = sch.due
         /\ Onward.queue = sch.queue /\ Onward.cur = sch.cur /\ Onward.cur \in Monitors
         /\ Onward.ago = sch.ago /\ Onward.prior = << >> /\ Onward.pages = << >>
         /\ Onward.pc = "load" => Onward.todo \in Seq(Target(sch.cur)) /\ Onward.todo # << >>
         /\ DOMAIN Onward = Fields
<1>1. /\ sch.cur \in Monitors
      /\ sch.todo \in Seq(Target(sch.cur)) /\ sch.todo # << >>
  BY DEF IInv, Working, AtWork
<1>2. /\ Tail(sch.todo) \in Seq(Target(sch.cur))
      /\ Len(sch.todo) > 1 => Tail(sch.todo) # << >>
  <2> DEFINE S == Target(sch.cur)
             s == sch.todo
  <2>0. s \in Seq(S) /\ s # << >>
    BY <1>1
  <2> HIDE DEF s, S
  <2>3. Tail(s) \in Seq(S) /\ Len(Tail(s)) = Len(s) - 1
    BY <2>0, HeadTailProperties
  <2>4. Len(s) \in Nat
    BY <2>0, EmptySeq
  <2>1. /\ Tail(sch.todo) \in Seq(Target(sch.cur))
        /\ Len(Tail(sch.todo)) = Len(sch.todo) - 1 /\ Len(sch.todo) \in Nat
    BY <2>3, <2>4 DEF s, S
  <2>2. Len(sch.todo) > 1 => Tail(sch.todo) # << >>
    <3> SUFFICES ASSUME Len(s) > 1, Tail(s) = << >> PROVE FALSE
      BY DEF s
    <3>1. Len(Tail(s)) = 0
      BY EmptySeq
    <3> QED
      BY <2>3, <2>4, <3>1
  <2> QED
    BY <2>1, <2>2
<1>3. /\ Onward.pc = IF Len(sch.todo) > 1 THEN "load" ELSE "advance"
      /\ Onward.due = sch.due /\ Onward.queue = sch.queue /\ Onward.cur = sch.cur
      /\ Onward.ago = sch.ago /\ Onward.prior = << >> /\ Onward.pages = << >>
      /\ Onward.todo = Tail(sch.todo)
      /\ DOMAIN Onward = Fields
  BY DEF Onward, IInv, Shaped, Fields
<1> QED
  BY <1>1, <1>2, <1>3

LEMMA DeliverKeeps ==
  ASSUME IInv, Deliver
  PROVE  IInv'
<1>1. sch.pc = "post" /\ sch' = Onward /\ UNCHANGED << mon, base, crashes >>
  BY DEF Deliver
<1>2. Shaped' /\ mon' \in [ Monitors -> Row ]
  BY <1>1, OnwardFields DEF Shaped, Fields, IInv, TypeOK
<1> QED
  BY <1>1, <1>2, OnwardFields, BetweenChecks DEF IInv, TypeOK, Begun, AtWork

LEMMA RecordKeeps ==
  ASSUME IInv, Record
  PROVE  IInv'
<1> DEFINE m == sch.cur
<1>1. sch.pc = "record" /\ UNCHANGED << mon, crashes >>
  BY DEF Record
<1>2. CASE UNCHANGED base /\ sch' = AfterError
  BY <1>1, <1>2, ErrorKeeps
<1>3. ASSUME Exists(m), base' = [ base EXCEPT ![m] = Baselines(m, sch.pages) ],
             sch' = IF m \in Hooked THEN [ sch EXCEPT !.pc = "post" ] ELSE Onward
      PROVE  IInv'
  <2>1. m \in Monitors /\ sch.todo \in Seq(Target(m)) /\ sch.todo # << >>
    BY <1>1 DEF IInv, Working, AtWork
  <2>2. /\ DOMAIN sch.pages \subseteq UrlsOf(m)
        /\ \A u \in DOMAIN sch.pages :
             /\ sch.pages[u].status \in Statuses
             /\ sch.pages[u].status # "error" => sch.pages[u].body \in Bodies \cup {Absent}
    BY <1>1 DEF IInv, PagesTyped
  <2>3. \A u \in UrlsOf(m) :
          Baselines(m, sch.pages)[u] = IF u \in DOMAIN sch.pages /\ sch.pages[u].status # "error"
                                       THEN sch.pages[u].body ELSE base[m][u]
    BY DEF Baselines
  <2>4. Baselines(m, sch.pages) \in [ UrlsOf(m) -> Bodies \cup {Absent} ]
    <3>1. base[m] \in [ UrlsOf(m) -> Bodies \cup {Absent} ]
      BY <2>1 DEF IInv, TypeOK
    <3> QED
      BY <2>2, <3>1 DEF Baselines
  <2>5. base'[m] = Baselines(m, sch.pages) /\ \A n \in Monitors \ {m} : base'[n] = base[n]
    BY <1>3, <2>1 DEF IInv, TypeOK
  <2>6. \A n \in Monitors : base'[n] \in [ UrlsOf(n) -> Bodies \cup {Absent} ]
    BY <2>4, <2>5 DEF IInv, TypeOK
  <2>7. NoOrphans'
    BY <1>1, <1>3, <2>5 DEF IInv, NoOrphans, Exists
  <2>8. CASE m \in Hooked
    <3>1. /\ sch'.pc = "post" /\ sch'.todo = sch.todo /\ sch'.due = sch.due
          /\ sch'.queue = sch.queue /\ sch'.cur = m /\ sch'.ago = sch.ago
          /\ sch'.prior = sch.prior /\ sch'.pages = sch.pages /\ Shaped'
      BY <1>3, <2>8 DEF IInv, Shaped, Fields
    <3>2. TypeOK'
      BY <1>1, <1>3, <2>6, <3>1 DEF IInv, TypeOK
    <3>3. NewsIsOnRecord'
      BY <2>2, <2>3, <2>5, <3>1 DEF NewsIsOnRecord
    <3> QED
      BY <1>1, <2>1, <2>2, <2>7, <3>1, <3>2, <3>3 DEF IInv, Working, AtWork, Begun, PriorIsBase,
         PagesTyped, ReportsAreTrue, SomethingIsLeft
  <2>9. CASE m \notin Hooked
    <3>1. sch' = Onward
      BY <1>3, <2>9
    <3>2. TypeOK'
      BY <1>1, <1>3, <2>6, <3>1, OnwardFields DEF IInv, TypeOK
    <3> QED
      BY <1>1, <2>1, <2>7, <3>1, <3>2, OnwardFields DEF IInv, Shaped, Working, AtWork, Begun,
         PriorIsBase, PagesTyped, ReportsAreTrue, NewsIsOnRecord, SomethingIsLeft
  <2> QED
    BY <2>8, <2>9
<1> QED
  BY <1>2, <1>3 DEF Record, Recordable

LEMMA AdvanceKeeps ==
  ASSUME IInv, Advance
  PROVE  IInv'
<1> DEFINE m == sch.cur
<1>1. sch.pc = "advance" /\ sch' = AfterError /\ UNCHANGED << base, crashes >>
  BY DEF Advance
<1>2. m \in Monitors /\ mon[m] \in Row /\ sch.ago \in 0..Interval
  BY <1>1 DEF IInv, Working, AtWork, TypeOK
<1>3. /\ Advanced(mon[m], sch.ago) \in Row
      /\ Advanced(mon[m], sch.ago).life = mon[m].life
  BY <1>2, Constants DEF Advanced, Row
<1>4. /\ mon' \in [ Monitors -> Row ]
      /\ \A n \in Monitors : mon'[n].life = mon[n].life
  <2>1. CASE UNCHANGED mon
    BY <2>1 DEF IInv, TypeOK
  <2>2. CASE mon' = [ mon EXCEPT ![m] = IF Exists(m) THEN Advanced(mon[m], sch.ago) ELSE mon[m] ]
    BY <1>2, <1>3, <2>2 DEF IInv, TypeOK
  <2> QED
    BY <2>1, <2>2 DEF Advance
<1>5. Shaped'
  BY <1>1, AfterErrorFields DEF Shaped
<1> QED
  BY <1>1, <1>4, <1>5, AfterErrorFields, BetweenChecks DEF IInv, TypeOK, Begun

-----------------------------------------------------------------------------
(* the clock, a crash and the owner of the store *)

LEMMA TimeStatus ==
  ASSUME IInv, Time
  PROVE  \A m \in Monitors : mon'[m].status = mon[m].status
<1> TAKE m \in Monitors
<1>1. mon[m] \in Row /\ mon'[m] = [ mon[m] EXCEPT !.left = Down(mon[m].left) ]
  BY DEF Time, IInv, TypeOK
<1> QED
  BY <1>1 DEF Row

LEMMA TimeKeeps ==
  ASSUME IInv, Time
  PROVE  IInv'
<1>1. /\ mon' \in [ Monitors -> Row ]
      /\ \A m \in Monitors : mon'[m].life = mon[m].life /\ mon'[m].status = mon[m].status
  <2>1. \A m \in Monitors :
          /\ mon[m] \in Row
          /\ mon'[m] = [ mon[m] EXCEPT !.left = Down(mon[m].left) ]
    BY DEF Time, IInv, TypeOK
  <2>2. \A m \in Monitors : Down(mon[m].left) \in 0..Interval
    <3> TAKE m \in Monitors
    <3>1. mon[m].left \in 0..Interval /\ Interval \in Nat
      BY <2>1, Constants DEF Row
    <3> QED
      BY <3>1 DEF Down
  <2>3. \A m \in Monitors :
          mon'[m] \in Row /\ mon'[m].life = mon[m].life /\ mon'[m].status = mon[m].status
    BY <2>1, <2>2 DEF Row
  <2> QED
    BY <2>3 DEF Time
<1>2. /\ sch'.pc = sch.pc /\ sch'.todo = sch.todo /\ sch'.due = sch.due
      /\ sch'.queue = sch.queue /\ sch'.cur = sch.cur /\ sch'.prior = sch.prior
      /\ sch'.pages = sch.pages /\ Shaped'
      /\ sch'.ago = IF sch.pc = "idle" \/ sch.ago = Interval THEN sch.ago ELSE sch.ago + 1
      /\ UNCHANGED << base, crashes >>
  BY DEF Time, IInv, Shaped, Fields
<1>3. sch'.ago \in 0..Interval
  BY <1>2, Constants DEF IInv, TypeOK
<1>4. TypeOK'
  BY <1>1, <1>2, <1>3 DEF IInv, TypeOK
<1>5. SomethingIsLeft'
  <2> SUFFICES ASSUME sch.pc = "record"
               PROVE  SomethingIsLeft'
    BY <1>2 DEF SomethingIsLeft
  <2>1. sch.cur \in Monitors
    BY DEF IInv, Working, AtWork
  <2> QED
    BY <1>1, <1>2, <2>1 DEF IInv, SomethingIsLeft, Exists, Baselines
<1>6. Working' /\ PagesTyped' /\ NoOrphans'
  BY <1>1, <1>2 DEF IInv, Working, AtWork, PagesTyped, NoOrphans, Exists
<1>7. Begun'
  BY <1>1, <1>2 DEF IInv, Working, AtWork, Begun, TypeOK
<1>8. PriorIsBase' /\ ReportsAreTrue' /\ NewsIsOnRecord'
  <2>1. AtWork => Exists(sch.cur)' = Exists(sch.cur)
    BY <1>1, <1>2 DEF IInv, Working, AtWork, Exists
  <2> QED
    BY <1>1, <1>2, <2>1 DEF IInv, AtWork, PriorIsBase, ReportsAreTrue, NewsIsOnRecord
<1> QED
  BY <1>2, <1>4, <1>5, <1>6, <1>7, <1>8 DEF IInv

(* What the owner does to other monitors does not concern a check; of its own *)
(* monitor a check may only see that it has gone.                              *)
LEMMA OwnerKeeps ==
  ASSUME IInv, NEW m \in Monitors, mon' \in [ Monitors -> Row ], UNCHANGED << sch, crashes >>,
         DOMAIN base' = Monitors,
         \A n \in Monitors \ {m} : mon'[n] = mon[n] /\ base'[n] = base[n],
         base'[m] \in {base[m], Blank(m)},
         mon'[m].life # "planned",
         Exists(m)' => base'[m] = base[m],
         Exists(m)' => Exists(m) \/ mon[m].life = "planned",
         ~Exists(m)' => base'[m] = Blank(m)
  PROVE  IInv'
<1>0. base'[m] \in [ UrlsOf(m) -> Bodies \cup {Absent} ]
  BY DEF IInv, TypeOK, Blank
<1>1. TypeOK'
  BY <1>0 DEF IInv, TypeOK
<1>2. NoOrphans'
  BY DEF IInv, NoOrphans, Exists
<1>3. Shaped' /\ Working' /\ PagesTyped'
  BY DEF IInv, Shaped, Working, AtWork, PagesTyped
<1>7. Begun'
  BY DEF IInv, Begun, Working, AtWork, TypeOK
<1>4. AtWork => sch.cur \in Monitors /\
        (Exists(sch.cur)' => Exists(sch.cur) /\ base'[sch.cur] = base[sch.cur])
  BY DEF IInv, Working, Begun, AtWork, Exists
<1>5. PriorIsBase' /\ ReportsAreTrue' /\ NewsIsOnRecord'
  BY <1>4 DEF IInv, AtWork, PriorIsBase, ReportsAreTrue, NewsIsOnRecord
<1>6. SomethingIsLeft'
  BY <1>4 DEF IInv, AtWork, SomethingIsLeft, Baselines
<1> QED
  BY <1>1, <1>2, <1>3, <1>5, <1>6, <1>7 DEF IInv

LEMMA CreateKeeps ==
  ASSUME IInv, NEW m \in Monitors, Create(m)
  PROVE  IInv'
<1>1. PICK ok \in BOOLEAN : mon' = [ mon EXCEPT ![m].life = "there", ![m].parses = ok ]
  BY DEF Create
<1>2. /\ mon[m] \in Row /\ mon[m].life = "planned" /\ base[m] = Blank(m)
      /\ UNCHANGED << base, sch, crashes >>
  BY DEF Create, IInv, TypeOK, NoOrphans, Exists
<1>3. /\ mon' \in [ Monitors -> Row ] /\ mon'[m].life = "there"
      /\ \A n \in Monitors \ {m} : mon'[n] = mon[n]
  <2> DEFINE y == [ mon[m] EXCEPT !.life = "there", !.parses = ok ]
  <2>1. y \in Row /\ y.life = "there"
    BY <1>2 DEF Row
  <2>2. mon' = [ mon EXCEPT ![m] = y ]
    BY <1>1 DEF IInv, TypeOK
  <2> HIDE DEF y
  <2> QED
    BY <2>1, <2>2 DEF IInv, TypeOK
<1> QED
  BY <1>2, <1>3, OwnerKeeps DEF IInv, TypeOK, Exists

LEMMA SetStatusKeeps ==
  ASSUME IInv, NEW m \in Monitors, SetStatus(m)
  PROVE  IInv'
<1>1. PICK s \in {"active", "paused"} : mon' = [ mon EXCEPT ![m].status = s ]
  BY DEF SetStatus
<1>2. /\ mon[m] \in Row /\ mon[m].life = "there" /\ UNCHANGED << base, sch, crashes >>
  BY DEF SetStatus, IInv, TypeOK, Exists
<1>3. /\ mon' \in [ Monitors -> Row ] /\ mon'[m].life = "there"
      /\ \A n \in Monitors \ {m} : mon'[n] = mon[n]
  BY <1>1, <1>2 DEF IInv, TypeOK, Row
<1> QED
  BY <1>2, <1>3, OwnerKeeps DEF IInv, TypeOK, Exists

LEMMA DeleteKeeps ==
  ASSUME IInv, NEW m \in Monitors, Delete(m)
  PROVE  IInv'
<1>1. /\ mon[m] \in Row /\ UNCHANGED << sch, crashes >>
      /\ base'[m] = Blank(m) /\ DOMAIN base' = Monitors
      /\ \A n \in Monitors \ {m} : base'[n] = base[n]
  BY DEF Delete, IInv, TypeOK
<1>2. /\ mon' \in [ Monitors -> Row ] /\ mon'[m].life = "deleted"
      /\ \A n \in Monitors \ {m} : mon'[n] = mon[n]
  BY <1>1 DEF Delete, IInv, TypeOK, Row
<1> QED
  BY <1>1, <1>2, OwnerKeeps DEF Exists

LEMMA CrashKeeps ==
  ASSUME IInv, Crash
  PROVE  IInv'
BY ToIdle, Constants DEF Crash, IInv, TypeOK

LEMMA StutterKeeps ==
  ASSUME IInv, UNCHANGED vars
  PROVE  IInv'
<1>1. UNCHANGED << mon, base, sch, crashes >>
  BY DEF vars
<1>2. TypeOK' /\ Shaped' /\ Working' /\ Begun' /\ PriorIsBase' /\ PagesTyped' /\ NoOrphans'
  BY <1>1 DEF IInv, TypeOK, Shaped, Working, AtWork, Begun, PriorIsBase, PagesTyped, NoOrphans, Exists
<1>3. ReportsAreTrue' /\ NewsIsOnRecord' /\ SomethingIsLeft'
  BY <1>1 DEF IInv, ReportsAreTrue, NewsIsOnRecord, SomethingIsLeft, Exists, Baselines
<1> QED
  BY <1>2, <1>3 DEF IInv

LEMMA StepKeeps ==
  ASSUME IInv, [Next]_vars
  PROVE  IInv'
<1>1. CASE Own
  BY <1>1, WakeKeeps, SleepKeeps, LoadKeeps, RunCheckKeeps, RecordKeeps, AdvanceKeeps,
     GetRowKeeps, StartKeeps DEF Own
<1>2. CASE Deliver \/ Time \/ Crash
  BY <1>2, DeliverKeeps, TimeKeeps, CrashKeeps
<1>3. ASSUME NEW m \in Monitors, Create(m) \/ SetStatus(m) \/ Delete(m)
      PROVE  IInv'
  BY <1>3, CreateKeeps, SetStatusKeeps, DeleteKeeps
<1> QED
  BY <1>1, <1>2, <1>3, StutterKeeps DEF Next

-----------------------------------------------------------------------------

(* IInv is an invariant of the scheduler and its store. *)
THEOREM Inductive == Spec => []IInv
BY InitIInv, StepKeeps, PTL DEF Spec

(* Every variable keeps its type. *)
THEOREM TypeCorrect == Spec => []TypeOK
BY Inductive, PTL DEF IInv

(* What a check says of a page is true of what was recorded last, for any    *)
(* targets that share any urls.                                               *)
THEOREM ReportsTrue == Spec => []ReportsAreTrue
BY Inductive, PTL DEF IInv

(* A receiver is told only what the store has. *)
THEOREM NewsRecorded == Spec => []NewsIsOnRecord
BY Inductive, PTL DEF IInv

(* A monitor that is gone has no baselines, whenever it went. *)
THEOREM NoneOrphaned == Spec => []NoOrphans
BY Inductive, PTL DEF IInv

(* Only recording takes baselines away from a monitor that stays. *)
LEMMA OnlyRecordForgets ==
  ASSUME IInv, Next, NEW m \in Monitors, Exists(m)', base'[m] # base[m]
  PROVE  Record /\ m = sch.cur /\ Exists(m) /\ base'[m] = Baselines(m, sch.pages)
<1>1. CASE Own
  <2>1. Record
    BY <1>1 DEF Own, Wake, GetRow, Start, Sleep, Load, RunCheck, Advance
  <2>2. Exists(sch.cur) /\ base' = [ base EXCEPT ![sch.cur] = Baselines(sch.cur, sch.pages) ]
    BY <2>1 DEF Record, Recordable
  <2>3. DOMAIN base = Monitors
    BY DEF IInv, TypeOK
  <2> QED
    BY <2>1, <2>2, <2>3
<1>2. CASE Deliver \/ Time \/ Crash
  BY <1>2 DEF Deliver, Time, Crash
<1>3. ASSUME NEW n \in Monitors, Create(n) \/ SetStatus(n) \/ Delete(n)
      PROVE  FALSE
  <2>1. Delete(n)
    BY <1>3 DEF Create, SetStatus
  <2>2. n = m
    BY <2>1 DEF Delete, IInv, TypeOK
  <2>3. mon'[m].life = "deleted"
    BY <2>1, <2>2 DEF Delete, IInv, TypeOK, Row
  <2> QED
    BY <2>3 DEF Exists
<1> QED
  BY <1>1, <1>2, <1>3 DEF Next

(* No outage of a site costs a monitor all its baselines, whatever the        *)
(* fraction at which a site counts as down.                                    *)
THEOREM OutagesForgetNothing == Spec => OutageForgetsNothing
<1>1. ASSUME IInv, [Next]_vars, NEW m \in Monitors, Exists(m)', Known(base[m]) # {}
      PROVE  Known(base[m])' # {}
  <2>1. CASE base'[m] = base[m]
    BY <1>1, <2>1 DEF Known
  <2>2. CASE base'[m] # base[m]
    <3>1. Next
      BY <1>1, <2>2 DEF vars
    <3>2. Record /\ m = sch.cur /\ Exists(m) /\ base'[m] = Baselines(m, sch.pages)
      BY <1>1, <2>2, <3>1, OnlyRecordForgets
    <3>3. sch.pc = "record"
      BY <3>2 DEF Record
    <3>4. PICK u \in UrlsOf(m) : Baselines(m, sch.pages)[u] # Absent
      BY <1>1, <3>2, <3>3 DEF IInv, SomethingIsLeft
    <3>5. DOMAIN base'[m] = UrlsOf(m)
      BY <3>2 DEF Baselines
    <3> QED
      BY <3>2, <3>4, <3>5 DEF Known
  <2> QED
    BY <2>1, <2>2
<1>2. IInv /\ [Next]_vars =>
        [ \A m \in Monitors : Exists(m)' /\ Known(base[m]) # {} => Known(base[m])' # {} ]_vars
  BY <1>1
<1> QED
  BY <1>2, Inductive, PTL DEF Spec, OutageForgetsNothing

(* Only the owner ends a pause: no check in progress does. *)
THEOREM PausesStick == Spec => PauseSticks
<1>1. ASSUME IInv, [Next]_vars, NEW m \in Monitors,
             mon[m].status = "paused", mon'[m].status = "active"
      PROVE  SetStatus(m)
  <2>1. CASE Own
    <3>1. Advance
      BY <1>1, <2>1 DEF Own, Wake, GetRow, Start, Sleep, Load, RunCheck, Record
    <3>2. sch.cur \in Monitors /\ mon[sch.cur] \in Row
      BY <1>1, <3>1 DEF Advance, IInv, Working, AtWork, TypeOK
    <3>3. Advanced(mon[sch.cur], sch.ago).status \in {mon[sch.cur].status, "paused"}
      BY <3>2 DEF Advanced, Row
    <3> QED
      BY <1>1, <3>1, <3>2, <3>3 DEF Advance, IInv, TypeOK
  <2>2. CASE Time
    BY <1>1, <2>2, TimeStatus
  <2>3. CASE Deliver \/ Crash \/ UNCHANGED vars
    BY <1>1, <2>3 DEF Deliver, Crash, vars
  <2>4. ASSUME NEW n \in Monitors, Create(n) \/ Delete(n)
        PROVE  SetStatus(m)
    <3>1. mon[n] \in Row /\ mon[m] \in Row /\ mon \in [ Monitors -> Row ]
      BY <1>1 DEF IInv, TypeOK
    <3>2. CASE Create(n)
      <4>1. PICK ok \in BOOLEAN : mon' = [ mon EXCEPT ![n].life = "there", ![n].parses = ok ]
        BY <3>2 DEF Create
      <4> QED
        BY <1>1, <3>1, <4>1 DEF Row
    <3>3. CASE Delete(n)
      BY <1>1, <3>1, <3>3 DEF Delete, Row
    <3> QED
      BY <2>4, <3>2, <3>3
  <2>5. ASSUME NEW n \in Monitors, SetStatus(n)
        PROVE  SetStatus(m)
    <3>1. n # m => mon'[m] = mon[m]
      BY <1>1, <2>5 DEF SetStatus, IInv, TypeOK
    <3> QED
      BY <1>1, <2>5, <3>1
  <2> QED
    BY <1>1, <2>1, <2>2, <2>3, <2>4, <2>5 DEF Next
<1>2. IInv /\ [Next]_vars =>
        [ \A m \in Monitors :
            mon[m].status = "paused" /\ mon'[m].status = "active" => SetStatus(m) ]_vars
  BY <1>1
<1> QED
  BY <1>2, Inductive, PTL DEF Spec, PauseSticks

=============================================================================
