-------------------------- MODULE BrowserPoolProofs --------------------------
(***************************************************************************)
(* The safety properties of BrowserPool for any number of renders and       *)
(* slots and any size.  A step wears slots down: it takes connections out,   *)
(* books each as closed, and puts none back.  Only Make brings a connection, *)
(* on a slot nobody has and shutdown has not listed.  What a step does to    *)
(* the renders is a matter of one of them.                                   *)
(***************************************************************************)
EXTENDS BrowserPool, FiniteSetTheorems, TLAPS

SlotRecs ==
  [ st : {"idle", "out", "recycling", "buried", "dead", "closing"},
    term : BOOLEAN, page : BOOLEAN, closes : 0..1 ]

RenderRecs ==
  [ pc : {"away", "seek", "check", "make", "claim", "enter", "using", "mark",
          "closing", "disposing", "creating", "bury", "push", "drop",
          "load", "subtract"},
    slot : Slots \cup {None}, tries : 0..LastTry ]

ShutRecs ==
  [ pc : {"up", "drain", "subscribe", "waiting", "sweep", "closing", "force",
          "take", "load", "subtract", "down"},
    drained : Seq(Slots), live : SUBSET Slots, swept : SUBSET Slots,
    cur : Slots \cup {None}, own : BOOLEAN, woken : BOOLEAN ]

(* shutdown does not keep the books of others yet. *)
Early == shut.pc \in {"up", "drain", "subscribe", "waiting", "sweep", "closing"}

Typed ==
  /\ slot \in [ Slots -> SlotRecs ]
  /\ idle \in Seq(Slots)
  /\ inflight \in 0..(Word - 1)
  /\ rd \in [ Renders -> RenderRecs ]
  /\ shut \in ShutRecs
  /\ late \in BOOLEAN

(* Who is on a slot names it, and so does shutdown when it is about to take   *)
(* a connection; who is on none names none.                                   *)
Placed ==
  /\ \A r \in Renders :
       /\ OnSlot(r) => rd[r].slot \in Slots
       /\ rd[r].pc \in {"away", "seek", "make"} => rd[r].slot = None
  /\ shut.pc = "take" => shut.cur \in shut.live

(* A slot that may be claimed has no page on its context. *)
Clean == \A s \in Slots : slot[s].st = "idle" => ~slot[s].page

(* What is still connected was never closed, what somebody has and is not     *)
(* was closed once.                                                           *)
Closed ==
  \A s \in Slots :
    /\ HasConn(s) => slot[s].closes = 0
    /\ Upgradable(s) /\ ~HasConn(s) => slot[s].closes = 1

Live == { s \in Slots : (Held(s) \/ InHand(s)) /\ HasConn(s) }
Making == { r \in Renders : rd[r].pc = "make" }
Busy == { r \in Renders : rd[r].pc # "away" }

Sized ==
  /\ IsFiniteSet(Live)
  /\ Cardinality(Live) + Cardinality(Making) <= Size
  /\ Cardinality(Busy) <= Size

(* Before shutdown interferes, a render that is on a slot and has not begun   *)
(* to give it back finds the terminator down.                                 *)
Booked ==
  Early =>
    /\ inflight = Cardinality({ r \in Renders : Counted(r) })
    /\ \A r \in Renders : rd[r].pc \in {"enter", "using"} => ~slot[rd[r].slot].term

(* What shutdown has been to is closed; it has been nowhere before it lists    *)
(* the slots, and everywhere when it returns.                                  *)
Swept ==
  /\ shut.swept \subseteq shut.live
  /\ Early => shut.swept = {}
  /\ \A s \in shut.swept : Upgradable(s) => ~HasConn(s)
  /\ shut.pc = "down" => shut.swept = shut.live

IInv ==
  /\ Typed /\ Placed /\ SlotIsPrivate /\ Clean
  /\ Closed /\ Sized /\ Booked /\ Swept

-----------------------------------------------------------------------------

LEMMA Constants ==
  /\ Size \in Nat /\ Size > 0 /\ LastTry \in Nat /\ None \notin Slots
  /\ IsFiniteSet(Renders) /\ Cardinality(Renders) \in Nat
  /\ Word \in Nat /\ Word > Cardinality(Renders) + 1
BY PoolAssumption, FS_CardinalityType

LEMMA Wraps == \A i \in Int : i % Word \in 0..(Word - 1)
BY Constants

-----------------------------------------------------------------------------
(* What an operation does to the record of a slot or of a render. *)

Conn(x) == x.st \in {"idle", "out", "recycling", "buried"}

(* A slot is only ever worn down: it keeps its connection or loses it to one   *)
(* who closes it, and is handed back without a page.                           *)
Wears(x, y) ==
  /\ y \in SlotRecs
  /\ Conn(y) => Conn(x)
  /\ y.closes = IF Conn(x) /\ ~Conn(y) THEN x.closes + 1 ELSE x.closes
  /\ y.st = "idle" => ~y.page \/ (x.st = "idle" /\ y.page = x.page)

(* A slot as it may be found. *)
Sane(x) == x \in SlotRecs /\ (Conn(x) => x.closes = 0)

LEMMA SameWears ==
  ASSUME NEW x, Sane(x)
  PROVE  Wears(x, x)
BY DEF Sane, Wears, SlotRecs

LEMMA TakenWears ==
  ASSUME NEW x, Sane(x)
  PROVE  /\ Wears(x, Taken(x)) /\ ~Conn(Taken(x))
         /\ Taken(x).term = x.term /\ Taken(x).page = x.page
<1>0. /\ x = [ st |-> x.st, term |-> x.term, page |-> x.page, closes |-> x.closes ]
      /\ x.st \in {"idle", "out", "recycling", "buried", "dead", "closing"}
      /\ x.term \in BOOLEAN /\ x.page \in BOOLEAN /\ x.closes \in 0..1
      /\ Conn(x) => x.closes = 0
  BY DEF Sane, SlotRecs
<1> DEFINE Out(st) == [ st |-> st, term |-> x.term, page |-> x.page, closes |-> x.closes + 1 ]
<1>1. CASE x.st \in {"idle", "out", "recycling"}
  <2>1. Taken(x) = Out("closing")
    BY <1>1, <1>0 DEF Taken
  <2> QED
    BY <1>1, <2>1, <1>0 DEF Wears, SlotRecs, Conn
<1>2. CASE x.st = "buried"
  <2>1. Taken(x) = Out("dead")
    BY <1>2, <1>0 DEF Taken
  <2> QED
    BY <1>2, <2>1, <1>0 DEF Wears, SlotRecs, Conn
<1>3. CASE x.st \notin {"idle", "out", "recycling", "buried"}
  BY <1>3 DEF Sane, Wears, SlotRecs, Taken, Conn
<1> QED
  BY <1>1, <1>2, <1>3

LEMMA DroppedWears ==
  ASSUME NEW x, Sane(x)
  PROVE  Wears(x, Dropped(x))
<1>0. /\ x = [ st |-> x.st, term |-> x.term, page |-> x.page, closes |-> x.closes ]
      /\ x.st \in {"idle", "out", "recycling", "buried", "dead", "closing"}
      /\ x.term \in BOOLEAN /\ x.page \in BOOLEAN /\ x.closes \in 0..1
      /\ Conn(x) => x.closes = 0
  BY DEF Sane, SlotRecs
<1>1. CASE x.st \in {"out", "recycling"}
  <2>1. Dropped(x) = [ st |-> "dead", term |-> x.term, page |-> x.page, closes |-> x.closes + 1 ]
    BY <1>1, <1>0 DEF Dropped
  <2> QED
    BY <1>1, <2>1, <1>0 DEF Wears, SlotRecs, Conn
<1>2. CASE x.st \notin {"out", "recycling"}
  BY <1>2, SameWears DEF Dropped
<1> QED
  BY <1>1, <1>2

LEMMA RenewedWears ==
  ASSUME NEW x, Sane(x), x.st = "recycling"
  PROVE  Wears(x, Renewed(x))
BY DEF Sane, Wears, SlotRecs, Renewed, Conn

LEMMA TermWears ==
  ASSUME NEW x, Sane(x), NEW b \in BOOLEAN
  PROVE  /\ Wears(x, [ x EXCEPT !.term = b ])
         /\ [ x EXCEPT !.term = b ].term = b
BY DEF Sane, Wears, SlotRecs, Conn

LEMMA AdvancedWears ==
  ASSUME NEW x, Sane(x), x.st \in {"out", "recycling"},
         NEW st \in {"recycling", "buried"}
  PROVE  Wears(x, [ x EXCEPT !.st = st ])
BY DEF Sane, Wears, SlotRecs, Conn

(* One slot changes, the others stay. *)
LEMMA SlotChange ==
  ASSUME Typed, NEW s \in Slots, NEW y \in SlotRecs, slot' = [ slot EXCEPT ![s] = y ]
  PROVE  /\ slot' \in [ Slots -> SlotRecs ]
         /\ slot'[s] = y
         /\ \A u \in Slots \ {s} : slot'[u] = slot[u]
BY DEF Typed

(* One render moves, the others stay. *)
Moves(r) ==
  /\ rd' \in [ Renders -> RenderRecs ]
  /\ \A q \in Renders \ {r} : rd'[q] = rd[q]

LEMMA RenderChange ==
  ASSUME Typed, NEW r \in Renders, NEW y \in RenderRecs, rd' = [ rd EXCEPT ![r] = y ]
  PROVE  Moves(r) /\ rd'[r] = y
BY DEF Typed, Moves

Pcs == {"away", "seek", "check", "make", "claim", "enter", "using", "mark",
        "closing", "disposing", "creating", "bury", "push", "drop",
        "load", "subtract"}

LEMMA GotoMoves ==
  ASSUME Typed, NEW r \in Renders, NEW pc \in Pcs, Goto(r, pc)
  PROVE  Moves(r) /\ rd'[r].pc = pc /\ rd'[r].slot = rd[r].slot
<1> DEFINE y == [ rd[r] EXCEPT !.pc = pc ]
<1>1. rd[r] \in RenderRecs
  BY DEF Typed
<1>2. y \in RenderRecs /\ y.pc = pc /\ y.slot = rd[r].slot
  BY <1>1 DEF RenderRecs, Pcs
<1>3. rd' = [ rd EXCEPT ![r] = y ]
  BY DEF Goto
<1> QED
  BY <1>2, <1>3, RenderChange

LEMMA LeaveMoves ==
  ASSUME Typed, NEW r \in Renders, Leave(r)
  PROVE  Moves(r) /\ rd'[r].pc = "away" /\ rd'[r].slot = None
<1>1. Outside \in RenderRecs /\ Outside.pc = "away" /\ Outside.slot = None
  BY Constants DEF RenderRecs, Outside
<1> QED
  BY <1>1, RenderChange DEF Leave

LEMMA RetryMoves ==
  ASSUME Typed, NEW r \in Renders, Retry(r)
  PROVE  Moves(r) /\ rd'[r].pc \in {"away", "seek"} /\ rd'[r].slot = None
<1> DEFINE x == rd[r]
           y == [ pc |-> "seek", slot |-> None, tries |-> x.tries + 1 ]
<1>1. CASE x.tries < LastTry
  <2>1. x \in RenderRecs
    BY DEF Typed
  <2>2. y \in RenderRecs
    BY <1>1, <2>1, Constants DEF RenderRecs
  <2>3. rd' = [ rd EXCEPT ![r] = y ]
    BY <1>1, <2>1 DEF Retry, RenderRecs
  <2>4. y.pc = "seek" /\ y.slot = None
    OBVIOUS
  <2> HIDE DEF y
  <2> QED
    BY <2>2, <2>3, <2>4, RenderChange
<1>2. CASE ~(x.tries < LastTry)
  BY <1>2, LeaveMoves DEF Retry
<1> QED
  BY <1>1, <1>2

-----------------------------------------------------------------------------
(* The kinds of steps of a render: x is its record before, y after.           *)

Unmoved == UNCHANGED << slot, idle, inflight >>

(* Only the slot s changes, and it wears. *)
Worn(s) ==
  /\ slot' \in [ Slots -> SlotRecs ]
  /\ \A u \in Slots \ {s} : slot'[u] = slot[u]
  /\ s \in Slots => Wears(slot[s], slot'[s])
  /\ UNCHANGED << idle, inflight >>

Comes(x, y) ==
  /\ x.pc = "away" /\ y.pc = "seek" /\ y.slot = None
  /\ shut.pc = "up" /\ Free
  /\ Unmoved

Pops(x, y) ==
  /\ x.pc = "seek" /\ idle # << >>
  /\ y.pc \in {"check", "claim"} /\ y.slot = Head(idle)
  /\ idle' = Tail(idle)
  /\ UNCHANGED << slot, inflight >>

Misses(x, y) ==
  /\ x.pc = "seek" /\ idle = << >>
  /\ y.pc = "make" /\ y.slot = None
  /\ Unmoved

Readies(x, y) ==
  /\ x.pc = "check" /\ y.pc = "claim" /\ y.slot = x.slot
  /\ Unmoved

GivesUp(x, y) ==
  /\ x.pc \in {"check", "make", "claim"} /\ y.pc \in {"away", "seek"} /\ y.slot = None
  /\ Worn(x.slot)
  /\ x.slot \in Slots => slot'[x.slot].term = slot[x.slot].term

Makes(x, y) ==
  /\ x.pc = "make" /\ y.pc = "claim" /\ y.slot \in Slots
  /\ Unreferenced(y.slot)
  /\ slot' \in [ Slots -> SlotRecs ]
  /\ slot'[y.slot] = Fresh
  /\ \A u \in Slots \ {y.slot} : slot'[u] = slot[u]
  /\ UNCHANGED << idle, inflight >>

Claims(x, y) ==
  /\ x.pc = "claim" /\ y.pc = "enter" /\ y.slot = x.slot
  /\ slot[x.slot].st = "idle"
  /\ slot'[x.slot].page = slot[x.slot].page /\ ~slot'[x.slot].term
  /\ Worn(x.slot)

Enters(x, y) ==
  /\ x.pc = "enter" /\ y.pc = "using" /\ y.slot = x.slot
  /\ inflight' = (inflight + 1) % Word
  /\ UNCHANGED << slot, idle >>

Writes(x, y) ==
  /\ x.pc = "using" /\ y.pc = "using" /\ y.slot = x.slot
  /\ slot'[x.slot].term = slot[x.slot].term
  /\ Worn(x.slot)

Walks(x, y) ==
  /\ x.pc = "using" /\ slot[x.slot].term
  /\ y.pc = "away" /\ y.slot = None
  /\ Unmoved

(* The work of a release or a drop, up to the books. *)
Works(x, y) ==
  /\ x.pc \in {"using", "mark", "closing", "disposing", "creating", "bury", "drop"}
  /\ y.pc \in {"mark", "closing", "disposing", "creating", "bury", "push", "drop", "load"}
  /\ y.slot = x.slot \/ (y.pc = "load" /\ y.slot = None)
  /\ Worn(x.slot)

Pushes(x, y) ==
  /\ x.pc = "push" /\ y.pc = "load" /\ y.slot = x.slot
  /\ idle' = Append(idle, x.slot)
  /\ UNCHANGED << slot, inflight >>

Looks(x, y) ==
  /\ x.pc = "load"
  /\ \/ inflight > 0 /\ y.pc = "subtract" /\ y.slot = x.slot
     \/ inflight = 0 /\ y.pc = "away" /\ y.slot = None
  /\ Unmoved

Subtracts(x, y) ==
  /\ x.pc = "subtract" /\ y.pc = "away" /\ y.slot = None
  /\ inflight' = (inflight - 1) % Word
  /\ UNCHANGED << slot, idle >>

Plain(x, y) ==
  \/ Comes(x, y) \/ Misses(x, y) \/ Readies(x, y) \/ GivesUp(x, y)
  \/ Claims(x, y) \/ Enters(x, y) \/ Writes(x, y) \/ Walks(x, y) \/ Works(x, y)
  \/ Looks(x, y) \/ Subtracts(x, y)

Kind(x, y) == Plain(x, y) \/ Pops(x, y) \/ Makes(x, y) \/ Pushes(x, y)

(* A render does not touch shutdown's locals, but may wake it. *)
Nudged ==
  /\ shut' \in ShutRecs
  /\ \E w \in BOOLEAN : shut' = [ shut EXCEPT !.woken = w ]
  /\ late' = late

LEMMA NotifiedNudges ==
  ASSUME Typed, late' = late, shut' = shut \/ shut' = Notified
  PROVE  Nudged
BY DEF Typed, Nudged, ShutRecs, Notified

LEMMA SlotsSane ==
  ASSUME Typed, Closed, NEW s \in Slots
  PROVE  Sane(slot[s])
BY DEF Typed, Closed, HasConn, Sane, Conn

(* A change of one slot that wears. *)
LEMMA WornBy ==
  ASSUME Typed, NEW s \in Slots, NEW y, Wears(slot[s], y),
         slot' = [ slot EXCEPT ![s] = y ], UNCHANGED << idle, inflight >>
  PROVE  Worn(s) /\ slot'[s] = y
BY SlotChange DEF Worn, Wears

LEMMA UnmovedWorn ==
  ASSUME Typed, Closed, NEW s, Unmoved
  PROVE  Worn(s)
BY SlotsSane, SameWears DEF Worn, Unmoved, Typed

(* Advance moves the slot on, or finds it taken. *)
LEMMA AdvanceWorks ==
  ASSUME Typed, Closed, NEW r \in Renders, rd[r].slot \in Slots,
         NEW from \in {"out", "recycling"}, NEW st \in {"recycling", "buried"},
         NEW pc \in Pcs, Advance(r, from, st, pc), UNCHANGED << idle, inflight >>
  PROVE  /\ Moves(r) /\ Worn(rd[r].slot)
         /\ rd'[r].pc \in {pc, "load"} /\ rd'[r].slot = rd[r].slot
<1> DEFINE s == rd[r].slot
<1>1. CASE slot[s].st = from
  <2>1. Wears(slot[s], [ slot[s] EXCEPT !.st = st ])
    BY <1>1, SlotsSane, AdvancedWears
  <2>2. slot' = [ slot EXCEPT ![s] = [ slot[s] EXCEPT !.st = st ] ] /\ Goto(r, pc)
    BY <1>1 DEF Advance
  <2>3. Worn(s)
    BY <2>1, <2>2, WornBy
  <2>4. Moves(r) /\ rd'[r].pc = pc /\ rd'[r].slot = s
    BY <2>2, GotoMoves
  <2> QED
    BY <2>3, <2>4
<1>2. CASE slot[s].st # from
  <2>1. UNCHANGED slot /\ Goto(r, "load")
    BY <1>2 DEF Advance
  <2> QED
    BY <2>1, UnmovedWorn, GotoMoves DEF Unmoved, Pcs
<1> QED
  BY <1>1, <1>2

LEMMA AcquireKinds ==
  ASSUME Typed, Placed, Closed, NEW r \in Renders, AcquireStep(r)
  PROVE  Moves(r) /\ Kind(rd[r], rd'[r]) /\ Nudged
<1> DEFINE x == rd[r]
           y == rd'[r]
<1>0. /\ x \in RenderRecs
      /\ OnSlot(r) => x.slot \in Slots
  BY DEF Typed, Placed
<1>1. CASE Acquire(r)
  <2> DEFINE z == [ pc |-> "seek", slot |-> None, tries |-> 0 ]
  <2>1. z \in RenderRecs /\ z.pc = "seek" /\ z.slot = None
    BY Constants DEF RenderRecs
  <2>5. [ Outside EXCEPT !.pc = "seek" ] = z
    BY DEF Outside
  <2>6. rd' = [ rd EXCEPT ![r] = z ]
    BY <1>1, <2>5 DEF Acquire
  <2> HIDE DEF z
  <2>2. Moves(r) /\ y.pc = "seek" /\ y.slot = None
    BY <2>1, <2>6, RenderChange
  <2>3. Nudged
    BY <1>1, NotifiedNudges DEF Acquire
  <2>4. Comes(x, y)
    BY <1>1, <2>2 DEF Acquire, Comes, Unmoved
  <2> QED
    BY <2>2, <2>3, <2>4 DEF Kind, Plain
<1>2. CASE Pop(r)
  <2>1. Head(idle) \in Slots
    BY <1>2 DEF Pop, Typed
  <2>2. PICK stale \in BOOLEAN :
          rd' = [ rd EXCEPT ![r] = [ x EXCEPT !.pc = IF stale THEN "check" ELSE "claim",
                                              !.slot = Head(idle) ] ]
    BY <1>2 DEF Pop
  <2>3. Moves(r) /\ y.pc \in {"check", "claim"} /\ y.slot = Head(idle)
    <3> DEFINE z == [ x EXCEPT !.pc = IF stale THEN "check" ELSE "claim", !.slot = Head(idle) ]
    <3>1. z \in RenderRecs /\ z.pc \in {"check", "claim"} /\ z.slot = Head(idle)
      BY <1>0, <2>1 DEF RenderRecs
    <3>2. rd' = [ rd EXCEPT ![r] = z ]
      BY <2>2
    <3> HIDE DEF z
    <3> QED
      BY <3>1, <3>2, RenderChange
  <2> QED
    BY <1>2, <2>3, NotifiedNudges DEF Pop, Kind, Pops
<1>3. CASE PopNothing(r)
  <2>1. Moves(r) /\ y.pc = "make" /\ y.slot = None
    BY <1>3, GotoMoves DEF PopNothing, Pcs, Placed
  <2> QED
    BY <1>3, <2>1, NotifiedNudges DEF PopNothing, Kind, Plain, Misses, Unmoved
<1>4. CASE Healthy(r)
  <2>1. Moves(r) /\ y.pc = "claim" /\ y.slot = x.slot
    BY <1>4, GotoMoves DEF Healthy, Pcs
  <2> QED
    BY <1>4, <2>1, NotifiedNudges DEF Healthy, Kind, Plain, Readies, Unmoved
<1>5. CASE Sick(r)
  <2>1. x.slot \in Slots
    BY <1>0, <1>5 DEF Sick, OnSlot
  <2>2. Worn(x.slot) /\ slot'[x.slot].term = slot[x.slot].term
    <3> DEFINE w == Taken(slot[x.slot])
    <3>1. slot' = [ slot EXCEPT ![x.slot] = w ] /\ UNCHANGED << idle, inflight >>
      BY <1>5 DEF Sick
    <3>2. Wears(slot[x.slot], w) /\ w.term = slot[x.slot].term
      BY <2>1, SlotsSane, TakenWears
    <3> HIDE DEF w
    <3> QED
      BY <2>1, <3>1, <3>2, WornBy
  <2>3. Moves(r) /\ y.pc \in {"away", "seek"} /\ y.slot = None
    BY <1>5, RetryMoves DEF Sick
  <2> QED
    BY <1>5, <2>2, <2>3, NotifiedNudges DEF Sick, Kind, Plain, GivesUp
<1>6. CASE Make(r)
  <2> DEFINE s == CHOOSE s \in Slots : Unreferenced(s)
  <2>1. s \in Slots /\ Unreferenced(s)
    BY <1>6 DEF Make
  <2>2. Fresh \in SlotRecs
    BY DEF Fresh, SlotRecs
  <2> DEFINE z == [ x EXCEPT !.pc = "claim", !.slot = s ]
  <2>3. rd' = [ rd EXCEPT ![r] = z ] /\ slot' = [ slot EXCEPT ![s] = Fresh ]
    BY <1>6 DEF Make
  <2>6. UNCHANGED << idle, inflight >> /\ Nudged /\ x.pc = "make"
    BY <1>6, NotifiedNudges DEF Make
  <2> HIDE DEF s
  <2>4. z \in RenderRecs /\ z.pc = "claim" /\ z.slot = s
    BY <1>0, <2>1 DEF RenderRecs
  <2> HIDE DEF z
  <2>5. Moves(r) /\ y.pc = "claim" /\ y.slot = s
    BY <2>3, <2>4, RenderChange
  <2>7. Makes(x, y)
    <3>1. /\ slot' \in [ Slots -> SlotRecs ]
          /\ slot'[s] = Fresh
          /\ \A u \in Slots \ {s} : slot'[u] = slot[u]
      BY <2>1, <2>2, <2>3, SlotChange
    <3> QED
      BY <2>1, <2>5, <2>6, <3>1 DEF Makes
  <2> QED
    BY <2>5, <2>6, <2>7 DEF Kind
<1>7. CASE MakeFails(r)
  <2>1. Moves(r) /\ y.pc = "away" /\ y.slot = None
    BY <1>7, LeaveMoves DEF MakeFails
  <2>2. Worn(x.slot) /\ slot' = slot
    BY <1>7, UnmovedWorn DEF MakeFails, Unmoved
  <2> QED
    BY <1>7, <2>1, <2>2, NotifiedNudges DEF MakeFails, Kind, Plain, GivesUp
<1>8. CASE Claim(r)
  <2> DEFINE s == x.slot
  <2>1. s \in Slots
    BY <1>0, <1>8 DEF Claim, OnSlot
  <2>2. CASE Claimable(s)
    <3> DEFINE w == [ slot[s] EXCEPT !.st = "out", !.term = FALSE ]
               z == [ pc |-> "enter", slot |-> s, tries |-> 0 ]
    <3>1. Wears(slot[s], w) /\ w.page = slot[s].page /\ ~w.term
      <4>1. Sane(slot[s]) /\ slot[s].st = "idle"
        BY <2>1, <2>2, SlotsSane DEF Claimable
      <4> QED
        BY <4>1 DEF Sane, Wears, SlotRecs, Conn
    <3>2. z \in RenderRecs /\ z.pc = "enter" /\ z.slot = s
      BY <2>1, Constants DEF RenderRecs
    <3>3. rd' = [ rd EXCEPT ![r] = z ] /\ slot' = [ slot EXCEPT ![s] = w ]
      BY <1>0, <1>8, <2>2 DEF Claim, RenderRecs
    <3> HIDE DEF w, z
    <3>4. Moves(r) /\ y.pc = "enter" /\ y.slot = s
      BY <3>2, <3>3, RenderChange
    <3>5. UNCHANGED << idle, inflight >> /\ Nudged /\ x.pc = "claim" /\ slot[s].st = "idle"
      BY <1>8, <2>2, NotifiedNudges DEF Claim, Claimable
    <3>6. Worn(s) /\ slot'[s] = w
      BY <2>1, <3>1, <3>3, <3>5, WornBy
    <3> QED
      <4>1. Claims(x, y)
        BY <3>1, <3>4, <3>5, <3>6 DEF Claims
      <4> QED
        BY <3>4, <3>5, <4>1 DEF Kind, Plain
  <2>3. CASE ~Claimable(s)
    <3>1. Moves(r) /\ y.pc \in {"away", "seek"} /\ y.slot = None /\ slot' = slot
      BY <1>8, <2>3, RetryMoves DEF Claim
    <3>2. Worn(s)
      BY <1>8, <3>1, UnmovedWorn DEF Claim, Unmoved
    <3> QED
      BY <1>8, <3>1, <3>2, NotifiedNudges DEF Claim, Kind, Plain, GivesUp
  <2> QED
    BY <2>2, <2>3
<1>9. CASE Enter(r)
  <2>1. Moves(r) /\ y.pc = "using" /\ y.slot = x.slot
    BY <1>9, GotoMoves DEF Enter, Pcs
  <2> QED
    BY <1>9, <2>1, NotifiedNudges DEF Enter, Kind, Plain, Enters
<1>10. CASE RecordTarget(r)
  <2> DEFINE s == x.slot
             w == [ slot[s] EXCEPT !.page = TRUE ]
  <2>1. s \in Slots
    BY <1>0, <1>10 DEF RecordTarget, OnSlot
  <2>2. Wears(slot[s], w) /\ w.term = slot[s].term
    <3>1. Sane(slot[s]) /\ slot[s].st = "out"
      BY <1>10, <2>1, SlotsSane DEF RecordTarget
    <3> QED
      BY <3>1 DEF Sane, Wears, SlotRecs, Conn
  <2>3. slot' = [ slot EXCEPT ![s] = w ]
    BY <1>10 DEF RecordTarget
  <2> HIDE DEF w
  <2>4. Worn(s) /\ slot'[s] = w
    BY <1>10, <2>1, <2>2, <2>3, WornBy DEF RecordTarget
  <2>5. Moves(r) /\ y = x
    BY <1>10 DEF RecordTarget, Moves, Typed
  <2> QED
    BY <1>10, <2>2, <2>4, <2>5, NotifiedNudges DEF RecordTarget, Kind, Plain, Writes
<1> QED
  BY <1>1, <1>2, <1>3, <1>4, <1>5, <1>6, <1>7, <1>8, <1>9, <1>10 DEF AcquireStep

LEMMA ReleaseKinds ==
  ASSUME Typed, Placed, Closed, NEW r \in Renders, ReleaseStep(r)
  PROVE  Moves(r) /\ Kind(rd[r], rd'[r]) /\ Nudged
<1> DEFINE x == rd[r]
           y == rd'[r]
           s == rd[r].slot
<1>0. /\ x \in RenderRecs
      /\ OnSlot(r) => s \in Slots
  BY DEF Typed, Placed
<1>1. ASSUME NEW won \in {"mark", "drop"}, Terminate(r, won)
      PROVE  Moves(r) /\ Kind(x, y) /\ Nudged
  <2>1. s \in Slots /\ x.pc = "using" /\ Nudged
    BY <1>0, <1>1, NotifiedNudges DEF Terminate, OnSlot
  <2>2. CASE slot[s].term
    <3>1. Moves(r) /\ y.pc = "away" /\ y.slot = None /\ Unmoved
      BY <1>1, <2>2, LeaveMoves DEF Terminate, Unmoved
    <3> QED
      BY <2>1, <2>2, <3>1 DEF Kind, Plain, Walks
  <2>3. CASE ~slot[s].term
    <3>1. Goto(r, won) /\ slot' = [ slot EXCEPT ![s] = [ slot[s] EXCEPT !.term = TRUE ] ]
      BY <1>1, <2>3 DEF Terminate
    <3>2. Worn(s)
      BY <1>1, <2>1, <3>1, SlotsSane, TermWears, WornBy DEF Terminate
    <3>3. Moves(r) /\ y.pc = won /\ y.slot = s
      BY <3>1, GotoMoves DEF Pcs
    <3> QED
      BY <2>1, <3>2, <3>3 DEF Kind, Plain, Works
  <2> QED
    BY <2>2, <2>3
<1>2. CASE Release(r)
  BY <1>1, <1>2 DEF Release
<1>3. CASE DropGuard(r)
  BY <1>1, <1>3 DEF DropGuard
<1>4. CASE Mark(r)
  <2>1. s \in Slots
    BY <1>0, <1>4 DEF Mark, OnSlot
  <2>2. Moves(r) /\ Worn(s) /\ y.pc \in {"closing", "load"} /\ y.slot = s
    BY <1>4, <2>1, AdvanceWorks DEF Mark, Pcs
  <2> QED
    BY <1>4, <2>2, NotifiedNudges DEF Mark, Kind, Plain, Works
<1>5. CASE CloseTarget(r)
  <2>1. s \in Slots
    BY <1>0, <1>5 DEF CloseTarget, OnSlot
  <2>2. Moves(r) /\ Worn(s) /\ y.pc \in {"disposing", "load"} /\ y.slot = s
    BY <1>5, <2>1, AdvanceWorks DEF CloseTarget, Pcs
  <2> QED
    BY <1>5, <2>2, NotifiedNudges DEF CloseTarget, Kind, Plain, Works
<1>6. CASE DisposeContext(r)
  <2>1. s \in Slots
    BY <1>0, <1>6 DEF DisposeContext, OnSlot
  <2>2. Moves(r) /\ Worn(s) /\ y.pc \in {"creating", "load"} /\ y.slot = s
    BY <1>6, <2>1, AdvanceWorks DEF DisposeContext, Pcs
  <2> QED
    BY <1>6, <2>2, NotifiedNudges DEF DisposeContext, Kind, Plain, Works
<1>7. CASE CreateContext(r)
  <2>1. s \in Slots
    BY <1>0, <1>7 DEF CreateContext, OnSlot
  <2>2. CASE slot[s].st = "recycling"
    <3>1. slot' = [ slot EXCEPT ![s] = Renewed(slot[s]) ] /\ Goto(r, "push")
      BY <1>7, <2>2 DEF CreateContext
    <3>2. Worn(s)
      <4>1. Wears(slot[s], Renewed(slot[s]))
        BY <2>1, <2>2, SlotsSane, RenewedWears
      <4>2. UNCHANGED << idle, inflight >>
        BY <1>7 DEF CreateContext
      <4> QED
        BY <2>1, <3>1, <4>1, <4>2, WornBy
    <3>3. Moves(r) /\ y.pc = "push" /\ y.slot = s
      BY <3>1, GotoMoves DEF Pcs
    <3> QED
      BY <1>7, <3>2, <3>3, NotifiedNudges DEF CreateContext, Kind, Plain, Works
  <2>3. CASE slot[s].st # "recycling"
    <3>1. Unmoved /\ Goto(r, "load")
      BY <1>7, <2>3 DEF CreateContext, Unmoved
    <3>2. Moves(r) /\ y.pc = "load" /\ y.slot = s /\ Worn(s)
      BY <3>1, GotoMoves, UnmovedWorn DEF Pcs
    <3> QED
      BY <1>7, <3>2, NotifiedNudges DEF CreateContext, Kind, Plain, Works
  <2> QED
    BY <2>2, <2>3
<1>8. CASE RecycleFails(r)
  <2>1. s \in Slots /\ x.pc \in {"closing", "disposing", "creating"}
    BY <1>0, <1>8 DEF RecycleFails, OnSlot
  <2>2. Moves(r) /\ Worn(s) /\ y.pc \in {"bury", "load"} /\ y.slot = s
    BY <1>8, <2>1, AdvanceWorks DEF RecycleFails, Pcs
  <2> QED
    BY <1>8, <2>1, <2>2, NotifiedNudges DEF RecycleFails, Kind, Plain, Works
<1>9. CASE Bury(r)
  <2>1. s \in Slots
    BY <1>0, <1>9 DEF Bury, OnSlot
  <2>2. Worn(s)
    <3> DEFINE w == Taken(slot[s])
    <3>1. slot' = [ slot EXCEPT ![s] = w ] /\ UNCHANGED << idle, inflight >>
      BY <1>9 DEF Bury
    <3>2. Wears(slot[s], w)
      BY <2>1, SlotsSane, TakenWears
    <3> HIDE DEF w
    <3> QED
      BY <2>1, <3>1, <3>2, WornBy
  <2>3. Moves(r) /\ y.pc = "load" /\ y.slot = s
    BY <1>9, GotoMoves DEF Bury, Pcs
  <2> QED
    BY <1>9, <2>2, <2>3, NotifiedNudges DEF Bury, Kind, Plain, Works
<1>10. CASE Push(r)
  <2>1. Moves(r) /\ y.pc = "load" /\ y.slot = s
    BY <1>10, GotoMoves DEF Push, Pcs
  <2> QED
    BY <1>10, <2>1, NotifiedNudges DEF Push, Kind, Pushes
<1>11. CASE DropSlot(r)
  <2>1. s \in Slots
    BY <1>0, <1>11 DEF DropSlot, OnSlot
  <2>2. Worn(s)
    <3> DEFINE w == Dropped(slot[s])
    <3>1. slot' = [ slot EXCEPT ![s] = w ] /\ UNCHANGED << idle, inflight >>
      BY <1>11 DEF DropSlot
    <3>2. Wears(slot[s], w)
      BY <2>1, SlotsSane, DroppedWears
    <3> HIDE DEF w
    <3> QED
      BY <2>1, <3>1, <3>2, WornBy
  <2>3. Moves(r) /\ y.pc = "load" /\ y.slot = s
    BY <1>11, GotoMoves DEF DropSlot, Pcs
  <2> QED
    BY <1>11, <2>2, <2>3, NotifiedNudges DEF DropSlot, Kind, Plain, Works
<1>12. CASE Load(r)
  <2>1. CASE inflight > 0
    <3>1. Moves(r) /\ y.pc = "subtract" /\ y.slot = s
      BY <1>12, <2>1, GotoMoves DEF Load, Pcs
    <3> QED
      BY <1>12, <2>1, <3>1, NotifiedNudges DEF Load, Kind, Plain, Looks, Unmoved
  <2>2. CASE ~(inflight > 0)
    <3>2. inflight = 0
      BY <2>2, Constants DEF Typed
    <3>1. Moves(r) /\ y.pc = "away" /\ y.slot = None
      BY <1>12, <2>2, LeaveMoves DEF Load
    <3>3. Nudged
      BY <1>12, <2>2, NotifiedNudges DEF Load
    <3>4. Looks(x, y)
      BY <1>12, <3>1, <3>2 DEF Load, Looks, Unmoved
    <3> QED
      BY <3>1, <3>3, <3>4 DEF Kind, Plain
  <2> QED
    BY <2>1, <2>2
<1>13. CASE Subtract(r)
  <2>1. Moves(r) /\ y.pc = "away" /\ y.slot = None
    BY <1>13, LeaveMoves DEF Subtract
  <2> QED
    BY <1>13, <2>1, NotifiedNudges DEF Subtract, Kind, Plain, Subtracts
<1>14. CASE Cancel(r)
  <2>1. Worn(s) /\ Unmoved /\ Nudged
    BY <1>14, UnmovedWorn, NotifiedNudges DEF Cancel, Unmoved
  <2>2. CASE x.pc \in {"check", "make"}
    <3>1. Moves(r) /\ y.pc = "away" /\ y.slot = None
      BY <1>14, <2>2, LeaveMoves DEF Cancel
    <3> QED
      BY <2>1, <2>2, <3>1 DEF Kind, Plain, GivesUp, Unmoved
  <2>3. CASE x.pc \in {"closing", "disposing", "creating"}
    <3> DEFINE z == [ x EXCEPT !.pc = "load", !.slot = None ]
    <3>1. z \in RenderRecs /\ z.pc = "load" /\ z.slot = None
      BY <1>0 DEF RenderRecs
    <3>2. rd' = [ rd EXCEPT ![r] = z ]
      BY <1>14, <2>3 DEF Cancel
    <3> HIDE DEF z
    <3>3. Moves(r) /\ y.pc = "load" /\ y.slot = None
      BY <3>1, <3>2, RenderChange
    <3> QED
      BY <2>1, <2>3, <3>3 DEF Kind, Plain, Works
  <2> QED
    BY <1>14, <2>2, <2>3 DEF Cancel
<1> QED
  BY <1>2, <1>3, <1>4, <1>5, <1>6, <1>7, <1>8, <1>9, <1>10, <1>11, <1>12, <1>13, <1>14
     DEF ReleaseStep

-----------------------------------------------------------------------------
(* Who still has a slot.  Nobody comes to have a slot again but by Make.       *)

Had(s) == Held(s) \/ InHand(s)

Drained(s) == \E i \in 1..Len(shut.drained) : shut.drained[i] = s

Descends ==
  /\ slot' \in [ Slots -> SlotRecs ]
  /\ \A s \in Slots : Wears(slot[s], slot'[s])
  /\ \A s \in Slots : Had(s)' => Had(s)
  /\ \A s \in Slots : Upgradable(s)' => Upgradable(s)

LEMMA NudgedKeeps ==
  ASSUME Typed, Nudged
  PROVE  /\ shut'.pc = shut.pc /\ shut'.drained = shut.drained /\ shut'.live = shut.live
         /\ shut'.swept = shut.swept /\ shut'.cur = shut.cur
         /\ Early' = Early
<1>1. shut \in ShutRecs
  BY DEF Typed
<1>2. PICK w \in BOOLEAN : shut' = [ shut EXCEPT !.woken = w ]
  BY DEF Nudged
<1>3. /\ shut'.pc = shut.pc /\ shut'.drained = shut.drained /\ shut'.live = shut.live
      /\ shut'.swept = shut.swept /\ shut'.cur = shut.cur
  BY <1>1, <1>2 DEF ShutRecs
<1> QED
  BY <1>3 DEF Early

LEMMA WornSlots ==
  ASSUME Typed, Closed, NEW s, Worn(s)
  PROVE  \A u \in Slots : Wears(slot[u], slot'[u])
<1> SUFFICES ASSUME NEW u \in Slots
             PROVE  Wears(slot[u], slot'[u])
  OBVIOUS
<1>1. Wears(slot[u], slot[u])
  BY SlotsSane, SameWears
<1> QED
  BY <1>1 DEF Worn

(* A sequence's elements after its head was taken or one was put behind. *)
LEMMA TailFacts ==
  ASSUME NEW S, NEW q \in Seq(S), q # << >>
  PROVE  /\ Tail(q) \in Seq(S) /\ Len(Tail(q)) = Len(q) - 1 /\ Len(q) \in Nat /\ Len(q) > 0
         /\ \A i \in 1..Len(Tail(q)) : Tail(q)[i] = q[i + 1]
         /\ Head(q) = q[1] /\ Head(q) \in S
OBVIOUS

LEMMA AppendFacts ==
  ASSUME NEW S, NEW q \in Seq(S), NEW e \in S
  PROVE  /\ Append(q, e) \in Seq(S) /\ Len(Append(q, e)) = Len(q) + 1 /\ Len(q) \in Nat
         /\ \A i \in 1..Len(q) : Append(q, e)[i] = q[i]
         /\ Append(q, e)[Len(q) + 1] = e
OBVIOUS

LEMMA HandsStay ==
  ASSUME NEW r \in Renders, Moves(r), NEW s, InHand(s)'
  PROVE  InHand(s) \/ rd'[r].slot = s
BY DEF InHand, Moves

LEMMA UpgradableIs ==
  ASSUME NEW s
  PROVE  Upgradable(s) <=> Had(s) \/ Drained(s)
BY DEF Upgradable, Had, Drained

(* The kinds of Plain that leave the books alone change one slot at most. *)
LEMMA PlainFacts ==
  ASSUME Typed, Placed, Closed, NEW r \in Renders, Moves(r), Plain(rd[r], rd'[r])
  PROVE  /\ Worn(rd[r].slot) \/ UNCHANGED << slot, idle >>
         /\ slot' \in [ Slots -> SlotRecs ]
         /\ \A s \in Slots : Wears(slot[s], slot'[s])
         /\ idle' = idle
         /\ rd'[r].slot \in {rd[r].slot, None}
         /\ OnSlot(r)' => OnSlot(r) /\ rd'[r].slot = rd[r].slot
         /\ rd'[r].pc \in {"away", "seek", "make"} => rd'[r].slot = None
<1> DEFINE x == rd[r]
           y == rd'[r]
<1>1. Worn(x.slot) \/ UNCHANGED << slot, idle >>
  BY DEF Plain, Comes, Misses, Readies, GivesUp, Claims, Enters, Writes, Walks, Works, Looks,
         Subtracts, Unmoved
<1>2. slot' \in [ Slots -> SlotRecs ] /\ idle' = idle
  BY <1>1 DEF Worn, Typed
<1>3. \A s \in Slots : Wears(slot[s], slot'[s])
  <2>1. CASE Worn(x.slot)
    BY <2>1, WornSlots
  <2>2. CASE UNCHANGED << slot, idle >>
    <3> SUFFICES ASSUME NEW s \in Slots PROVE Wears(slot[s], slot'[s])
      OBVIOUS
    <3>1. Sane(slot[s])
      BY SlotsSane
    <3> QED
      BY <2>2, <3>1, SameWears
  <2> QED
    BY <1>1, <2>1, <2>2
<1>4. y.slot \in {x.slot, None}
  BY DEF Plain, Comes, Misses, Readies, GivesUp, Claims, Enters, Writes, Walks, Works, Looks,
         Subtracts
<1>5. OnSlot(r)' => OnSlot(r) /\ y.slot = x.slot
  BY DEF Plain, Comes, Misses, Readies, GivesUp, Claims, Enters, Writes, Walks, Works, Looks,
         Subtracts, OnSlot
<1>6. y.pc \in {"away", "seek", "make"} => y.slot = None
  BY DEF Plain, Comes, Misses, Readies, GivesUp, Claims, Enters, Writes, Walks, Works, Looks,
         Subtracts
<1> QED
  BY <1>1, <1>2, <1>3, <1>4, <1>5, <1>6

LEMMA RenderDescends ==
  ASSUME Typed, Placed, Closed, NEW r \in Renders, Moves(r), Nudged,
         Plain(rd[r], rd'[r]) \/ Pops(rd[r], rd'[r]) \/ Pushes(rd[r], rd'[r])
  PROVE  Descends
<1> DEFINE x == rd[r]
           y == rd'[r]
<1>1. slot' \in [ Slots -> SlotRecs ] /\ \A s \in Slots : Wears(slot[s], slot'[s])
  <2>1. CASE Plain(x, y)
    BY <2>1, PlainFacts
  <2>2. CASE slot' = slot
    <3>1. \A s \in Slots : Sane(slot[s])
      BY SlotsSane
    <3> QED
      BY <2>2, <3>1, SameWears DEF Typed
  <2> QED
    BY <2>1, <2>2 DEF Pops, Pushes
<1>2. ASSUME NEW s \in Slots, Had(s)'
      PROVE  Had(s)
  <2>1. CASE Plain(x, y)
    <3>1. idle' = idle /\ y.slot \in {x.slot, None}
      BY <2>1, PlainFacts
    <3>2. CASE Held(s)'
      BY <3>1, <3>2 DEF Held, Had
    <3>3. CASE InHand(s)'
      BY <3>1, <3>3, HandsStay, Constants DEF Had, InHand
    <3> QED
      BY <1>2, <3>2, <3>3 DEF Had
  <2>2. CASE Pops(x, y)
    <3>1. idle # << >> /\ idle' = Tail(idle) /\ y.slot = Head(idle) /\ idle \in Seq(Slots)
      BY <2>2 DEF Pops, Typed
    <3>2. CASE Held(s)'
      <4>1. PICK i \in 1..Len(idle') : idle'[i] = s
        BY <3>2 DEF Held
      <4>2. i + 1 \in 1..Len(idle) /\ idle[i + 1] = s
        BY <3>1, <4>1, TailFacts
      <4> QED
        BY <4>2 DEF Had, Held
    <3>3. CASE InHand(s)'
      <4>1. 1 \in 1..Len(idle) /\ Head(idle) = idle[1]
        BY <3>1, TailFacts
      <4> QED
        BY <3>1, <3>3, <4>1, HandsStay DEF Had, Held
    <3> QED
      BY <1>2, <3>2, <3>3 DEF Had
  <2>3. CASE Pushes(x, y)
    <3>1. idle' = Append(idle, x.slot) /\ y.slot = x.slot /\ idle \in Seq(Slots) /\ x.slot \in Slots
      BY <2>3 DEF Pushes, Typed, Placed, OnSlot
    <3>2. CASE Held(s)'
      <4>1. PICK i \in 1..Len(idle') : idle'[i] = s
        BY <3>2 DEF Held
      <4>2. (i \in 1..Len(idle) /\ idle[i] = s) \/ s = x.slot
        BY <3>1, <4>1, AppendFacts
      <4> QED
        BY <4>2 DEF Had, Held, InHand
    <3>3. CASE InHand(s)'
      BY <3>1, <3>3, HandsStay DEF Had, InHand
    <3> QED
      BY <1>2, <3>2, <3>3 DEF Had
  <2> QED
    BY <2>1, <2>2, <2>3
<1>3. ASSUME NEW s \in Slots, Upgradable(s)'
      PROVE  Upgradable(s)
  <2>1. Drained(s)' => Drained(s)
    BY NudgedKeeps DEF Drained
  <2>2. Had(s)' \/ Drained(s)'
    BY <1>3 DEF Upgradable, Had, Drained
  <2> QED
    BY <1>2, <2>1, <2>2, UpgradableIs
<1> QED
  BY <1>1, <1>2, <1>3 DEF Descends

(* What is kept while slots only wear down. *)
LEMMA DescendsKeeps ==
  ASSUME Typed, Clean, Closed, Descends
  PROVE  /\ Clean' /\ Closed' /\ Live' \subseteq Live
         /\ \A s \in Slots : HasConn(s)' => HasConn(s)
<1>1. ASSUME NEW s \in Slots
      PROVE  /\ HasConn(s)' => HasConn(s)
             /\ slot'[s].st = "idle" => ~slot'[s].page
             /\ HasConn(s)' => slot'[s].closes = 0
             /\ Upgradable(s)' /\ ~HasConn(s)' => slot'[s].closes = 1
  <2>1. Wears(slot[s], slot'[s]) /\ (Upgradable(s)' => Upgradable(s))
    BY DEF Descends
  <2>2. /\ HasConn(s) <=> Conn(slot[s])
        /\ HasConn(s)' <=> Conn(slot'[s])
    BY DEF HasConn, Conn
  <2>3. /\ slot[s].st = "idle" => ~slot[s].page
        /\ Conn(slot[s]) => slot[s].closes = 0
        /\ Upgradable(s) /\ ~Conn(slot[s]) => slot[s].closes = 1
        /\ slot[s].closes \in 0..1
    BY <2>2 DEF Clean, Closed, Typed, SlotRecs
  <2> QED
    BY <2>1, <2>2, <2>3 DEF Wears
<1>2. Clean'
  BY <1>1 DEF Clean
<1>3. Closed'
  BY <1>1 DEF Closed
<1>4. Live' \subseteq Live
  BY <1>1 DEF Descends, Live, Had
<1> QED
  BY <1>1, <1>2, <1>3, <1>4

LEMMA Smaller ==
  ASSUME NEW S, NEW T, IsFiniteSet(T), S \subseteq T
  PROVE  /\ IsFiniteSet(S) /\ Cardinality(S) <= Cardinality(T)
         /\ Cardinality(S) \in Nat /\ Cardinality(T) \in Nat
BY FS_Subset, FS_CardinalityType

LEMMA RenderSets ==
  /\ IsFiniteSet(Making) /\ IsFiniteSet(Busy)
  /\ IsFiniteSet(Making') /\ IsFiniteSet(Busy')
  /\ Cardinality(Making) \in Nat /\ Cardinality(Busy) \in Nat
  /\ Cardinality(Making') \in Nat /\ Cardinality(Busy') \in Nat
<1>1. Making \subseteq Renders /\ Busy \subseteq Renders /\ Making' \subseteq Renders
      /\ Busy' \subseteq Renders
  BY DEF Making, Busy
<1> QED
  BY <1>1, Constants, FS_Subset, FS_CardinalityType

-----------------------------------------------------------------------------
(* The steps of a render keep the types, and who names what. *)

LEMMA RenderTyped ==
  ASSUME Typed, Placed, Closed, NEW r \in Renders, Moves(r), Nudged, Kind(rd[r], rd'[r])
  PROVE  Typed'
<1> DEFINE x == rd[r]
           y == rd'[r]
<1>1. rd' \in [ Renders -> RenderRecs ] /\ shut' \in ShutRecs /\ late' \in BOOLEAN
  BY DEF Moves, Nudged, Typed
<1>2. slot' \in [ Slots -> SlotRecs ]
  BY PlainFacts DEF Kind, Pops, Makes, Pushes, Typed
<1>3. idle' \in Seq(Slots)
  <2>1. CASE Plain(x, y)
    BY <2>1, PlainFacts DEF Typed
  <2>2. CASE Pops(x, y)
    BY <2>2, TailFacts DEF Pops, Typed
  <2>3. CASE Makes(x, y)
    BY <2>3 DEF Makes, Typed
  <2>4. CASE Pushes(x, y)
    <3>1. x.slot \in Slots
      BY <2>4 DEF Pushes, Placed, OnSlot
    <3> QED
      BY <2>4, <3>1, AppendFacts DEF Pushes, Typed
  <2> QED
    BY <2>1, <2>2, <2>3, <2>4 DEF Kind
<1>4. inflight' \in 0..(Word - 1)
  <2>1. inflight \in Int
    BY DEF Typed
  <2>2. CASE Enters(x, y) \/ Subtracts(x, y)
    BY <2>1, <2>2, Wraps DEF Enters, Subtracts
  <2>3. CASE ~(Enters(x, y) \/ Subtracts(x, y))
    <3>1. inflight' = inflight
      BY <2>3 DEF Kind, Plain, Comes, Misses, Readies, GivesUp, Claims, Writes, Walks, Works,
                  Looks, Pops, Makes, Pushes, Unmoved, Worn
    <3> QED
      BY <3>1 DEF Typed
  <2> QED
    BY <2>2, <2>3
<1> QED
  BY <1>1, <1>2, <1>3, <1>4 DEF Typed

LEMMA RenderPlaced ==
  ASSUME Typed, Placed, Closed, NEW r \in Renders, Moves(r), Nudged, Kind(rd[r], rd'[r])
  PROVE  Placed'
<1> DEFINE x == rd[r]
           y == rd'[r]
<1>1. shut'.pc = "take" => shut'.cur \in shut'.live
  BY NudgedKeeps DEF Placed
<1>2. /\ OnSlot(r)' => y.slot \in Slots
      /\ y.pc \in {"away", "seek", "make"} => y.slot = None
  <2>1. CASE Plain(x, y)
    BY <2>1, PlainFacts DEF Placed
  <2>2. CASE Pops(x, y)
    BY <2>2, TailFacts DEF Pops, Typed
  <2>3. CASE Makes(x, y)
    BY <2>3 DEF Makes
  <2>4. CASE Pushes(x, y)
    BY <2>4 DEF Pushes, OnSlot
  <2> QED
    BY <2>1, <2>2, <2>3, <2>4 DEF Kind
<1>3. ASSUME NEW q \in Renders \ {r}
      PROVE  /\ OnSlot(q)' => rd'[q].slot \in Slots
             /\ rd'[q].pc \in {"away", "seek", "make"} => rd'[q].slot = None
  BY <1>3 DEF Moves, Placed, OnSlot
<1> QED
  BY <1>1, <1>2, <1>3 DEF Placed

(* A render finds its slot as it left it, whatever another render does. *)
LEMMA OthersKeep ==
  ASSUME Typed, Placed, SlotIsPrivate, NEW r \in Renders, Moves(r), Kind(rd[r], rd'[r]),
         NEW q \in Renders \ {r}, OnSlot(q)
  PROVE  slot'[rd[q].slot] = slot[rd[q].slot]
<1> DEFINE x == rd[r]
           y == rd'[r]
           t == rd[q].slot
<1>1. t \in Slots
  BY DEF Placed
<1>2. OnSlot(r) => x.slot # t
  BY DEF SlotIsPrivate
<1>3. CASE Makes(x, y)
  <2>1. t # y.slot
    BY <1>3 DEF Makes, Unreferenced, Upgradable, InHand
  <2> QED
    BY <1>1, <1>3, <2>1 DEF Makes
<1>4. CASE Worn(x.slot) /\ x.slot # t
  BY <1>1, <1>4 DEF Worn
<1>5. CASE slot' = slot
  BY <1>5
<1>6. Makes(x, y) \/ slot' = slot \/ (Worn(x.slot) /\ (OnSlot(r) \/ x.pc = "make"))
  BY DEF Kind, Plain, Comes, Misses, Readies, GivesUp, Claims, Enters, Writes, Walks, Works,
         Looks, Subtracts, Pops, Pushes, Unmoved, OnSlot
<1>7. x.pc = "make" => x.slot # t
  BY <1>1, Constants DEF Placed
<1> QED
  BY <1>2, <1>3, <1>4, <1>5, <1>6, <1>7

(* A slot is on the free list after the step. *)
HeldAfter(s) == \E i \in 1..Len(idle') : idle'[i] = s

LEMMA RenderPrivate ==
  ASSUME Typed, Placed, SlotIsPrivate, Clean, Closed, NEW r \in Renders, Moves(r),
         Kind(rd[r], rd'[r])
  PROVE  SlotIsPrivate'
<1> DEFINE x == rd[r]
           y == rd'[r]
<1>1. \A i, j \in 1..Len(idle') : idle'[i] = idle'[j] => i = j
  <2>1. CASE Plain(x, y) \/ Makes(x, y)
    BY <2>1, PlainFacts DEF Makes, SlotIsPrivate
  <2>2. CASE Pops(x, y)
    <3>1. idle # << >> /\ idle' = Tail(idle) /\ idle \in Seq(Slots)
      BY <2>2 DEF Pops, Typed
    <3> SUFFICES ASSUME NEW i \in 1..Len(idle'), NEW j \in 1..Len(idle'), idle'[i] = idle'[j]
                 PROVE  i = j
      OBVIOUS
    <3>2. /\ i + 1 \in 1..Len(idle) /\ j + 1 \in 1..Len(idle)
          /\ idle[i + 1] = idle[j + 1]
      BY <3>1, TailFacts
    <3>3. i + 1 = j + 1
      BY <3>2 DEF SlotIsPrivate
    <3> QED
      BY <3>1, <3>3, TailFacts
  <2>3. CASE Pushes(x, y)
    <3>1. idle' = Append(idle, x.slot) /\ idle \in Seq(Slots) /\ x.slot \in Slots /\ ~Held(x.slot)
      BY <2>3 DEF Pushes, Typed, Placed, OnSlot, SlotIsPrivate
    <3> SUFFICES ASSUME NEW i \in 1..Len(idle'), NEW j \in 1..Len(idle'), idle'[i] = idle'[j]
                 PROVE  i = j
      OBVIOUS
    <3>2. /\ i \in 1..Len(idle) \/ i = Len(idle) + 1
          /\ j \in 1..Len(idle) \/ j = Len(idle) + 1
      BY <3>1, AppendFacts
    <3>3. \A k \in 1..Len(idle) : idle'[k] = idle[k] /\ idle[k] # x.slot
      BY <3>1, AppendFacts DEF Held
    <3>4. idle'[Len(idle) + 1] = x.slot
      BY <3>1, AppendFacts
    <3> QED
      BY <3>2, <3>3, <3>4 DEF SlotIsPrivate
  <2> QED
    BY <2>1, <2>2, <2>3 DEF Kind
<1>2. ASSUME OnSlot(r)'
      PROVE  /\ ~HeldAfter(y.slot)
             /\ \A q \in Renders \ {r} : OnSlot(q) => rd[q].slot # y.slot
             /\ y.pc = "enter" => ~slot'[y.slot].page
  <2>1. CASE Plain(x, y)
    <3>1. OnSlot(r) /\ y.slot = x.slot /\ idle' = idle
      BY <1>2, <2>1, PlainFacts
    <3>2. ~HeldAfter(y.slot) /\ \A q \in Renders \ {r} : OnSlot(q) => rd[q].slot # y.slot
      BY <3>1 DEF SlotIsPrivate, Held, HeldAfter
    <3>3. y.pc = "enter" => Claims(x, y)
      BY <2>1 DEF Plain, Comes, Misses, Readies, GivesUp, Enters, Writes, Walks, Works, Looks,
                  Subtracts
    <3>4. Claims(x, y) => ~slot'[y.slot].page
      BY <3>1 DEF Claims, Clean, Placed
    <3> QED
      BY <3>2, <3>3, <3>4
  <2>2. CASE Pops(x, y)
    <3>1. idle # << >> /\ idle' = Tail(idle) /\ idle \in Seq(Slots) /\ y.slot = Head(idle)
      BY <2>2 DEF Pops, Typed
    <3>2. ASSUME NEW i \in 1..Len(idle'), idle'[i] = y.slot
          PROVE  FALSE
      <4>1. i + 1 \in 1..Len(idle) /\ 1 \in 1..Len(idle) /\ idle[i + 1] = idle[1]
        BY <3>1, <3>2, TailFacts
      <4>2. i + 1 = 1
        BY <4>1 DEF SlotIsPrivate
      <4> QED
        BY <4>2
    <3>3. Held(y.slot)
      BY <3>1, TailFacts DEF Held
    <3> QED
      BY <2>2, <3>2, <3>3 DEF Held, SlotIsPrivate, Pops, HeldAfter
  <2>3. CASE Makes(x, y)
    <3>1. ~Held(y.slot) /\ ~InHand(y.slot) /\ idle' = idle /\ y.pc = "claim"
      BY <2>3 DEF Makes, Unreferenced, Upgradable
    <3> QED
      BY <3>1 DEF Held, InHand, HeldAfter
  <2>4. CASE Pushes(x, y)
    BY <1>2, <2>4 DEF Pushes, OnSlot
  <2> QED
    BY <2>1, <2>2, <2>3, <2>4 DEF Kind
<1>3. ASSUME NEW q \in Renders \ {r}, OnSlot(q)'
      PROVE  /\ OnSlot(q) /\ rd'[q].slot = rd[q].slot /\ rd'[q].pc = rd[q].pc
             /\ ~HeldAfter(rd[q].slot)
             /\ rd'[q].pc = "enter" => ~slot'[rd[q].slot].page
  <2>1. OnSlot(q) /\ rd'[q] = rd[q]
    BY <1>3 DEF Moves, OnSlot
  <2>2. rd[q].slot \in Slots /\ ~Held(rd[q].slot)
    BY <2>1 DEF Placed, SlotIsPrivate
  <2>3. rd[q].pc = "enter" => ~slot'[rd[q].slot].page
    BY <2>1, OthersKeep DEF SlotIsPrivate
  <2>4. ~HeldAfter(rd[q].slot)
    <3>1. CASE Plain(x, y) \/ Makes(x, y)
      <4>1. idle' = idle
        BY <3>1, PlainFacts DEF Makes
      <4> QED
        BY <2>1, <2>2, <4>1 DEF Held, HeldAfter
    <3>2. CASE Pops(x, y)
      <4>1. idle # << >> /\ idle' = Tail(idle) /\ idle \in Seq(Slots)
        BY <3>2 DEF Pops, Typed
      <4>2. \A i \in 1..Len(idle') : i + 1 \in 1..Len(idle) /\ idle'[i] = idle[i + 1]
        BY <4>1, TailFacts
      <4> QED
        BY <2>1, <2>2, <4>2 DEF Held, HeldAfter
    <3>3. CASE Pushes(x, y)
      <4>1. idle' = Append(idle, x.slot) /\ idle \in Seq(Slots) /\ OnSlot(r) /\ x.slot \in Slots
        BY <3>3 DEF Pushes, Typed, Placed, OnSlot
      <4>2. x.slot # rd[q].slot
        BY <2>1, <4>1 DEF SlotIsPrivate
      <4>3. \A i \in 1..Len(idle') : (i \in 1..Len(idle) /\ idle'[i] = idle[i]) \/ idle'[i] = x.slot
        BY <4>1, AppendFacts
      <4> QED
        BY <2>1, <2>2, <4>2, <4>3 DEF Held, HeldAfter
    <3> QED
      BY <3>1, <3>2, <3>3 DEF Kind
  <2> QED
    BY <2>1, <2>3, <2>4
<1>4. ASSUME NEW q \in Renders, OnSlot(q)', NEW p \in Renders \ {q}, OnSlot(p)'
      PROVE  rd'[p].slot # rd'[q].slot
  <2>1. CASE q = r
    BY <1>2, <1>3, <1>4, <2>1
  <2>2. CASE p = r
    BY <1>2, <1>3, <1>4, <2>2
  <2>3. CASE q # r /\ p # r
    BY <1>3, <1>4, <2>3 DEF SlotIsPrivate
  <2> QED
    BY <2>1, <2>2, <2>3
<1>5. ASSUME NEW q \in Renders, OnSlot(q)'
      PROVE  ~HeldAfter(rd'[q].slot) /\ (rd'[q].pc = "enter" => ~slot'[rd'[q].slot].page)
  <2>1. CASE q = r
    BY <1>2, <1>5, <2>1
  <2>2. CASE q # r
    <3>1. rd'[q].slot = rd[q].slot /\ ~HeldAfter(rd[q].slot)
          /\ (rd'[q].pc = "enter" => ~slot'[rd[q].slot].page)
      BY <1>3, <1>5, <2>2
    <3> QED
      BY <3>1
  <2> QED
    BY <2>1, <2>2
<1> QED
  BY <1>1, <1>4, <1>5 DEF SlotIsPrivate, Held, HeldAfter

-----------------------------------------------------------------------------
(* Connections and permits. *)

LEMMA ImageCard ==
  ASSUME NEW D, IsFiniteSet(D), NEW f, NEW T, \A t \in T : \E d \in D : f[d] = t
  PROVE  IsFiniteSet(T) /\ Cardinality(T) <= Cardinality(D) /\ Cardinality(T) \in Nat
<1> DEFINE E == { d \in D : f[d] \in T }
           g == [ d \in E |-> f[d] ]
<1>1. IsFiniteSet(E) /\ Cardinality(E) <= Cardinality(D)
  BY FS_Subset
<1>2. g \in Surjection(E, T)
  BY DEF Surjection
<1>3. IsFiniteSet(T) /\ Cardinality(T) <= Cardinality(E)
  BY <1>1, <1>2, FS_Surjection
<1> QED
  BY <1>1, <1>3, FS_CardinalityType

(* After a step that leaves the free list empty, a connection is in the hands  *)
(* of a render that has a permit and is not making one.                        *)
LEMMA HandsBound ==
  ASSUME Placed', idle' = << >>, Cardinality(Busy') <= Size
  PROVE  IsFiniteSet(Live') /\ Cardinality(Live') + Cardinality(Making') <= Size
<1> DEFINE f == [ r \in Renders |-> rd'[r].slot ]
           D == Busy' \ Making'
<1>1. /\ IsFiniteSet(D)
      /\ Cardinality(D) = Cardinality(Busy') - Cardinality(Busy' \cap Making')
  BY RenderSets, FS_Difference
<1>2. Busy' \cap Making' = Making'
  BY DEF Busy, Making
<1>3. ASSUME NEW s \in Live'
      PROVE  \E r \in D : f[r] = s
  <2>1. s \in Slots /\ InHand(s)'
    BY DEF Live, Held
  <2>2. PICK r \in Renders : rd'[r].slot = s
    BY <2>1 DEF InHand
  <2>3. rd'[r].pc \notin {"away", "make"}
    BY <2>1, <2>2, Constants DEF Placed
  <2> QED
    BY <2>2, <2>3 DEF Busy, Making
<1>4. IsFiniteSet(Live') /\ Cardinality(Live') <= Cardinality(D) /\ Cardinality(Live') \in Nat
  <2> HIDE DEF f, D
  <2> QED
    BY <1>1, <1>3, ImageCard
<1>5. Cardinality(D) = Cardinality(Busy') - Cardinality(Making')
  BY <1>1, <1>2
<1> HIDE DEF D
<1> QED
  BY <1>4, <1>5, RenderSets, Constants

LEMMA RenderSized ==
  ASSUME Typed, Placed, Clean, Closed, Sized, NEW r \in Renders, Moves(r), Nudged,
         Kind(rd[r], rd'[r])
  PROVE  Sized'
<1> DEFINE x == rd[r]
           y == rd'[r]
<1>0. Typed' /\ Placed'
  BY RenderTyped, RenderPlaced
<1>1. \A q \in Renders \ {r} : rd'[q] = rd[q]
  BY DEF Moves
<1>2. Live' \subseteq Live \/ Makes(x, y)
  <2>1. Descends \/ Makes(x, y)
    BY RenderDescends DEF Kind
  <2> QED
    BY <2>1, DescendsKeeps
<1>3. /\ Cardinality(Live) \in Nat /\ IsFiniteSet(Live)
      /\ Cardinality(Live) + Cardinality(Making) <= Size
      /\ Cardinality(Busy) <= Size
  BY FS_CardinalityType DEF Sized
<1>4. CASE Comes(x, y)
  <2>1. Making' \subseteq Making /\ Busy' \subseteq Busy \cup {r} /\ Cardinality(Busy) < Size
    BY <1>1, <1>4 DEF Comes, Making, Busy, Free
  <2>2. Live' \subseteq Live
    BY <1>2, <1>4 DEF Comes, Makes
  <2>3. Cardinality(Live') <= Cardinality(Live) /\ Cardinality(Making') <= Cardinality(Making)
        /\ IsFiniteSet(Live') /\ Cardinality(Live') \in Nat
    BY <1>3, <2>1, <2>2, RenderSets, Smaller
  <2>4. IsFiniteSet(Busy \cup {r}) /\ Cardinality(Busy \cup {r}) <= Cardinality(Busy) + 1
    BY RenderSets, FS_AddElement
  <2>5. Cardinality(Busy') <= Cardinality(Busy \cup {r})
        /\ Cardinality(Busy \cup {r}) \in Nat
    BY <2>1, <2>4, Smaller
  <2> QED
    BY <1>3, <2>1, <2>3, <2>4, <2>5, RenderSets, Constants DEF Sized
<1>5. CASE Misses(x, y)
  <2>1. Busy' \subseteq Busy /\ idle' = << >>
    BY <1>1, <1>5 DEF Misses, Busy, Unmoved
  <2>2. Cardinality(Busy') <= Size
    BY <1>3, <2>1, RenderSets, Smaller, Constants
  <2>3. IsFiniteSet(Live') /\ Cardinality(Live') + Cardinality(Making') <= Size
    BY <1>0, <2>1, <2>2, HandsBound
  <2> QED
    BY <2>2, <2>3 DEF Sized
<1>6. CASE Makes(x, y)
  <2> DEFINE s == y.slot
  <2>1. r \in Making /\ Making' = Making \ {r} /\ Busy' \subseteq Busy
    BY <1>1, <1>6 DEF Makes, Making, Busy
  <2>2. Live' \subseteq Live \cup {s}
    <3> SUFFICES ASSUME NEW u \in Live', u # s
                 PROVE  u \in Live
      OBVIOUS
    <3>1. u \in Slots /\ (Held(u)' \/ InHand(u)') /\ HasConn(u)'
      BY DEF Live
    <3>2. slot'[u] = slot[u] /\ idle' = idle
      BY <1>6, <3>1 DEF Makes
    <3>3. Held(u)' => Held(u)
      BY <3>2 DEF Held
    <3>4. InHand(u)' => InHand(u)
      BY HandsStay
    <3> QED
      BY <3>1, <3>2, <3>3, <3>4 DEF Live, HasConn
  <2>3. IsFiniteSet(Live \cup {s}) /\ Cardinality(Live \cup {s}) <= Cardinality(Live) + 1
    <3>1. /\ IsFiniteSet(Live \cup {s})
          /\ Cardinality(Live \cup {s}) = IF s \in Live THEN Cardinality(Live)
                                         ELSE Cardinality(Live) + 1
      BY <1>3, FS_AddElement
    <3> QED
      BY <1>3, <3>1
  <2>4. Cardinality(Live') <= Cardinality(Live \cup {s}) /\ IsFiniteSet(Live')
        /\ Cardinality(Live \cup {s}) \in Nat /\ Cardinality(Live') \in Nat
    BY <2>2, <2>3, Smaller
  <2>5. Cardinality(Making') = Cardinality(Making) - 1
    BY <2>1, RenderSets, FS_RemoveElement
  <2>6. Cardinality(Busy') <= Cardinality(Busy)
    BY <2>1, RenderSets, Smaller
  <2> QED
    BY <1>3, <2>3, <2>4, <2>5, <2>6, RenderSets, Constants DEF Sized
<1>7. CASE ~(Comes(x, y) \/ Misses(x, y) \/ Makes(x, y))
  <2>1. x.pc # "away" /\ (y.pc = "make" => x.pc = "make")
    BY <1>7 DEF Kind, Plain, Readies, GivesUp, Claims, Enters, Writes, Walks, Works, Looks,
                Subtracts, Pops, Pushes
  <2>2. Making' \subseteq Making /\ Busy' \subseteq Busy
    BY <1>1, <2>1 DEF Making, Busy
  <2>3. Live' \subseteq Live
    BY <1>2, <1>7
  <2>4. /\ Cardinality(Live') <= Cardinality(Live) /\ Cardinality(Making') <= Cardinality(Making)
        /\ IsFiniteSet(Live') /\ Cardinality(Live') \in Nat
        /\ Cardinality(Busy') <= Cardinality(Busy)
    BY <1>3, <2>2, <2>3, RenderSets, Smaller
  <2> QED
    BY <1>3, <2>4, RenderSets, Constants DEF Sized
<1> QED
  BY <1>4, <1>5, <1>6, <1>7

-----------------------------------------------------------------------------
(* The books. *)

LEMMA Modulo ==
  /\ \A n \in Nat : n < Word => n % Word = n
  /\ Cardinality(Renders) + 1 < Word
BY Constants

LEMMA CountedSets ==
  /\ IsFiniteSet({ r \in Renders : Counted(r) })
  /\ Cardinality({ r \in Renders : Counted(r) }) \in Nat
  /\ Cardinality({ r \in Renders : Counted(r) }) <= Cardinality(Renders)
<1> DEFINE C == { r \in Renders : Counted(r) }
<1>1. C \subseteq Renders
  OBVIOUS
<1> HIDE DEF C
<1>2. IsFiniteSet(C) /\ Cardinality(C) \in Nat /\ Cardinality(C) <= Cardinality(Renders)
  BY <1>1, Constants, Smaller
<1> QED
  BY <1>2 DEF C

LEMMA RenderBooked ==
  ASSUME Typed, Placed, SlotIsPrivate, Closed, Booked, NEW r \in Renders, Moves(r), Nudged,
         Kind(rd[r], rd'[r])
  PROVE  Booked'
<1> DEFINE x == rd[r]
           y == rd'[r]
           C == { q \in Renders : Counted(q) }
           D == { q \in Renders : Counted(q)' }
<1> SUFFICES ASSUME Early
             PROVE  /\ inflight' = Cardinality(D)
                    /\ \A q \in Renders : rd'[q].pc \in {"enter", "using"} => ~slot'[rd'[q].slot].term
  BY NudgedKeeps DEF Booked
<1>1. /\ inflight = Cardinality(C)
      /\ \A q \in Renders : rd[q].pc \in {"enter", "using"} => ~slot[rd[q].slot].term
  BY DEF Booked
<1>2. \A q \in Renders \ {r} : rd'[q] = rd[q]
  BY DEF Moves
<1>3. \A q \in Renders \ {r} : Counted(q)' <=> Counted(q)
  BY <1>2 DEF Counted
<1>4. /\ IsFiniteSet(C) /\ Cardinality(C) \in Nat /\ Cardinality(C) <= Cardinality(Renders)
      /\ Cardinality(Renders) \in Nat /\ Word \in Nat
      /\ r \in C <=> Counted(r)
  BY CountedSets, Constants
<1>5. inflight' = Cardinality(D)
  <2>1. CASE Enters(x, y)
    <3>1. ~Counted(r) /\ Counted(r)'
      BY <2>1 DEF Enters, Counted
    <3>2. D = C \cup {r}
      BY <1>3, <3>1
    <3> HIDE DEF C, D
    <3>3. Cardinality(D) = Cardinality(C) + 1
      BY <1>4, <3>1, <3>2, FS_AddElement
    <3>4. Cardinality(C) + 1 \in Nat /\ Cardinality(C) + 1 < Word
      BY <1>4, Modulo
    <3> QED
      BY <1>1, <2>1, <3>3, <3>4, Modulo DEF Enters
  <2>2. CASE Subtracts(x, y)
    <3>1. Counted(r) /\ ~Counted(r)'
      BY <2>2 DEF Subtracts, Counted
    <3>2. D = C \ {r}
      BY <1>3, <3>1
    <3>5. C # {}
      BY <3>1
    <3> HIDE DEF C, D
    <3>3. Cardinality(D) = Cardinality(C) - 1
      BY <1>4, <3>1, <3>2, FS_RemoveElement
    <3>4. Cardinality(C) - 1 \in Nat /\ Cardinality(C) - 1 < Word
      <4>1. Cardinality(C) # 0
        BY <1>4, <3>5, FS_EmptySet
      <4> QED
        BY <1>4, <4>1, Modulo
    <3> QED
      BY <1>1, <2>2, <3>3, <3>4, Modulo DEF Subtracts
  <2>3. CASE ~(Enters(x, y) \/ Subtracts(x, y))
    <3>1. inflight' = inflight
      BY <2>3 DEF Kind, Plain, Comes, Misses, Readies, GivesUp, Claims, Writes, Walks, Works,
                  Looks, Pops, Makes, Pushes, Unmoved, Worn
    <3>2. ~Walks(x, y)
      BY <1>1 DEF Walks
    <3>3. Looks(x, y) => y.pc = "subtract"
      <4> SUFFICES ASSUME Looks(x, y)
                   PROVE  inflight # 0
        BY DEF Looks
      <4>1. C # {}
        BY DEF Looks, Counted
      <4> HIDE DEF C
      <4> QED
        BY <1>1, <1>4, <4>1, FS_EmptySet
    <3>4. Counted(r)' <=> Counted(r)
      BY <2>3, <3>2, <3>3 DEF Kind, Plain, Comes, Misses, Readies, GivesUp, Claims, Writes, Works,
                              Looks, Pops, Makes, Pushes, Counted
    <3>5. D = C
      BY <1>3, <3>4
    <3> QED
      BY <1>1, <3>1, <3>5
  <2> QED
    BY <2>1, <2>2, <2>3
<1>6. ASSUME NEW q \in Renders, rd'[q].pc \in {"enter", "using"}
      PROVE  ~slot'[rd'[q].slot].term
  <2>1. CASE q = r
    <3>1. Claims(x, y) \/ Enters(x, y) \/ Writes(x, y)
      BY <1>6, <2>1 DEF Kind, Plain, Comes, Misses, Readies, GivesUp, Walks, Works,
                        Looks, Subtracts, Pops, Makes, Pushes
    <3> QED
      BY <1>1, <2>1, <3>1 DEF Claims, Enters, Writes
  <2>2. CASE q # r
    <3>1. rd'[q] = rd[q] /\ OnSlot(q)
      BY <1>2, <1>6, <2>2 DEF OnSlot
    <3> QED
      BY <1>1, <1>6, <2>2, <3>1, OthersKeep
  <2> QED
    BY <2>1, <2>2
<1> QED
  BY <1>5, <1>6

LEMMA RenderSwept ==
  ASSUME Typed, Placed, Clean, Closed, Swept, NEW r \in Renders, Moves(r), Nudged,
         Kind(rd[r], rd'[r])
  PROVE  Swept'
<1> DEFINE x == rd[r]
           y == rd'[r]
<1>1. /\ shut'.pc = shut.pc /\ shut'.live = shut.live /\ shut'.swept = shut.swept
      /\ shut'.drained = shut.drained /\ Early' = Early
  BY NudgedKeeps
<1>2. ASSUME NEW s \in shut.swept, Upgradable(s)'
      PROVE  ~HasConn(s)'
  <2>1. s \in Slots /\ s \in shut.live
    BY DEF Swept, Typed, ShutRecs
  <2>2. CASE Makes(x, y)
    <3>1. s # y.slot /\ slot'[s] = slot[s] /\ idle' = idle
      BY <2>1, <2>2 DEF Makes, Unreferenced
    <3>2. Held(s)' => Held(s)
      BY <3>1 DEF Held
    <3>3. InHand(s)' => InHand(s)
      BY <3>1, HandsStay
    <3>4. Upgradable(s)
      BY <1>1, <1>2, <3>2, <3>3 DEF Upgradable
    <3> QED
      BY <3>1, <3>4 DEF Swept, HasConn
  <2>3. CASE ~Makes(x, y)
    <3>1. Descends
      BY <2>3, RenderDescends DEF Kind
    <3> QED
      BY <1>2, <2>1, <3>1, DescendsKeeps DEF Descends, Swept
  <2> QED
    BY <2>2, <2>3
<1> QED
  BY <1>1, <1>2 DEF Swept

(* A slot that is made is new; every other step wears the slots down. *)
LEMMA RenderClosed ==
  ASSUME Typed, Placed, Clean, Closed, NEW r \in Renders, Moves(r), Nudged,
         Kind(rd[r], rd'[r])
  PROVE  Clean' /\ Closed'
<1> DEFINE x == rd[r]
           y == rd'[r]
<1>1. CASE Makes(x, y)
  <2>1. /\ slot'[y.slot] = Fresh /\ Fresh.st = "idle" /\ ~Fresh.page /\ Fresh.closes = 0
        /\ Conn(slot'[y.slot])
    BY <1>1 DEF Makes, Fresh, Conn
  <2>2. ASSUME NEW u \in Slots, u # y.slot
        PROVE  slot'[u] = slot[u] /\ (Upgradable(u)' => Upgradable(u))
    <3>1. slot'[u] = slot[u] /\ idle' = idle
      BY <1>1, <2>2 DEF Makes
    <3>2. Held(u)' => Held(u)
      BY <3>1 DEF Held
    <3>3. InHand(u)' => InHand(u)
      BY <2>2, HandsStay
    <3> QED
      BY <3>1, <3>2, <3>3, NudgedKeeps DEF Upgradable
  <2>3. Clean'
    BY <2>1, <2>2 DEF Clean
  <2>4. Closed'
    <3> SUFFICES ASSUME NEW u \in Slots
                 PROVE  /\ HasConn(u)' => slot'[u].closes = 0
                        /\ Upgradable(u)' /\ ~HasConn(u)' => slot'[u].closes = 1
      BY DEF Closed
    <3>1. CASE u = y.slot
      BY <2>1, <3>1 DEF HasConn, Conn
    <3>2. CASE u # y.slot
      BY <2>2, <3>2 DEF Closed, HasConn
    <3> QED
      BY <3>1, <3>2
  <2> QED
    BY <2>3, <2>4
<1>2. CASE ~Makes(x, y)
  <2>1. Descends
    BY <1>2, RenderDescends DEF Kind
  <2> QED
    BY <2>1, DescendsKeeps
<1> QED
  BY <1>1, <1>2

LEMMA RenderKeepsInv ==
  ASSUME IInv, NEW r \in Renders, AcquireStep(r) \/ ReleaseStep(r)
  PROVE  IInv'
<1>1. Moves(r) /\ Kind(rd[r], rd'[r]) /\ Nudged
  BY AcquireKinds, ReleaseKinds DEF IInv
<1>2. Typed' /\ Placed' /\ Clean' /\ Closed'
  BY <1>1, RenderTyped, RenderPlaced, RenderClosed DEF IInv
<1>3. SlotIsPrivate' /\ Sized'
  BY <1>1, RenderPrivate, RenderSized DEF IInv
<1>4. Booked' /\ Swept'
  BY <1>1, RenderBooked, RenderSwept DEF IInv
<1> QED
  BY <1>2, <1>3, <1>4 DEF IInv

-----------------------------------------------------------------------------
(* The steps of shutdown. *)

Fells ==
  /\ Descends
  /\ rd' = rd
  /\ \A s \in Slots : slot'[s].page = slot[s].page
  /\ idle' = idle \/ idle' = << >>
  /\ shut' \in ShutRecs /\ late' \in BOOLEAN /\ inflight' \in 0..(Word - 1)
  /\ Early' => /\ Early /\ inflight' = inflight
               /\ \A s \in Slots : slot'[s].term = slot[s].term
  /\ shut'.pc = "take" => shut'.cur \in shut'.live

LEMMA FellsKeeps ==
  ASSUME IInv, Fells, Swept'
  PROVE  IInv'
<1>1. Typed'
  <2>1. idle' \in Seq(Slots)
    <3>1. idle \in Seq(Slots) /\ << >> \in Seq(Slots)
      BY DEF Typed, IInv
    <3>2. idle' = idle \/ idle' = << >>
      BY DEF Fells
    <3> QED
      BY <3>1, <3>2
  <2>2. slot' \in [ Slots -> SlotRecs ] /\ rd' \in [ Renders -> RenderRecs ]
    BY DEF Fells, Descends, Typed, IInv
  <2> QED
    BY <2>1, <2>2 DEF Fells, Typed
<1>2. Placed'
  BY DEF Fells, Placed, IInv, OnSlot
<1>3. Clean' /\ Closed' /\ Live' \subseteq Live
  BY DescendsKeeps DEF IInv, Fells
<1>4. SlotIsPrivate'
  <2>1. \A i, j \in 1..Len(idle') : idle'[i] = idle'[j] => i = j
    BY DEF Fells, IInv, SlotIsPrivate
  <2>2. rd' = rd /\ (\A s : Held(s)' => Held(s))
    BY DEF Fells, Held
  <2>3. \A r \in Renders : OnSlot(r) => slot'[rd[r].slot].page = slot[rd[r].slot].page
    BY DEF IInv, Placed, Fells
  <2> QED
    BY <2>1, <2>2, <2>3 DEF IInv, SlotIsPrivate, OnSlot
<1>5. Sized'
  <2>1. Making' = Making /\ Busy' = Busy
    BY DEF Fells, Making, Busy
  <2>2. IsFiniteSet(Live) /\ Cardinality(Live) + Cardinality(Making) <= Size
        /\ Cardinality(Busy) <= Size
    BY DEF IInv, Sized
  <2>3. IsFiniteSet(Live') /\ Cardinality(Live') <= Cardinality(Live)
        /\ Cardinality(Live') \in Nat /\ Cardinality(Live) \in Nat
    BY <1>3, <2>2, Smaller
  <2> QED
    BY <2>1, <2>2, <2>3, RenderSets, Constants DEF Sized
<1>6. Booked'
  <2>1. { r \in Renders : Counted(r) }' = { r \in Renders : Counted(r) }
    BY DEF Fells, Counted
  <2>2. \A r \in Renders : rd[r].pc \in {"enter", "using"} => rd[r].slot \in Slots
    BY DEF IInv, Placed, OnSlot
  <2> QED
    BY <2>1, <2>2 DEF Fells, IInv, Booked
<1> QED
  BY <1>1, <1>2, <1>3, <1>4, <1>5, <1>6 DEF IInv

(* A step of shutdown that touches neither the slots nor its lists. *)
LEMMA Quiet ==
  ASSUME Typed, Closed, UNCHANGED << slot, idle, rd >>,
         shut'.drained = shut.drained
  PROVE  Descends /\ \A s \in Slots : slot'[s].page = slot[s].page
<1>1. \A s \in Slots : Sane(slot[s])
  BY SlotsSane
<1>2. \A s \in Slots : Wears(slot[s], slot'[s])
  BY <1>1, SameWears
<1>3. slot' \in [ Slots -> SlotRecs ]
  BY DEF Typed
<1>4. \A s \in Slots : (Had(s)' => Had(s)) /\ (Upgradable(s)' => Upgradable(s))
  BY DEF Had, Held, InHand, Upgradable
<1> QED
  BY <1>2, <1>3, <1>4 DEF Descends

(* shutdown closes one slot, or only puts its terminator up. *)
LEMMA Strikes ==
  ASSUME Typed, Closed, NEW c \in Slots, NEW w, Wears(slot[c], w), w.page = slot[c].page,
         slot' = [ slot EXCEPT ![c] = w ], UNCHANGED << idle, rd >>,
         \A s \in Slots : Drained(s)' => Drained(s)
  PROVE  /\ Descends
         /\ \A s \in Slots : slot'[s].page = slot[s].page
         /\ slot'[c] = w
<1>0. w \in SlotRecs
  BY DEF Wears
<1>1. /\ slot' \in [ Slots -> SlotRecs ] /\ slot'[c] = w
      /\ \A u \in Slots \ {c} : slot'[u] = slot[u]
  BY <1>0, SlotChange
<1>2. \A s \in Slots : Wears(slot[s], slot[s])
  BY SlotsSane, SameWears
<1>3. \A s \in Slots : Wears(slot[s], slot'[s]) /\ slot'[s].page = slot[s].page
  BY <1>1, <1>2
<1>4. \A s \in Slots : (Had(s)' => Had(s)) /\ (Upgradable(s)' => Upgradable(s))
  BY DEF Had, Held, InHand, Upgradable, Drained
<1> QED
  BY <1>1, <1>3, <1>4 DEF Descends

ShutPcs == {"up", "drain", "subscribe", "waiting", "sweep", "closing", "force",
            "take", "load", "subtract", "down"}

LEMMA ShutMoves ==
  ASSUME Typed, NEW pc \in ShutPcs, ShutTo(pc)
  PROVE  /\ shut' \in ShutRecs /\ shut'.pc = pc
         /\ shut'.drained = shut.drained /\ shut'.live = shut.live
         /\ shut'.swept = shut.swept /\ shut'.cur = shut.cur
BY DEF Typed, ShutTo, ShutRecs, ShutPcs

(* Shutdown, its deadline and its wait for the renders. *)
LEMMA WaitingKeepsInv ==
  ASSUME IInv, Shutdown \/ Expire \/ Drain \/ Subscribe \/ Wake
  PROVE  IInv'
<1>1. Typed /\ Closed /\ Swept
  BY DEF IInv
<1>2. shut \in ShutRecs /\ late \in BOOLEAN
  BY <1>1 DEF Typed
<1>3. /\ UNCHANGED << slot, idle, inflight, rd >> /\ late' \in BOOLEAN
      /\ shut' \in ShutRecs /\ shut'.drained = shut.drained /\ shut'.live = shut.live
      /\ shut'.swept = shut.swept /\ shut'.cur = shut.cur
      /\ shut'.pc = shut.pc \/ (Early /\ shut'.pc \in {"drain", "sweep", "subscribe", "waiting"})
  <2>1. CASE Shutdown
    BY <1>1, <1>2, <2>1, ShutMoves DEF Shutdown, ShutPcs, Early
  <2>2. CASE Expire
    BY <1>2, <2>2 DEF Expire
  <2>3. CASE Drain
    BY <1>1, <1>2, <2>3, ShutMoves DEF Drain, ShutPcs, Early
  <2>4. CASE Subscribe
    BY <1>2, <2>4 DEF Subscribe, ShutRecs, Early
  <2>5. CASE Wake
    BY <1>2, <2>5 DEF Wake, ShutRecs, Early
  <2> QED
    BY <2>1, <2>2, <2>3, <2>4, <2>5
<1>4. Descends /\ \A s \in Slots : slot'[s].page = slot[s].page
  BY <1>1, <1>3, Quiet
<1>5. Early' => Early
  BY <1>3 DEF Early
<1>6. Fells
  BY <1>1, <1>3, <1>4, <1>5 DEF Fells, IInv, Placed, Typed
<1>7. Swept'
  <2>1. shut'.pc = "down" => shut.pc = "down"
    BY <1>3
  <2>2. \A s \in shut.swept : s \in Slots
    BY <1>2 DEF ShutRecs
  <2>3. \A s \in Slots : HasConn(s)' => HasConn(s)
    BY <1>3 DEF HasConn
  <2> QED
    BY <1>1, <1>3, <1>4, <1>5, <2>1, <2>2, <2>3 DEF Swept, Descends
<1> QED
  BY <1>6, <1>7, FellsKeeps

(* Phase 2: the free list is taken and what is on it closed. *)
LEMMA SweepIdleKeepsInv ==
  ASSUME IInv, SweepIdle
  PROVE  IInv'
<1>1. Typed /\ Closed /\ Swept /\ shut \in ShutRecs /\ idle \in Seq(Slots) /\ shut.pc = "sweep"
  BY DEF IInv, Typed, SweepIdle
<1>2. /\ shut' \in ShutRecs /\ shut'.pc = "closing" /\ shut'.drained = idle
      /\ shut'.live = shut.live /\ shut'.swept = shut.swept
  BY <1>1 DEF SweepIdle, ShutRecs
<1>3. UNCHANGED << slot, inflight, rd, late >> /\ idle' = << >>
  BY DEF SweepIdle
<1>4. Descends /\ \A s \in Slots : slot'[s].page = slot[s].page
  <2>1. \A s \in Slots : Wears(slot[s], slot'[s])
    BY <1>1, <1>3, SlotsSane, SameWears
  <2>2. \A s \in Slots : Had(s)' => Had(s)
    BY <1>3 DEF Had, Held, InHand
  <2>3. \A s \in Slots : Upgradable(s)' => Upgradable(s)
    BY <1>2, <1>3 DEF Upgradable, Held, InHand
  <2> QED
    BY <1>1, <1>3, <2>1, <2>2, <2>3 DEF Descends, Typed
<1>5. Fells
  BY <1>1, <1>2, <1>3, <1>4 DEF Fells, Typed, Early
<1>6. Swept'
  <2>1. \A s \in shut.swept : s \in Slots
    BY <1>1 DEF ShutRecs
  <2>2. \A s \in Slots : HasConn(s)' => HasConn(s)
    BY <1>3 DEF HasConn
  <2> QED
    BY <1>1, <1>2, <1>4, <2>1, <2>2 DEF Swept, Descends, Early
<1> QED
  BY <1>5, <1>6, FellsKeeps

LEMMA CloseIdleKeepsInv ==
  ASSUME IInv, CloseIdle
  PROVE  IInv'
<1> DEFINE c == Head(shut.drained)
           w == Taken(slot[c])
<1>1. /\ Typed /\ Closed /\ Swept /\ Clean /\ shut \in ShutRecs /\ shut.pc = "closing"
      /\ shut.drained # << >> /\ shut.drained \in Seq(Slots) /\ c \in Slots
  BY DEF IInv, Typed, CloseIdle, ShutRecs
<1>2. /\ shut' \in ShutRecs /\ shut'.pc = "closing" /\ shut'.drained = Tail(shut.drained)
      /\ shut'.live = shut.live /\ shut'.swept = shut.swept
  <2>1. Tail(shut.drained) \in Seq(Slots)
    BY <1>1, TailFacts
  <2> QED
    BY <1>1, <2>1 DEF CloseIdle, ShutRecs
<1>3. UNCHANGED << idle, inflight, rd, late >> /\ slot' = [ slot EXCEPT ![c] = w ]
  BY DEF CloseIdle
<1>4. Wears(slot[c], w) /\ w.page = slot[c].page /\ w.term = slot[c].term
  BY <1>1, SlotsSane, TakenWears
<1>5. \A s \in Slots : Drained(s)' => Drained(s)
  <2>1. \A i \in 1..Len(Tail(shut.drained)) :
          i + 1 \in 1..Len(shut.drained) /\ Tail(shut.drained)[i] = shut.drained[i + 1]
    BY <1>1, TailFacts
  <2> QED
    BY <1>2, <2>1 DEF Drained
<1> HIDE DEF c, w
<1>6. /\ Descends /\ slot'[c] = w
      /\ \A s \in Slots : slot'[s].page = slot[s].page
  BY <1>1, <1>3, <1>4, <1>5, Strikes
<1>7. \A s \in Slots : slot'[s].term = slot[s].term
  BY <1>1, <1>3, <1>4 DEF Typed
<1>8. Fells
  BY <1>1, <1>2, <1>3, <1>6, <1>7 DEF Fells, Typed, Early
<1>9. Swept'
  BY <1>1, <1>2 DEF Swept, Early
<1> QED
  BY <1>8, <1>9, FellsKeeps

LEMMA ListLiveKeepsInv ==
  ASSUME IInv, ListLive
  PROVE  IInv'
<1>1. /\ Typed /\ Closed /\ Swept /\ shut \in ShutRecs /\ shut.pc = "closing"
      /\ shut.swept = {}
  BY DEF IInv, Typed, ListLive, Swept, Early
<1>2. Registered \in SUBSET Slots
  BY DEF Registered
<1>3. /\ shut' \in ShutRecs /\ shut'.pc = "force" /\ shut'.drained = shut.drained
      /\ shut'.swept = {}
  BY <1>1, <1>2 DEF ListLive, ShutRecs
<1>4. UNCHANGED << slot, idle, inflight, rd, late >>
  BY DEF ListLive
<1>5. Descends /\ \A s \in Slots : slot'[s].page = slot[s].page
  BY <1>1, <1>3, <1>4, Quiet
<1>6. Fells
  BY <1>1, <1>3, <1>4, <1>5 DEF Fells, Typed, Early
<1>7. Swept'
  BY <1>3 DEF Swept
<1> QED
  BY <1>6, <1>7, FellsKeeps

(* Phase 3: the terminator of a listed slot goes up, and its connection out.  *)
LEMMA ForceTerminateKeepsInv ==
  ASSUME IInv, NEW s \in Slots, ForceTerminate(s)
  PROVE  IInv'
<1>1. /\ Typed /\ Closed /\ Swept /\ shut \in ShutRecs /\ shut.pc = "force"
      /\ s \in shut.live /\ slot[s].term \in BOOLEAN
      /\ UNCHANGED << idle, inflight, rd, late >>
  BY DEF IInv, Typed, ForceTerminate, SlotRecs
<1>2. CASE Upgradable(s)
  <2> DEFINE w == [ slot[s] EXCEPT !.term = TRUE ]
  <2>a. shut' = [ shut EXCEPT !.pc = "take", !.cur = s, !.own = ~slot[s].term ]
    BY <1>2 DEF ForceTerminate
  <2>1. /\ shut' \in ShutRecs /\ shut'.pc = "take" /\ shut'.drained = shut.drained
        /\ shut'.live = shut.live /\ shut'.swept = shut.swept /\ shut'.cur = s
    BY <1>1, <2>a DEF ShutRecs
  <2>2. slot' = [ slot EXCEPT ![s] = w ]
    BY <1>2 DEF ForceTerminate
  <2>3. Wears(slot[s], w) /\ w.page = slot[s].page
    <3>1. Sane(slot[s])
      BY <1>1, SlotsSane
    <3> QED
      BY <3>1, TermWears DEF Sane, SlotRecs
  <2> HIDE DEF w
  <2>4. /\ Descends
        /\ \A u \in Slots : slot'[u].page = slot[u].page
    BY <1>1, <2>1, <2>2, <2>3, Strikes DEF Drained
  <2>5. Fells
    BY <1>1, <2>1, <2>4 DEF Fells, Typed, Early
  <2>6. \A u \in Slots : (HasConn(u)' => HasConn(u)) /\ (Upgradable(u)' => Upgradable(u))
    BY <2>4, DescendsKeeps DEF Descends, IInv
  <2>7. Swept'
    BY <1>1, <2>1, <2>6 DEF Swept, Early, ShutRecs
  <2> QED
    BY <2>5, <2>7, FellsKeeps
<1>3. CASE ~Upgradable(s)
  <2>1. /\ shut' \in ShutRecs /\ shut'.pc = "force" /\ shut'.drained = shut.drained
        /\ shut'.live = shut.live /\ shut'.swept = shut.swept \cup {s}
    BY <1>1, <1>3 DEF ForceTerminate, ShutRecs
  <2>2. slot' = slot
    BY <1>3 DEF ForceTerminate
  <2>3. /\ Descends
        /\ \A u \in Slots : slot'[u].page = slot[u].page
    BY <1>1, <2>1, <2>2, Quiet
  <2>4. Fells
    BY <1>1, <2>1, <2>3 DEF Fells, Typed, Early
  <2>5. \A u \in Slots : (HasConn(u)' => HasConn(u)) /\ (Upgradable(u)' => Upgradable(u))
    BY <2>3, DescendsKeeps DEF Descends, IInv
  <2>6. Swept'
    BY <1>1, <1>3, <2>1, <2>5 DEF Swept, Early, ShutRecs
  <2> QED
    BY <2>4, <2>6, FellsKeeps
<1> QED
  BY <1>2, <1>3

LEMMA ForceCloseKeepsInv ==
  ASSUME IInv, ForceClose
  PROVE  IInv'
<1> DEFINE c == shut.cur
           w == Taken(slot[c])
<1>1. /\ Typed /\ Closed /\ Swept /\ shut \in ShutRecs /\ shut.pc = "take"
      /\ c \in shut.live /\ c \in Slots
      /\ UNCHANGED << idle, inflight, rd, late >>
      /\ slot' = [ slot EXCEPT ![c] = w ]
  BY DEF IInv, Typed, Placed, ForceClose, ShutRecs
<1>2. /\ shut' \in ShutRecs /\ shut'.pc \in {"load", "force"} /\ shut'.drained = shut.drained
      /\ shut'.live = shut.live /\ shut'.swept = shut.swept \cup {c}
  BY <1>1 DEF ForceClose, ShutRecs
<1>3. Wears(slot[c], w) /\ w.page = slot[c].page /\ ~Conn(w)
  BY <1>1, SlotsSane, TakenWears
<1> HIDE DEF c, w
<1>4. /\ Descends /\ slot'[c] = w
      /\ \A u \in Slots : slot'[u].page = slot[u].page
  BY <1>1, <1>2, <1>3, Strikes DEF Drained
<1>5. Fells
  BY <1>1, <1>2, <1>4 DEF Fells, Typed, Early
<1>6. \A u \in Slots : (HasConn(u)' => HasConn(u)) /\ (Upgradable(u)' => Upgradable(u))
  BY <1>4, DescendsKeeps DEF Descends, IInv
<1>7. Swept'
  BY <1>1, <1>2, <1>3, <1>4, <1>6 DEF Swept, Early, ShutRecs, HasConn, Conn
<1> QED
  BY <1>5, <1>7, FellsKeeps

LEMMA ForceBooksKeepInv ==
  ASSUME IInv, ForceLoad \/ ForceSubtract
  PROVE  IInv'
<1>1. Typed /\ Closed /\ Swept /\ shut \in ShutRecs /\ inflight \in Int
  BY DEF IInv, Typed
<1>2. /\ UNCHANGED << slot, idle, rd, late >>
      /\ shut' \in ShutRecs /\ shut'.drained = shut.drained /\ shut'.live = shut.live
      /\ shut'.swept = shut.swept
      /\ shut'.pc \in {"subtract", "force"}
  BY <1>1, ShutMoves DEF ForceLoad, ForceSubtract, ShutPcs
<1>3. inflight' \in 0..(Word - 1)
  <2>1. inflight' = inflight \/ inflight' = (inflight - 1) % Word
    BY DEF ForceLoad, ForceSubtract
  <2>2. (inflight - 1) % Word \in 0..(Word - 1)
    BY <1>1, Wraps
  <2> QED
    BY <1>1, <2>1, <2>2 DEF Typed
<1>4. Descends /\ \A s \in Slots : slot'[s].page = slot[s].page
  BY <1>1, <1>2, Quiet
<1>5. Fells
  BY <1>1, <1>2, <1>3, <1>4 DEF Fells, Typed, Early
<1>6. \A u \in Slots : (HasConn(u)' => HasConn(u)) /\ (Upgradable(u)' => Upgradable(u))
  BY <1>4, DescendsKeeps DEF Descends, IInv
<1>7. Swept'
  BY <1>1, <1>2, <1>6 DEF Swept, Early, ShutRecs
<1> QED
  BY <1>5, <1>7, FellsKeeps

(* Phase 4: the free list is emptied once more. *)
LEMMA ClearIdleKeepsInv ==
  ASSUME IInv, ClearIdle
  PROVE  IInv'
<1>1. /\ Typed /\ Closed /\ Swept /\ shut \in ShutRecs /\ shut.swept = shut.live
      /\ UNCHANGED << slot, inflight, rd, late >> /\ idle' = << >>
  BY DEF IInv, Typed, ClearIdle
<1>2. /\ shut' \in ShutRecs /\ shut'.drained = shut.drained /\ shut'.live = shut.live
      /\ shut'.swept = shut.swept /\ shut'.pc = "down"
  BY <1>1, ShutMoves DEF ClearIdle, ShutPcs
<1>3. Descends /\ \A s \in Slots : slot'[s].page = slot[s].page
  <2>1. \A s \in Slots : Wears(slot[s], slot'[s])
    BY <1>1, SlotsSane, SameWears
  <2>2. \A s \in Slots : (Had(s)' => Had(s)) /\ (Upgradable(s)' => Upgradable(s))
    BY <1>1, <1>2 DEF Had, Held, InHand, Upgradable
  <2> QED
    BY <1>1, <2>1, <2>2 DEF Descends, Typed
<1>4. Fells
  BY <1>1, <1>2, <1>3 DEF Fells, Typed, Early
<1>5. \A u \in Slots : (HasConn(u)' => HasConn(u)) /\ (Upgradable(u)' => Upgradable(u))
  BY <1>3, DescendsKeeps DEF Descends, IInv
<1>6. Swept'
  BY <1>1, <1>2, <1>5 DEF Swept, Early, ShutRecs
<1> QED
  BY <1>4, <1>6, FellsKeeps

-----------------------------------------------------------------------------

LEMMA InitInv == Init => IInv
<1> SUFFICES ASSUME Init
             PROVE  IInv
  OBVIOUS
<1>1. Typed
  <2>1. Unmade \in SlotRecs
    <3>1. Fresh \in SlotRecs
      BY DEF Fresh, SlotRecs
    <3>2. \A x \in SlotRecs : [ x EXCEPT !.st = "closing" ] \in SlotRecs
      BY DEF SlotRecs
    <3> QED
      BY <3>1, <3>2 DEF Unmade
  <2>2. Outside \in RenderRecs
    BY Constants DEF Outside, RenderRecs
  <2>3. 0 \in 0..(Word - 1)
    BY Constants
  <2>4. shut \in ShutRecs
    <3>1. << >> \in Seq(Slots) /\ {} \in SUBSET Slots
      OBVIOUS
    <3> QED
      BY <3>1 DEF Init, ShutRecs
  <2>5. slot \in [ Slots -> SlotRecs ]
    BY <2>1 DEF Init
  <2>6. rd \in [ Renders -> RenderRecs ]
    BY <2>2 DEF Init
  <2>7. idle \in Seq(Slots)
    <3>1. << >> \in Seq(Slots)
      OBVIOUS
    <3> QED
      BY <3>1 DEF Init
  <2>8. inflight \in 0..(Word - 1) /\ late \in BOOLEAN
    BY <2>3 DEF Init
  <2> QED
    BY <2>4, <2>5, <2>6, <2>7, <2>8 DEF Typed
<1>2. \A r \in Renders : rd[r].pc = "away" /\ rd[r].slot = None
  BY DEF Init, Outside
<1>3. \A s \in Slots : ~Upgradable(s) /\ ~Held(s) /\ ~InHand(s)
  <2>1. Len(idle) = 0 /\ Len(shut.drained) = 0
    BY DEF Init
  <2> QED
    BY <1>2, <2>1, Constants DEF Upgradable, Held, InHand
<1>4. \A s \in Slots : ~HasConn(s) /\ slot[s].st = "closing"
  BY DEF Init, Unmade, Fresh, HasConn
<1>5. Placed /\ Clean /\ Closed /\ Swept
  BY <1>2, <1>3, <1>4 DEF Placed, Clean, Closed, Swept, OnSlot, Init
<1>6. SlotIsPrivate
  BY <1>2 DEF SlotIsPrivate, OnSlot, Init
<1>7. Sized
  <2>1. Live = {} /\ Making = {} /\ Busy = {}
    BY <1>2, <1>3 DEF Live, Making, Busy
  <2> QED
    BY <2>1, FS_EmptySet, Constants DEF Sized
<1>8. Booked
  <2>1. { r \in Renders : Counted(r) } = {}
    BY <1>2 DEF Counted
  <2> QED
    BY <1>2, <2>1, FS_EmptySet DEF Booked, Init
<1> QED
  BY <1>1, <1>5, <1>6, <1>7, <1>8 DEF IInv

LEMMA NextInv == IInv /\ [Next]_vars => IInv'
<1> SUFFICES ASSUME IInv, [Next]_vars
             PROVE  IInv'
  OBVIOUS
<1>1. CASE \E r \in Renders : AcquireStep(r) \/ ReleaseStep(r)
  BY <1>1, RenderKeepsInv
<1>2. CASE Shutdown \/ Expire
  BY <1>2, WaitingKeepsInv
<1>3. CASE ShutdownStep
  BY <1>3, WaitingKeepsInv, SweepIdleKeepsInv, CloseIdleKeepsInv, ListLiveKeepsInv,
     ForceTerminateKeepsInv, ForceCloseKeepsInv, ForceBooksKeepInv, ClearIdleKeepsInv
     DEF ShutdownStep
<1>4. CASE UNCHANGED vars
  <2>1. /\ Unmoved /\ UNCHANGED << rd, shut, late >>
    BY <1>4 DEF vars, Unmoved
  <2> QED
    BY <2>1 DEF IInv, Typed, Placed, SlotIsPrivate, Clean, Closed, Sized, Booked, Swept,
                Unmoved, OnSlot, Held, InHand, HasConn, Upgradable, Live, Making, Busy, Counted,
                Early
<1> QED
  BY <1>1, <1>2, <1>3, <1>4 DEF Next

(* The inductive invariant. *)
THEOREM Inductive == Spec => []IInv
<1> QED
  BY InitInv, NextInv, PTL DEF Spec

(* A slot has one owner at a time and is handed out without the page of        *)
(* another render; no more connections than size.                              *)
THEOREM PoolSound == Spec => []PoolIsSound
<1>1. IInv => PoolIsSound
  <2> SUFFICES ASSUME IInv
               PROVE  PoolIsSound
    OBVIOUS
  <2>1. TypeOK
    <3>1. slot \in [ Slots -> SlotRecs ] /\ rd \in [ Renders -> RenderRecs ] /\ shut \in ShutRecs
          /\ idle \in Seq(Slots) /\ inflight \in 0..(Word - 1) /\ late \in BOOLEAN
      BY DEF IInv, Typed
    <3>2. \A i \in 1..Len(idle) : idle[i] \in Slots
      BY <3>1
    <3>3. shut.swept \subseteq shut.live
      BY DEF IInv, Swept
    <3> QED
      BY <3>1, <3>2, <3>3 DEF TypeOK, SlotRecs, RenderRecs, ShutRecs
  <2>2. WithinSize
    BY DEF IInv, Sized, WithinSize, Live, Making
  <2> QED
    BY <2>1, <2>2 DEF PoolIsSound, IInv
<1> QED
  BY <1>1, Inductive, PTL

(* A connection taken out of its slot is closed by the one who took it, and by *)
(* nobody again.                                                               *)
THEOREM ClosedOnce == Spec => []ClosedExactlyOnce
<1>1. IInv => ClosedExactlyOnce
  BY DEF IInv, Closed, ClosedExactlyOnce
<1> QED
  BY <1>1, Inductive, PTL

(* The counter is the number of renders on a slot until shutdown keeps the     *)
(* books of others.                                                            *)
THEOREM InflightTrue == Spec => []InflightAgrees
<1>1. IInv => InflightAgrees
  BY DEF IInv, Booked, Early, InflightAgrees
<1> QED
  BY <1>1, Inductive, PTL

(* When shutdown returns, every slot it listed is closed. *)
THEOREM SweepComplete == Spec => []SweepIsComplete
<1>1. IInv => SweepIsComplete
  BY DEF IInv, Swept, SweepIsComplete
<1> QED
  BY <1>1, Inductive, PTL
=============================================================================
