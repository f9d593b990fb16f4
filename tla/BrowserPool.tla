----------------------------- MODULE BrowserPool -----------------------------
(***************************************************************************)
(* browser_pool.rs: a bounded pool of warm browser connections.  A slot has *)
(* one connection for life and a browser context that is thrown away and    *)
(* made anew between two renders.  A render, the drop of its guard and       *)
(* shutdown() race for a slot; the terminator flag of the slot decides who   *)
(* keeps the books, its mutex who gets the connection.  Each action below is *)
(* what one task does under one lock, or between two awaits.                 *)
(***************************************************************************)
EXTENDS Integers, Sequences, FiniteSets

CONSTANTS
  Renders,   \* tasks that render through the pool
  Slots,     \* identities of slots
  Size,      \* PoolCfg::size
  LastTry,   \* the last round of acquire's loop (2)
  Word,      \* 2^w, w the width of the counter inflight
  None       \* no slot

ASSUME PoolAssumption ==
  /\ Size \in Nat \ {0}
  /\ LastTry \in Nat
  /\ IsFiniteSet(Renders)
  /\ Word \in Nat /\ Word > Cardinality(Renders) + 1
  /\ None \notin Slots

VARIABLES
  slot,      \* each slot: its state, its terminator, whether a page is on it
  idle,      \* the free list
  inflight,  \* renders counted as being on a slot
  rd,        \* where each render stands in acquire, its guard and release
  shut,      \* where shutdown() stands
  late       \* the drain deadline of shutdown() has passed

vars == << slot, idle, inflight, rd, shut, late >>

(* page: a render has recorded a page on the context.  closes: how often the *)
(* slot's connection was closed.                                              *)
Fresh == [ st |-> "idle", term |-> FALSE, page |-> FALSE, closes |-> 0 ]
Unmade == [ Fresh EXCEPT !.st = "closing" ]

(* A render has its permit from the moment acquire has it to the end. *)
Outside == [ pc |-> "away", slot |-> None, tries |-> 0 ]

HasConn(s) == slot[s].st \in {"idle", "out", "recycling", "buried"}

(* Mutant: the connection is cloned out of the slot and stays in it. *)
MutTaken(x) == IF x.st \in {"idle", "out", "recycling", "buried"} THEN [ x EXCEPT !.closes = @ + 1 ] ELSE x

(* PooledSlot::take_conn, by the one who closes what it takes. *)
Taken(x) ==
  IF x.st \in {"idle", "out", "recycling"}
  THEN [ x EXCEPT !.st = "closing", !.closes = @ + 1 ]
  ELSE IF x.st = "buried" THEN [ x EXCEPT !.st = "dead", !.closes = @ + 1 ]
  ELSE x

Held(s) == \E i \in 1..Len(idle) : idle[i] = s
InHand(s) == \E r \in Renders : rd[r].slot = s
Upgradable(s) ==
  \/ Held(s)
  \/ InHand(s)
  \/ \E i \in 1..Len(shut.drained) : shut.drained[i] = s

(* Nobody has the slot, and the list that shutdown walked does not name it. *)
Unreferenced(s) == ~Upgradable(s) /\ s \notin shut.live

Free == Cardinality({ r \in Renders : rd[r].pc # "away" }) < Size

Goto(r, pc) == rd' = [ rd EXCEPT ![r].pc = pc ]
Leave(r) == rd' = [ rd EXCEPT ![r] = Outside ]

(* Next round of the loop of acquire, or the last one was it. *)
Retry(r) ==
  IF rd[r].tries < LastTry
  THEN rd' = [ rd EXCEPT ![r].pc = "seek", ![r].slot = None, ![r].tries = @ + 1 ]
  ELSE Leave(r)

(* notify_waiters reaches shutdown only if it already waits. *)
Notified == [ shut EXCEPT !.woken = @ \/ shut.pc = "waiting" ]

-----------------------------------------------------------------------------

Init ==
  /\ slot = [ s \in Slots |-> Unmade ]
  /\ idle = << >>
  /\ inflight = 0
  /\ rd = [ r \in Renders |-> Outside ]
  /\ shut = [ pc |-> "up", drained |-> << >>, live |-> {}, swept |-> {}, cur |-> None,
              own |-> FALSE, woken |-> FALSE ]
  /\ late = FALSE

(* acquire: a permit, unless the semaphore is closed. *)
Acquire(r) ==
  /\ rd[r].pc = "away" /\ shut.pc = "up" /\ Free
  /\ rd' = [ rd EXCEPT ![r] = [ Outside EXCEPT !.pc = "seek" ] ]
  /\ UNCHANGED << slot, idle, inflight, shut, late >>

(* The head of the free list, or a slot to be made.  A slot that lay idle    *)
(* for long is asked first whether its browser still answers.                *)
Pop(r) ==
  /\ rd[r].pc = "seek" /\ idle # << >>
  /\ \E stale \in BOOLEAN :
       rd' = [ rd EXCEPT ![r].pc = IF stale THEN "check" ELSE "claim", ![r].slot = Head(idle) ]
  /\ idle' = Tail(idle)
  /\ UNCHANGED << slot, inflight, shut, late >>

PopNothing(r) ==
  /\ rd[r].pc = "seek" /\ idle = << >>
  /\ Goto(r, "make")
  /\ UNCHANGED << slot, idle, inflight, shut, late >>

Healthy(r) ==
  /\ rd[r].pc = "check"
  /\ Goto(r, "claim")
  /\ UNCHANGED << slot, idle, inflight, shut, late >>

Sick(r) ==
  /\ rd[r].pc = "check"
  /\ slot' = [ slot EXCEPT ![rd[r].slot] = Taken(@) ]
  /\ Retry(r)
  /\ UNCHANGED << idle, inflight, shut, late >>

Make(r) ==
  /\ rd[r].pc = "make"
  /\ \E s \in Slots : Unreferenced(s)
  /\ LET s == CHOOSE s \in Slots : Unreferenced(s) IN
       /\ slot' = [ slot EXCEPT ![s] = Fresh ]
       /\ rd' = [ rd EXCEPT ![r].pc = "claim", ![r].slot = s ]
  /\ UNCHANGED << idle, inflight, shut, late >>

MakeFails(r) ==
  /\ rd[r].pc = "make"
  /\ Leave(r)
  /\ UNCHANGED << slot, idle, inflight, shut, late >>

(* Idle to CheckedOut, under the mutex; shutdown may have been there first. *)
Claimable(s) == slot[s].st = "idle"

Claim(r) ==
  LET s == rd[r].slot IN
  /\ rd[r].pc = "claim"
  /\ IF Claimable(s)
     THEN /\ slot' = [ slot EXCEPT ![s].st = "out", ![s].term = FALSE ]
          /\ rd' = [ rd EXCEPT ![r].pc = "enter", ![r].tries = 0 ]
     ELSE Retry(r) /\ UNCHANGED slot
  /\ UNCHANGED << idle, inflight, shut, late >>

Enter(r) ==
  /\ rd[r].pc = "enter"
  /\ inflight' = (inflight + 1) % Word
  /\ Goto(r, "using")
  /\ UNCHANGED << slot, idle, shut, late >>

(* The render has a page; it is recorded unless shutdown has taken the slot. *)
RecordTarget(r) ==
  LET s == rd[r].slot IN
  /\ rd[r].pc = "using" /\ slot[s].st = "out"
  /\ slot' = [ slot EXCEPT ![s].page = TRUE ]
  /\ UNCHANGED << idle, inflight, rd, shut, late >>

-----------------------------------------------------------------------------
(* release and the drop of a guard *)

(* Who sets the terminator keeps the books; who finds it set walks away. *)
Terminate(r, won) ==
  LET s == rd[r].slot IN
  /\ rd[r].pc = "using"
  /\ IF slot[s].term
     THEN Leave(r) /\ UNCHANGED slot
     ELSE Goto(r, won) /\ slot' = [ slot EXCEPT ![s].term = TRUE ]
  /\ UNCHANGED << idle, inflight, shut, late >>

Release(r) == Terminate(r, "mark")
DropGuard(r) == Terminate(r, "drop")

(* Under the mutex a state may have become another: then only the books are  *)
(* left to do.                                                                *)
Advance(r, from, st, pc) ==
  LET s == rd[r].slot IN
  IF slot[s].st = from
  THEN slot' = [ slot EXCEPT ![s].st = st ] /\ Goto(r, pc)
  ELSE UNCHANGED slot /\ Goto(r, "load")

Mark(r) ==
  /\ rd[r].pc = "mark"
  /\ Advance(r, "out", "recycling", "closing")
  /\ UNCHANGED << idle, inflight, shut, late >>

(* closeTarget (if there is a target), disposeBrowserContext and             *)
(* createBrowserContext; the first that fails or times out costs the slot.    *)
CloseTarget(r) ==
  /\ rd[r].pc = "closing"
  /\ Advance(r, "recycling", "recycling", "disposing")
  /\ UNCHANGED << idle, inflight, shut, late >>

DisposeContext(r) ==
  /\ rd[r].pc = "disposing"
  /\ Advance(r, "recycling", "recycling", "creating")
  /\ UNCHANGED << idle, inflight, shut, late >>

(* Mutant: the slot goes back with the context of the last render. *)
MutRenewed(x) == [ x EXCEPT !.st = "idle" ]

Renewed(x) == [ x EXCEPT !.st = "idle", !.page = FALSE ]

CreateContext(r) ==
  LET s == rd[r].slot IN
  /\ rd[r].pc = "creating"
  /\ IF slot[s].st = "recycling"
     THEN slot' = [ slot EXCEPT ![s] = Renewed(@) ] /\ Goto(r, "push")
     ELSE UNCHANGED slot /\ Goto(r, "load")
  /\ UNCHANGED << idle, inflight, shut, late >>

RecycleFails(r) ==
  /\ \/ rd[r].pc = "closing" /\ slot[rd[r].slot].page
     \/ rd[r].pc \in {"disposing", "creating"}
  /\ Advance(r, "recycling", "buried", "bury")
  /\ UNCHANGED << idle, inflight, shut, late >>

Bury(r) ==
  /\ rd[r].pc = "bury"
  /\ slot' = [ slot EXCEPT ![rd[r].slot] = Taken(@) ]
  /\ Goto(r, "load")
  /\ UNCHANGED << idle, inflight, shut, late >>

Push(r) ==
  /\ rd[r].pc = "push"
  /\ idle' = Append(idle, rd[r].slot)
  /\ shut' = Notified
  /\ Goto(r, "load")
  /\ UNCHANGED << slot, inflight, late >>

(* The rest of a guard's drop: its connection goes to a reaper. *)
Dropped(x) ==
  IF x.st \in {"out", "recycling"} THEN [ x EXCEPT !.st = "dead", !.closes = @ + 1 ] ELSE x

(* Mutant: a guard that is dropped does not count itself off. *)
MutDropSlot(r) ==
  /\ rd[r].pc = "drop"
  /\ slot' = [ slot EXCEPT ![rd[r].slot] = Dropped(@) ]
  /\ Leave(r)
  /\ UNCHANGED << idle, inflight, shut, late >>

DropSlot(r) ==
  /\ rd[r].pc = "drop"
  /\ slot' = [ slot EXCEPT ![rd[r].slot] = Dropped(@) ]
  /\ Goto(r, "load")
  /\ UNCHANGED << idle, inflight, shut, late >>

(* dec_inflight_and_notify reads, then subtracts.  The permit goes with it. *)
Load(r) ==
  /\ rd[r].pc = "load"
  /\ IF inflight > 0
     THEN Goto(r, "subtract") /\ UNCHANGED shut
     ELSE Leave(r) /\ shut' = Notified
  /\ UNCHANGED << slot, idle, inflight, late >>

Subtract(r) ==
  /\ rd[r].pc = "subtract"
  /\ inflight' = (inflight - 1) % Word
  /\ shut' = Notified
  /\ Leave(r)
  /\ UNCHANGED << slot, idle, late >>

(* The task is dropped at an await: in acquire it forgets the slot it had    *)
(* popped, in release only the books are kept.                                *)
Cancel(r) ==
  /\ rd[r].pc \in {"check", "make", "closing", "disposing", "creating"}
  /\ IF rd[r].pc \in {"check", "make"}
     THEN Leave(r)
     ELSE rd' = [ rd EXCEPT ![r].pc = "load", ![r].slot = None ]
  /\ UNCHANGED << slot, idle, inflight, shut, late >>

-----------------------------------------------------------------------------
(* shutdown *)

ShutTo(pc) == shut' = [ shut EXCEPT !.pc = pc ]

Shutdown ==
  /\ shut.pc = "up"
  /\ ShutTo("drain")
  /\ UNCHANGED << slot, idle, inflight, rd, late >>

Expire ==
  /\ shut.pc # "up" /\ ~late
  /\ late' = TRUE
  /\ UNCHANGED << slot, idle, inflight, rd, shut >>

(* Phase 1 waits for the renders: it reads inflight, then subscribes. *)
Drain ==
  /\ shut.pc = "drain"
  /\ ShutTo(IF inflight = 0 \/ late THEN "sweep" ELSE "subscribe")
  /\ UNCHANGED << slot, idle, inflight, rd, late >>

Subscribe ==
  /\ shut.pc = "subscribe"
  /\ shut' = [ shut EXCEPT !.pc = "waiting", !.woken = FALSE ]
  /\ UNCHANGED << slot, idle, inflight, rd, late >>

(* Mutant: the wait for a notification has no deadline. *)
MutWaitIsOver == shut.woken

WaitIsOver == shut.woken \/ late

Wake ==
  /\ shut.pc = "waiting" /\ WaitIsOver
  /\ shut' = [ shut EXCEPT !.pc = "drain", !.woken = FALSE ]
  /\ UNCHANGED << slot, idle, inflight, rd, late >>

(* Phase 2 takes the free list and closes what is on it. *)
SweepIdle ==
  /\ shut.pc = "sweep"
  /\ shut' = [ shut EXCEPT !.pc = "closing", !.drained = idle ]
  /\ idle' = << >>
  /\ UNCHANGED << slot, inflight, rd, late >>

CloseIdle ==
  /\ shut.pc = "closing" /\ shut.drained # << >>
  /\ slot' = [ slot EXCEPT ![Head(shut.drained)] = Taken(@) ]
  /\ shut' = [ shut EXCEPT !.drained = Tail(@) ]
  /\ UNCHANGED << idle, inflight, rd, late >>

(* Phase 3 walks every slot somebody still has. *)
Registered == { s \in Slots : Upgradable(s) }

ListLive ==
  /\ shut.pc = "closing" /\ shut.drained = << >>
  /\ shut' = [ shut EXCEPT !.pc = "force", !.live = Registered ]
  /\ UNCHANGED << slot, idle, inflight, rd, late >>

ForceTerminate(s) ==
  /\ shut.pc = "force" /\ s \in shut.live \ shut.swept
  /\ IF Upgradable(s)
     THEN /\ shut' = [ shut EXCEPT !.pc = "take", !.cur = s, !.own = ~slot[s].term ]
          /\ slot' = [ slot EXCEPT ![s].term = TRUE ]
     ELSE /\ shut' = [ shut EXCEPT !.swept = @ \cup {s} ]
          /\ UNCHANGED slot
  /\ UNCHANGED << idle, inflight, rd, late >>

(* Mutant: who does not keep the books of a slot leaves it to its release. *)
MutForceClose ==
  /\ shut.pc = "take"
  /\ slot' = IF shut.own THEN [ slot EXCEPT ![shut.cur] = Taken(@) ] ELSE slot
  /\ shut' = [ shut EXCEPT !.pc = IF shut.own THEN "load" ELSE "force",
                           !.swept = @ \cup {shut.cur}, !.cur = None, !.own = FALSE ]
  /\ UNCHANGED << idle, inflight, rd, late >>

ForceClose ==
  /\ shut.pc = "take"
  /\ slot' = [ slot EXCEPT ![shut.cur] = Taken(@) ]
  /\ shut' = [ shut EXCEPT !.pc = IF shut.own THEN "load" ELSE "force",
                           !.swept = @ \cup {shut.cur}, !.cur = None, !.own = FALSE ]
  /\ UNCHANGED << idle, inflight, rd, late >>

ForceLoad ==
  /\ shut.pc = "load"
  /\ ShutTo(IF inflight > 0 THEN "subtract" ELSE "force")
  /\ UNCHANGED << slot, idle, inflight, rd, late >>

ForceSubtract ==
  /\ shut.pc = "subtract"
  /\ inflight' = (inflight - 1) % Word
  /\ ShutTo("force")
  /\ UNCHANGED << slot, idle, rd, late >>

(* Phase 4 clears what a late release has pushed meanwhile. *)
ClearIdle ==
  /\ shut.pc = "force" /\ shut.swept = shut.live
  /\ idle' = << >>
  /\ ShutTo("down")
  /\ UNCHANGED << slot, inflight, rd, late >>

-----------------------------------------------------------------------------

AcquireStep(r) ==
  \/ Acquire(r) \/ Pop(r) \/ PopNothing(r) \/ Healthy(r) \/ Sick(r)
  \/ Make(r) \/ MakeFails(r) \/ Claim(r) \/ Enter(r) \/ RecordTarget(r)

ReleaseStep(r) ==
  \/ Release(r) \/ DropGuard(r) \/ Mark(r) \/ CloseTarget(r) \/ DisposeContext(r)
  \/ CreateContext(r) \/ RecycleFails(r) \/ Bury(r) \/ Push(r) \/ DropSlot(r)
  \/ Load(r) \/ Subtract(r) \/ Cancel(r)

ShutdownStep ==
  \/ Drain \/ Subscribe \/ Wake \/ SweepIdle \/ CloseIdle \/ ListLive
  \/ (\E s \in Slots : ForceTerminate(s)) \/ ForceClose \/ ForceLoad
  \/ ForceSubtract \/ ClearIdle

Next ==
  \/ \E r \in Renders : AcquireStep(r) \/ ReleaseStep(r)
  \/ Shutdown \/ Expire \/ ShutdownStep

(* The task that shuts the pool down is scheduled, and its timers fire. *)
Fairness == WF_vars(ShutdownStep) /\ WF_vars(Expire)

Spec == Init /\ [][Next]_vars /\ Fairness

-----------------------------------------------------------------------------

(* The type of every variable. *)
TypeOK ==
  /\ slot \in [ Slots ->
       [ st : {"idle", "out", "recycling", "buried", "dead", "closing"},
         term : BOOLEAN, page : BOOLEAN, closes : 0..1 ] ]
  /\ \A i \in 1..Len(idle) : idle[i] \in Slots
  /\ inflight \in 0..(Word - 1)
  /\ rd \in [ Renders ->
       [ pc : {"away", "seek", "check", "make", "claim", "enter", "using", "mark",
               "closing", "disposing", "creating", "bury", "push", "drop",
               "load", "subtract"},
         slot : Slots \cup {None}, tries : 0..LastTry ] ]
  /\ shut.pc \in {"up", "drain", "subscribe", "waiting", "sweep", "closing", "force",
                  "take", "load", "subtract", "down"}
  /\ shut.swept \subseteq shut.live /\ shut.live \subseteq Slots
  /\ late \in BOOLEAN

OnSlot(r) == rd[r].pc \notin {"away", "seek", "make", "load", "subtract"}

(* A slot is on the free list once or in the hands of one render, and is     *)
(* handed out with a context that has no page of another render.              *)
SlotIsPrivate ==
  /\ \A i, j \in 1..Len(idle) : idle[i] = idle[j] => i = j
  /\ \A r \in Renders : OnSlot(r) =>
       /\ ~Held(rd[r].slot)
       /\ \A q \in Renders \ {r} : OnSlot(q) => rd[q].slot # rd[r].slot
       /\ rd[r].pc = "enter" => ~slot[rd[r].slot].page

(* Whoever of a release, the drop of a guard, a failed health check and      *)
(* shutdown takes a connection out of its slot closes it, and nobody closes   *)
(* it again.                                                                  *)
ClosedExactlyOnce ==
  \A s \in Slots : Upgradable(s) => slot[s].closes = IF HasConn(s) THEN 0 ELSE 1

(* The pool keeps no more connections than its size, those being made        *)
(* counted and those shutdown is about to close left out.                     *)
WithinSize ==
  Cardinality({ s \in Slots : (Held(s) \/ InHand(s)) /\ HasConn(s) })
    + Cardinality({ r \in Renders : rd[r].pc = "make" }) <= Size

(* A slot has one owner, and the pool no more connections than it may.        *)
PoolIsSound == TypeOK /\ SlotIsPrivate /\ WithinSize

(* Until shutdown starts to keep the books of others, inflight counts the    *)
(* renders that are on a slot, however they leave it.                         *)
Counted(r) ==
  rd[r].pc \notin {"away", "seek", "check", "make", "claim", "enter"}

InflightAgrees ==
  shut.pc \in {"up", "drain", "subscribe", "waiting", "sweep", "closing"} =>
    inflight = Cardinality({ r \in Renders : Counted(r) })

(* inflight never wraps below zero, as dec_inflight_and_notify loads it first *)
(* to keep "a stable 0 floor".  It does not hold: shutdown sets the terminator *)
(* of a slot that a render has popped, the claim clears it, and both count the *)
(* render off, each having loaded 1.                                           *)
CounterNeverWraps == inflight <= Cardinality(Renders)

(* When shutdown returns, no slot it has listed keeps a connection, whatever  *)
(* the render that held it did meanwhile.                                      *)
SweepIsComplete ==
  shut.pc = "down" => \A s \in shut.live : Upgradable(s) => ~HasConn(s)

(* The post-condition shutdown states: no render counted, nothing on the      *)
(* free list, every slot closed.                                               *)
NothingAfterShutdown ==
  shut.pc = "down" =>
    /\ inflight = 0
    /\ idle = << >>
    /\ \A s \in Slots : Upgradable(s) => ~HasConn(s)

(* shutdown returns, even when a wake-up is lost between its look at inflight *)
(* and its subscription, or a guard never comes back.                          *)
ShutdownEnds == shut.pc = "drain" ~> shut.pc = "down"

=============================================================================
