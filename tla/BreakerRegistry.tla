--------------------------- MODULE BreakerRegistry ---------------------------
(***************************************************************************)
(* BreakerRegistry of breaker.rs for one renderer: its global breaker, one *)
(* breaker per host in a cache that may evict, and the ladder requests of  *)
(* fetch_with_js that consult both.  Renderers share no breaker.           *)
(*                                                                         *)
(* A request goes through the awaits of acquire_with_guard and of the two  *)
(* record functions one by one, and its future may be dropped at each:     *)
(*   idle       not at this renderer                                       *)
(*   acquired   try_acquire answered, the ProbeGuard is not built yet      *)
(*   guarded    rendering, behind a ProbeGuard                             *)
(*   skipped    rejected, and on breaker_skipped of its ladder             *)
(*   leaking    rendering on try_acquire_host_only, with no guard          *)
(*   halfway    global scope recorded, host scope pending                  *)
(*   recorded   both recorded, the guard is not disarmed yet               *)
(***************************************************************************)
EXTENDS Breaker

CONSTANTS
  Requests,   \* requests in flight at the same time
  Hosts,      \* host names, normalised
  Global      \* the scope every host shares

ASSUME RegistryAssumption == Global \notin Hosts

VARIABLES
  brk,        \* brk[s]: global_for, or the breaker host_for finds or creates
  call,       \* call[c]: where request c stands
  holders,    \* history: holders[s], requests with a slot of the present period
  lost,       \* history: lost[s], a slot of the present period was never released
  evidence    \* history: renderer faults told globally since the window was empty

registryVars == << brk, call, holders, lost, evidence >>

Scopes == Hosts \cup {Global}

(* How a render attempt may end, as the arms of fetch_with_js tell it. *)
Kinds == {"accepted", "rejected", "originFault", "tierFault", "timedOut"}

VerdictsOf(kind) ==
  CASE kind = "accepted"                   -> { Classify(TRUE, t, FALSE, FALSE, FALSE) : t \in BOOLEAN }
    [] kind = "rejected"                   -> { Classify(FALSE, FALSE, FALSE, w, FALSE) : w \in BOOLEAN }
    [] kind = "timedOut"                   -> { Classify(FALSE, FALSE, TRUE, FALSE, d) : d \in BOOLEAN }
    [] kind \in {"originFault", "tierFault"} -> { Classify(FALSE, FALSE, FALSE, FALSE, FALSE) }

Idle == [ at |-> "idle", host |-> Global, permit |-> "none", guarded |-> FALSE,
          current |-> FALSE, kind |-> "accepted", verdict |-> "Success" ]

(* `guarded`: an armed ProbeGuard exists.  `current`: its host breaker is    *)
(* the one the cache still holds.                                            *)
Calls ==
  [ at      : {"idle", "acquired", "guarded", "skipped", "leaking", "halfway", "recorded"},
    host    : Scopes,
    permit  : {"none", "Allowed", "Probe"},
    guarded : BOOLEAN,
    current : BOOLEAN,
    kind    : Kinds,
    verdict : Outcomes ]

(* The history follows the breakers: a period's slots are its slots only    *)
(* while it lasts.  took: the scopes the step took a slot of; gave: those   *)
(* where c's slot is accounted for; gone: those where it never will be.     *)
Follow(c, took, gave, gone) ==
  /\ holders' = [ s \in Scopes |->
       IF brk'[s].state # "HalfOpen" THEN {}
       ELSE (holders[s] \ IF s \in gave \cup gone THEN {c} ELSE {})
            \cup IF s \in took THEN {c} ELSE {} ]
  /\ lost' = [ s \in Scopes |->
       /\ brk'[s].state = "HalfOpen"
       /\ lost[s] \/ (s \in gone /\ c \in holders[s]) ]

(* What counts as evidence against the renderer itself: its own fault or     *)
(* timeout, or a truncated page when those count, met in the ladder proper.  *)
OfTheRenderer(kind) == kind \in {"accepted", "tierFault", "timedOut"}

RendererFault(at, kind, v) ==
  at = "guarded" /\ OfTheRenderer(kind) /\ IsFailure(v)

Uncounted ==
  evidence' = IF brk'[Global].window = << >> THEN 0 ELSE evidence

-----------------------------------------------------------------------------

RegistryInit ==
  /\ brk = [ s \in Scopes |-> NewBreaker ]
  /\ call = [ c \in Requests |-> Idle ]
  /\ holders = [ s \in Scopes |-> {} ]
  /\ lost = [ s \in Scopes |-> FALSE ]
  /\ evidence = 0

(* Mutant: the global slot is not given back when the host refuses. *)
MutAfterRefusal(g, gp) == g

(* A global probe is cancelled when the host breaker refuses. *)
AfterRefusal(g, gp) == IF gp = "Probe" THEN CancelProbe(g) ELSE g

(* try_acquire rejects: the global breaker refuses and the host's is not    *)
(* asked, or the host's refuses.                                            *)
Rejected(c, h) ==
  /\ call[c].at = "idle"
  /\ LET gp == PermitOf(brk[Global])
         g  == TryAcquire(brk[Global])
     IN  \/ /\ gp = "Rejected"
            /\ brk' = [ brk EXCEPT ![Global] = g ]
         \/ /\ gp # "Rejected"
            /\ PermitOf(brk[h]) = "Rejected"
            /\ brk' = [ brk EXCEPT ![Global] = AfterRefusal(g, gp),
                                   ![h] = TryAcquire(brk[h]) ]
  /\ call' = [ call EXCEPT ![c] = [ Idle EXCEPT !.at = "skipped", !.host = h ] ]
  /\ Follow(c, {}, {}, {})
  /\ Uncounted

(* try_acquire grants: one probe among the two permits makes it a probe. *)
Granted(c, h) ==
  /\ call[c].at = "idle"
  /\ LET took == { s \in {Global, h} : PermitOf(brk[s]) = "Probe" }
     IN  /\ \A s \in {Global, h} : PermitOf(brk[s]) # "Rejected"
         /\ brk' = [ brk EXCEPT ![Global] = TryAcquire(@), ![h] = TryAcquire(@) ]
         /\ call' = [ call EXCEPT ![c] =
              [ Idle EXCEPT !.at = "acquired", !.host = h,
                            !.permit = IF took = {} THEN "Allowed" ELSE "Probe" ] ]
         /\ Follow(c, took, {}, {})
  /\ Uncounted

(* The rest of acquire_with_guard: a probe's guard looks the host breaker up *)
(* a second time.                                                            *)
Guard(c) ==
  /\ call[c].at = "acquired"
  /\ LET probe == call[c].permit = "Probe"
     IN  call' = [ call EXCEPT ![c].at = "guarded", ![c].guarded = probe,
                               ![c].current = probe ]
  /\ UNCHANGED << brk, holders, lost, evidence >>

(* The leak arm of fetch_with_js asks the host breaker alone. *)
LeakThrough(c) ==
  /\ call[c].at = "skipped"
  /\ LET h == call[c].host
         p == PermitOf(brk[h])
     IN  /\ brk' = [ brk EXCEPT ![h] = TryAcquire(@) ]
         /\ call' = [ call EXCEPT ![c] =
              IF p = "Rejected" THEN Idle
              ELSE [ Idle EXCEPT !.at = "leaking", !.host = h, !.permit = p ] ]
         /\ Follow(c, IF p = "Probe" THEN {h} ELSE {}, {}, {})
  /\ Uncounted

(* Another tier answered, or the ladder ended without leaking. *)
GiveUp(c) ==
  /\ call[c].at = "skipped"
  /\ call' = [ call EXCEPT ![c] = Idle ]
  /\ UNCHANGED << brk, holders, lost, evidence >>

(* Mutant: a verdict on one page is recorded against the renderer. *)
MutToldGlobally(at, kind) == at = "guarded"

(* Which ends are told to the global breaker: successes and tier faults of  *)
(* the ladder proper, never a verdict on a body or on an origin.            *)
ToldGlobally(at, kind) ==
  at = "guarded" /\ kind \notin {"rejected", "originFault"}

(* The attempt ends, and record_outcome or record_scoped_outcome goes as far *)
(* as its await of host_for.                                                 *)
RecordGlobal(c) ==
  /\ call[c].at \in {"guarded", "leaking"}
  /\ \E kind \in Kinds : \E v \in VerdictsOf(kind) :
       /\ brk' = [ brk EXCEPT ![Global] =
            IF ToldGlobally(call[c].at, kind) THEN RecordOutcome(@, v) ELSE CancelProbe(@) ]
       /\ call' = [ call EXCEPT ![c].at = "halfway", ![c].kind = kind, ![c].verdict = v ]
       /\ evidence' =
            IF brk'[Global].window = << >> THEN 0
            ELSE IF RendererFault(call[c].at, kind, v) /\ evidence < WindowSize
                 THEN evidence + 1 ELSE evidence
  /\ Follow(c, {}, {Global}, {})

RecordHost(c) ==
  /\ call[c].at = "halfway"
  /\ brk' = [ brk EXCEPT ![call[c].host] = RecordOutcome(@, call[c].verdict) ]
  /\ call' = [ call EXCEPT ![c] =
       [ @ EXCEPT !.at = "recorded", !.kind = Idle.kind, !.verdict = Idle.verdict ] ]
  /\ Follow(c, {}, {call[c].host}, {})
  /\ Uncounted

(* ProbeGuard::disarm, with the request's work at this renderer done. *)
Disarm(c) ==
  /\ call[c].at = "recorded"
  /\ call' = [ call EXCEPT ![c] = Idle ]
  /\ UNCHANGED << brk, holders, lost, evidence >>

(* The request's future is dropped.  An armed guard cancels in both scopes, *)
(* on the host breaker it was built with; without one, slots stay taken.    *)
RequestDropped(c) ==
  /\ call[c].at \in {"acquired", "guarded", "leaking", "halfway", "recorded"}
  /\ LET cancelled == IF ~call[c].guarded THEN {}
                      ELSE IF call[c].current THEN {Global, call[c].host} ELSE {Global}
     IN  /\ brk' = [ s \in Scopes |->
                       IF s \in cancelled THEN CancelProbe(brk[s]) ELSE brk[s] ]
         /\ Follow(c, {}, cancelled, Scopes \ cancelled)
  /\ call' = [ call EXCEPT ![c] = Idle ]
  /\ Uncounted

(* reset_all: every global breaker is reset, the host cache is emptied, and  *)
(* the guards in flight keep the breakers they were built with.              *)
ResetAll ==
  /\ brk' = [ s \in Scopes |-> NewBreaker ]
  /\ call' = [ c \in Requests |-> [ call[c] EXCEPT !.current = FALSE ] ]
  /\ holders' = [ s \in Scopes |-> {} ]
  /\ lost' = [ s \in Scopes |-> FALSE ]
  /\ evidence' = 0

(* The host cache drops an entry: it was idle for a day, or the cache is full. *)
Evict(h) ==
  /\ brk' = [ brk EXCEPT ![h] = NewBreaker ]
  /\ call' = [ c \in Requests |->
       IF call[c].host = h THEN [ call[c] EXCEPT !.current = FALSE ] ELSE call[c] ]
  /\ holders' = [ holders EXCEPT ![h] = {} ]
  /\ lost' = [ lost EXCEPT ![h] = FALSE ]
  /\ UNCHANGED evidence

(* snapshot: GET /admin/breakers evaluates every breaker. *)
Snapshot ==
  /\ brk' = [ s \in Scopes |-> LazyEvaluate(brk[s]) ]
  /\ Follow(Global, {}, {}, {})
  /\ Uncounted
  /\ UNCHANGED call

ClockTick ==
  /\ brk' = [ s \in Scopes |-> Age(brk[s]) ]
  /\ UNCHANGED << call, holders, lost, evidence >>

RegistryNext ==
  \/ \E c \in Requests, h \in Hosts : Rejected(c, h) \/ Granted(c, h)
  \/ \E c \in Requests :
       \/ Guard(c) \/ LeakThrough(c) \/ GiveUp(c)
       \/ RecordGlobal(c) \/ RecordHost(c) \/ Disarm(c) \/ RequestDropped(c)
  \/ \E h \in Hosts : Evict(h)
  \/ ResetAll
  \/ Snapshot
  \/ ClockTick

RegistrySpec == RegistryInit /\ [][RegistryNext]_registryVars

-----------------------------------------------------------------------------

(* Every variable keeps its type. *)
RegistryTypeOK ==
  /\ brk \in [ Scopes -> BreakerStates ]
  /\ call \in [ Requests -> Calls ]
  /\ holders \in [ Scopes -> SUBSET Requests ]
  /\ lost \in [ Scopes -> BOOLEAN ]
  /\ evidence \in 0..WindowSize

(* Two-scope bookkeeping is complete: unless a slot was dropped with no     *)
(* guard around it, every slot taken in a half-open period is either paid   *)
(* for by an outcome or held by a request still in flight, in both scopes,  *)
(* whatever mixture of permits try_acquire combined and whatever the cache  *)
(* evicted (try_acquire, record_scoped_outcome, ProbeGuard).                *)
SlotsOwned ==
  \A s \in Scopes :
    brk[s].state = "HalfOpen" /\ ~lost[s] =>
      brk[s].admitted <= brk[s].succeeded + brk[s].failed + Cardinality(holders[s])

(* The books of a tier, whoever took a slot, paid for it or walked away.     *)
SlotsAccounted == RegistryTypeOK /\ SlotsOwned

(* One busy host cannot disable a renderer for every host: the global       *)
(* breaker leaves Closed for Open only on the renderer's own answer to the  *)
(* ladder proper, and only when enough faults of the renderer itself were   *)
(* told since its window was last empty (record_scoped_outcome with no      *)
(* global outcome).  The answer that tips it over may be a success: the one *)
(* that completes MinCalls over a window already at the failure rate.       *)
GlobalTripsOnTierFaults ==
  [][ brk[Global].state = "Closed" /\ brk'[Global].state = "Open" =>
        \E c \in Requests :
          /\ call[c].at = "guarded" /\ call'[c].at = "halfway"
          /\ OfTheRenderer(call'[c].kind)
          /\ LET faults == IF IsFailure(call'[c].verdict) THEN evidence + 1 ELSE evidence
             IN  faults * RateDen >= RateNum * MinCalls ]_registryVars

-----------------------------------------------------------------------------

(* breaker.rs:689, "A tier we are NOT recording to must still have its      *)
(* probe released": a request that stops rendering without an outcome gives *)
(* back the slots it holds, on the ladder's path and on the leak arm's.     *)
UnrecordedProbeReleased ==
  [][ \A c \in Requests, s \in Scopes :
        /\ call[c].at \in {"guarded", "leaking"} /\ call'[c].at = "idle"
        /\ c \in holders[s]
        /\ brk[s].admitted > 0
        => brk'[s].admitted < brk[s].admitted ]_registryVars

(* lib.rs:2309, "Record host only -- global stays untouched so the existing *)
(* trip can finish its cooldown naturally".                                 *)
LeakLeavesGlobalAlone ==
  [][ \A c \in Requests :
        call[c].at = "leaking" /\ call'[c].at = "halfway" =>
          brk'[Global] = brk[Global] ]_registryVars
=============================================================================
