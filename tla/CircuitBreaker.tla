---------------------------- MODULE CircuitBreaker ----------------------------
(***************************************************************************)
(* One CircuitBreaker of breaker.rs shared by concurrent requests.         *)
(*                                                                         *)
(* A request acquires a permit, runs its render attempt for as long as it  *)
(* likes, and comes back in one of the ways the callers in breaker.rs and  *)
(* lib.rs have: it records an outcome, it hands this breaker no outcome    *)
(* (record_scoped_outcome with None), its ProbeGuard is dropped, or it is  *)
(* dropped without a guard (the leak arm of fetch_with_js acquires none).  *)
(* Between any two steps other requests act and time passes, so an outcome *)
(* may be recorded in a state other than the one the permit came from.     *)
(***************************************************************************)
EXTENDS Breaker

CONSTANT Callers    \* requests in flight at the same time

VARIABLES
  b,          \* the breaker
  permit,     \* permit[c]: what caller c holds, "none" when it is not in flight
  probing,    \* history: callers admitted as probes of the present half-open period
  owed        \* history: the last rest imposed, 0 once it was lived down or reset

vars == << b, permit, probing, owed >>

(* The history: the probes of a half-open period are its probes only while *)
(* it lasts, and a rest is lived down after ResetAfter ticks in Closed.     *)
Tripped == b'.state = "Open" /\ (b.state = "Open" => b'.timer > b.timer)

LivedDown == b'.state = "Closed" /\ b'.timer >= ResetAfter

Tracked(ps) ==
  /\ probing' = IF b'.state = "HalfOpen" THEN ps ELSE {}
  /\ owed' = IF Tripped THEN b'.timer ELSE IF LivedDown THEN 0 ELSE owed

Held(c) == permit[c] # "none"

Back(c) == permit' = [ permit EXCEPT ![c] = "none" ]

-----------------------------------------------------------------------------

Init ==
  /\ b = NewBreaker
  /\ permit = [ c \in Callers |-> "none" ]
  /\ probing = {}
  /\ owed = 0

(* try_acquire; a rejected request goes elsewhere and may come again. *)
Acquire(c) ==
  /\ ~Held(c)
  /\ b' = TryAcquire(b)
  /\ permit' = [ permit EXCEPT ![c] =
                   IF PermitOf(b) = "Rejected" THEN "none" ELSE PermitOf(b) ]
  /\ Tracked(IF PermitOf(b) = "Probe" THEN probing \cup {c} ELSE probing)

(* record_outcome, then ProbeGuard::disarm. *)
Record(c) ==
  /\ Held(c)
  /\ \E o \in Outcomes : b' = RecordOutcome(b, o)
  /\ Back(c)
  /\ Tracked(probing \ {c})

(* record_scoped_outcome with None: whatever the permit was, a slot is freed. *)
Unrecorded(c) ==
  /\ Held(c)
  /\ b' = CancelProbe(b)
  /\ Back(c)
  /\ Tracked(probing \ {c})

(* ProbeGuard::drop: the request's future was dropped; armed for a probe only. *)
Dropped(c) ==
  /\ Held(c)
  /\ b' = IF permit[c] = "Probe" THEN CancelProbe(b) ELSE b
  /\ Back(c)
  /\ Tracked(probing \ {c})

(* A probe of try_acquire_host_only has no guard: when the request dies or  *)
(* runs out of budget before its fetch, its slot stays taken.               *)
Leaked(c) ==
  /\ permit[c] = "Probe"
  /\ UNCHANGED b
  /\ Back(c)
  /\ Tracked(probing \ {c})

(* is_open and snapshot evaluate lazily, so looking is a step too. *)
Observe ==
  /\ b' = LazyEvaluate(b)
  /\ Tracked(probing)
  /\ UNCHANGED permit

(* reset: POST /admin/breakers/reset *)
Reset ==
  /\ b' = NewBreaker
  /\ probing' = {}
  /\ owed' = 0
  /\ UNCHANGED permit

Tick ==
  /\ b' = Age(b)
  /\ Tracked(probing)
  /\ UNCHANGED permit

Next ==
  \/ \E c \in Callers :
       Acquire(c) \/ Record(c) \/ Unrecorded(c) \/ Dropped(c) \/ Leaked(c)
  \/ Observe
  \/ Reset
  \/ Tick

Spec == Init /\ [][Next]_vars

(* The monotonic clock does not stop, every attempt ends (renderers run under *)
(* a deadline), and requests keep arriving.                                   *)
Fairness ==
  /\ WF_vars(Tick)
  /\ WF_vars(\E c \in Callers : Acquire(c))
  /\ \A c \in Callers : WF_vars(Record(c) \/ Unrecorded(c) \/ Dropped(c) \/ Leaked(c))

FairSpec == Spec /\ Fairness

-----------------------------------------------------------------------------

(* Every variable keeps its type. *)
TypeOK ==
  /\ b \in BreakerStates
  /\ permit \in [ Callers -> {"none", "Allowed", "Probe"} ]
  /\ probing \in SUBSET Callers
  /\ owed \in Nat

(* Outcomes that arrive late, and slots freed by callers that never took    *)
(* one, keep the half-open counters inside their quota: a half-open breaker *)
(* never has more slots taken than MaxProbes, and it is never left standing *)
(* with enough outcomes to decide (record_outcome, cancel_probe).           *)
HalfOpenWithinQuota ==
  /\ b.state = "HalfOpen" =>
       /\ b.admitted <= MaxProbes
       /\ b.succeeded + b.failed < MaxProbes
  /\ b.state # "HalfOpen" =>
       b.admitted = 0 /\ b.succeeded = 0 /\ b.failed = 0

(* The failures that opened the breaker are not counted twice: a closed     *)
(* breaker never carries a window that already warrants a trip, and no      *)
(* window survives into Open or HalfOpen, however the breaker got there     *)
(* (the three window.clear() calls).                                        *)
WindowNeverStale ==
  /\ Len(b.window) <= WindowSize
  /\ b.state = "Closed" => ~Tripping(b.window)
  /\ b.state # "Closed" => b.window = << >>

(* A breaker that is not closed has an ejection on its record, and never    *)
(* rests longer than the cooldown that ejection count earns                 *)
(* (current_cooldown, ejection_count).                                      *)
RestIsEarned ==
  /\ b.state # "Closed" => b.ejections > 0
  /\ b.state = "Open" => b.timer <= Cooldown(b.ejections)
  /\ b.ejections <= EjectionCap

(* Each trip rests at least as long as the one before it, unless the        *)
(* breaker stayed closed for ResetAfter in between or an operator reset it. *)
BackoffNeverShrinks ==
  [][ Tripped => b'.timer >= owed ]_vars

(* Slots taken by probes that never report, and slots freed twice, cannot   *)
(* wedge the breaker: it is willing to let a request through again and      *)
(* again, whatever the requests do (eval_timeout in lazy_evaluate).         *)
NeverWedged == []<>(PermitOf(b) # "Rejected")

(* The breaker keeps the promise of a cooldown gate. *)
Gate == INSTANCE CooldownGate WITH
          MinRest  <- BaseCooldown,
          MaxRest  <- MaxCooldown,
          rest     <- IF b.state = "Open" THEN b.timer ELSE 0,
          inflight <- { c \in Callers : Held(c) }

KeepsGate == Gate!GateSpec

-----------------------------------------------------------------------------

(* breaker.rs:10-11, "admit up to `max_probes` callers": the probes in flight *)
(* in one half-open period are at most MaxProbes.                           *)
ProbesInFlightBounded == Cardinality(probing) <= MaxProbes

(* breaker.rs:12-13, "Close iff succeeded / max_probes >=                   *)
(* half_open_success_rate": a half-open breaker closes (keeping its         *)
(* ejection count, so not by reset) only on that rate.                      *)
CloseNeedsSuccessRate ==
  [][ b.state = "HalfOpen" /\ b'.state = "Closed" /\ b'.ejections > 0 =>
        (b.succeeded + 1) * ProbeDen >= ProbeNum * MaxProbes ]_vars
=============================================================================
