------------------------------- MODULE Breaker -------------------------------
(***************************************************************************)
(* The circuit breaker of crates/crw-renderer/src/breaker.rs as a value    *)
(* and the operations on it.  Every method of CircuitBreaker runs under    *)
(* one mutex, so each one is a function from a breaker to a breaker.       *)
(*                                                                         *)
(* Instants are replaced by a timer relative to the current state, so that *)
(* time may run forever over finitely many values:                         *)
(*   Open      ticks left until `until`                                    *)
(*   HalfOpen  ticks since `opened_at`, counted up to EvalTimeout + 1      *)
(*   Closed    ticks since `closed_since`, counted up to ResetAfter        *)
(* No comparison of the code tells two larger values apart.                *)
(*                                                                         *)
(* The ring of WindowSize slots is the sequence of its last WindowSize     *)
(* entries, oldest first; the rates are fractions Num / Den.               *)
(***************************************************************************)
EXTENDS Naturals, Sequences, FiniteSets

CONSTANTS
  WindowSize,           \* BreakerConfig::window_size
  MinCalls,             \* BreakerConfig::min_calls
  RateNum, RateDen,     \* BreakerConfig::failure_rate_threshold
  BaseCooldown,         \* BreakerConfig::base_cooldown, in ticks
  MaxCooldown,          \* BreakerConfig::max_cooldown, in ticks
  MaxProbes,            \* BreakerConfig::max_probes
  ProbeNum, ProbeDen,   \* BreakerConfig::half_open_success_rate
  EvalTimeout,          \* BreakerConfig::eval_timeout, in ticks
  ResetAfter,           \* BreakerConfig::ejection_reset_after_closed, in ticks
  CountTruncated,       \* BreakerConfig::count_truncated_as_failure
  EjectionCap           \* u32::MAX, where saturating_add stops

ASSUME BreakerAssumption ==
  /\ WindowSize \in Nat \ {0}
  /\ MinCalls \in Nat \ {0}
  /\ RateNum \in Nat /\ RateDen \in Nat \ {0}
  /\ BaseCooldown \in Nat \ {0}
  /\ MaxCooldown \in Nat /\ MaxCooldown >= BaseCooldown
  /\ MaxProbes \in Nat \ {0}
  /\ ProbeNum \in Nat /\ ProbeDen \in Nat \ {0}
  /\ EvalTimeout \in Nat
  /\ ResetAfter \in Nat
  /\ CountTruncated \in BOOLEAN
  /\ EjectionCap \in Nat \ {0}

Outcomes == { "Success", "Truncated", "DeadlineClamped", "TierTimeout",
              "ConnectionError", "RenderError", "SiteBlocked" }

IsFailure(o) ==
  \/ o \in {"TierTimeout", "ConnectionError", "RenderError"}
  \/ o = "Truncated" /\ CountTruncated

Advances(o) ==
  /\ o \notin {"DeadlineClamped", "SiteBlocked"}
  /\ o = "Truncated" => CountTruncated

(* classify_outcome: a site block outranks every failure class, a success   *)
(* outranks a site block, and a timeout is the tier's only when the whole   *)
(* tier budget was there at the start.                                      *)
Classify(success, truncated, timeout, blocked, clamped) ==
  IF success THEN IF truncated THEN "Truncated" ELSE "Success"
  ELSE IF blocked THEN "SiteBlocked"
  ELSE IF timeout THEN IF clamped THEN "DeadlineClamped" ELSE "TierTimeout"
  ELSE "RenderError"

Permits == {"Allowed", "Probe", "Rejected"}

Slots == {"Success", "Failure"}

BreakerStates ==
  [ state     : {"Closed", "Open", "HalfOpen"},
    timer     : Nat,
    admitted  : Nat,
    succeeded : Nat,
    failed    : Nat,
    window    : Seq(Slots),
    ejections : Nat ]

-----------------------------------------------------------------------------

(* Window::push, call_count, failure_count and the trip condition. *)
Push(w, slot) ==
  IF Len(w) < WindowSize THEN Append(w, slot) ELSE Append(Tail(w), slot)

Failures(w) == Cardinality({ i \in DOMAIN w : w[i] = "Failure" })

Tripping(w) ==
  /\ Len(w) >= MinCalls
  /\ Failures(w) * RateDen >= RateNum * Len(w)

(* current_cooldown *)
Cooldown(n) ==
  LET mult == IF n < 1 THEN 1 ELSE n
      dur  == BaseCooldown * mult
  IN  IF dur < MaxCooldown THEN dur ELSE MaxCooldown

NextEjection(n) == IF n < EjectionCap THEN n + 1 ELSE EjectionCap

NewBreaker ==
  [ state |-> "Closed", timer |-> 0, admitted |-> 0, succeeded |-> 0,
    failed |-> 0, window |-> << >>, ejections |-> 0 ]

(* State::Open with one more ejection; the window is left to the caller. *)
Eject(b) ==
  LET n == NextEjection(b.ejections)
  IN  [ b EXCEPT !.state = "Open", !.timer = Cooldown(n), !.admitted = 0,
                 !.succeeded = 0, !.failed = 0, !.ejections = n ]

Recover(b) ==
  [ b EXCEPT !.state = "Closed", !.timer = 0, !.admitted = 0,
             !.succeeded = 0, !.failed = 0, !.window = << >> ]

StartProbing(b) == [ b EXCEPT !.state = "HalfOpen", !.timer = 0 ]

-----------------------------------------------------------------------------

(* Mutant: one tick early. *)
MutCooldownOver(b) == b.state = "Open" /\ b.timer <= 1

CooldownOver(b) == b.state = "Open" /\ b.timer = 0

EvalExpired(b) ==
  /\ b.state = "HalfOpen"
  /\ b.timer > EvalTimeout
  /\ \/ b.succeeded + b.failed < b.admitted
     \/ b.succeeded + b.failed < MaxProbes

ForgiveDue(b) ==
  b.state = "Closed" /\ b.ejections > 0 /\ b.timer >= ResetAfter

(* Mutant: no eval_timeout arm. *)
MutLazyEvaluate(b) ==
  IF CooldownOver(b) THEN StartProbing(b)
  ELSE IF ForgiveDue(b) THEN [ b EXCEPT !.ejections = 0 ] ELSE b

(* lazy_evaluate: at most one transition per call. *)
LazyEvaluate(b) ==
  CASE CooldownOver(b)                      -> StartProbing(b)
    [] EvalExpired(b) /\ b.succeeded = 0    -> Eject(b)
    [] EvalExpired(b) /\ b.succeeded # 0    -> Recover(b)
    [] ForgiveDue(b)                        -> [ b EXCEPT !.ejections = 0 ]
    [] OTHER                                -> b

(* try_acquire: the permit it answers and the breaker it leaves. *)
PermitOf(b) ==
  LET e == LazyEvaluate(b)
  IN  CASE e.state = "Closed" -> "Allowed"
        [] e.state = "HalfOpen" /\ e.admitted < MaxProbes -> "Probe"
        [] OTHER -> "Rejected"

TryAcquire(b) ==
  LET e == LazyEvaluate(b)
  IN  IF PermitOf(b) = "Probe" THEN [ e EXCEPT !.admitted = @ + 1 ] ELSE e

ReleaseSlot(b) ==
  [ b EXCEPT !.admitted = IF @ = 0 THEN 0 ELSE @ - 1 ]

(* cancel_probe: the one operation that does not evaluate lazily. *)
CancelProbe(b) == IF b.state = "HalfOpen" THEN ReleaseSlot(b) ELSE b

(* Mutant: decides one outcome late. *)
MutRecordProbe(e, o) ==
  LET s == IF IsFailure(o) THEN e.succeeded ELSE e.succeeded + 1
      f == IF IsFailure(o) THEN e.failed + 1 ELSE e.failed
  IN  CASE ~Advances(o) -> ReleaseSlot(e)
        [] Advances(o) /\ s + f <= MaxProbes ->
             [ e EXCEPT !.succeeded = s, !.failed = f ]
        [] OTHER -> IF s * ProbeDen >= ProbeNum * MaxProbes
                    THEN Recover(e) ELSE Eject(e)

(* record_outcome in HalfOpen: an ignored outcome frees a slot, any other   *)
(* one counts, and the MaxProbes-th decides.                                *)
RecordProbe(e, o) ==
  LET s == IF IsFailure(o) THEN e.succeeded ELSE e.succeeded + 1
      f == IF IsFailure(o) THEN e.failed + 1 ELSE e.failed
  IN  CASE ~Advances(o)      -> ReleaseSlot(e)
        [] Advances(o) /\ s + f < MaxProbes ->
             [ e EXCEPT !.succeeded = s, !.failed = f ]
        [] OTHER ->
             IF s * ProbeDen >= ProbeNum * MaxProbes
             THEN Recover(e) ELSE Eject(e)

(* record_outcome in Closed: slide the window and trip on the rate, clearing *)
(* the window on the way out.                                               *)
RecordCall(e, o) ==
  LET w == Push(e.window, IF IsFailure(o) THEN "Failure" ELSE "Success")
  IN  IF ~Advances(o) THEN e
      ELSE IF Tripping(w) THEN [ Eject(e) EXCEPT !.window = << >> ]
      ELSE [ e EXCEPT !.window = w ]

RecordOutcome(b, o) ==
  LET e == LazyEvaluate(b)
  IN  CASE e.state = "HalfOpen" -> RecordProbe(e, o)
        [] e.state = "Closed"   -> RecordCall(e, o)
        [] OTHER                -> e

(* One tick of the monotonic clock, as this breaker sees it. *)
Age(b) ==
  CASE b.state = "Open"     -> [ b EXCEPT !.timer = IF @ = 0 THEN 0 ELSE @ - 1 ]
    [] b.state = "HalfOpen" -> [ b EXCEPT !.timer = IF @ > EvalTimeout THEN @ ELSE @ + 1 ]
    [] b.state = "Closed"   -> [ b EXCEPT !.timer = IF @ >= ResetAfter THEN @ ELSE @ + 1 ]
    [] OTHER                -> b
=============================================================================
