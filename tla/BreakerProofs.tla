---------------------------- MODULE BreakerProofs ----------------------------
(***************************************************************************)
(* Theorems about the breaker and the two machines built on it, for every  *)
(* configuration that satisfies BreakerAssumption: CircuitBreaker, one     *)
(* breaker and any set of callers, and BreakerRegistry, one renderer's     *)
(* breakers and any sets of hosts and requests.                            *)
(*                                                                         *)
(* CircuitBreaker.  The inductive invariant is IInv: the type, the half-   *)
(* open quota, the window rule and the ejection rule (Sound), and the two  *)
(* facts that tie the history variable owed to the ejection count.  The    *)
(* conjuncts need each other: a half-open decision lands in Closed with an *)
(* empty window, which is below the trip rate only because MinCalls is     *)
(* positive, and an ejection from HalfOpen is sound only because the       *)
(* window is empty there.                                                  *)
(*                                                                         *)
(* BreakerRegistry.  RegistryInv says of every scope that its breaker is   *)
(* Sound and its slots are booked (Books), of every request where it may   *)
(* stand while it holds a slot (MayHold), and of the global window that it *)
(* carries no failure but those told by the renderer itself (Evident).     *)
(* What an operation does to the books is a fact about breakers alone      *)
(* (Kept, Took, Gave), stated once per operation and used per scope.       *)
(***************************************************************************)
EXTENDS CircuitBreaker, BreakerRegistry, FiniteSetTheorems, TLAPS

(* What the operations keep of a breaker, with no callers in sight. *)
Sound(x) ==
  /\ x \in BreakerStates
  /\ x.state = "HalfOpen" =>
       /\ x.admitted <= MaxProbes
       /\ x.succeeded + x.failed < MaxProbes
  /\ x.state # "HalfOpen" =>
       x.admitted = 0 /\ x.succeeded = 0 /\ x.failed = 0
  /\ Len(x.window) <= WindowSize
  /\ x.state = "Closed" => ~Tripping(x.window)
  /\ x.state # "Closed" => x.window = << >>
  /\ x.state # "Closed" => x.ejections > 0
  /\ x.state = "Open" => x.timer <= Cooldown(x.ejections)
  /\ x.ejections <= EjectionCap

IInv ==
  /\ Sound(b)
  /\ permit \in [ Callers -> {"none", "Allowed", "Probe"} ]
  /\ probing \in SUBSET Callers
  /\ owed \in Nat
  /\ owed # 0 => owed <= Cooldown(b.ejections)
  /\ b.state = "Closed" /\ b.timer >= ResetAfter => owed = 0

-----------------------------------------------------------------------------

(* The cooldown is a duration between base_cooldown and max_cooldown. *)
LEMMA CooldownBounds ==
  ASSUME NEW n \in Nat
  PROVE  Cooldown(n) \in BaseCooldown..MaxCooldown
<1>1. PICK m \in Nat \ {0} : m = IF n < 1 THEN 1 ELSE n
  OBVIOUS
<1>2. BaseCooldown * m \in Nat /\ BaseCooldown * m >= BaseCooldown
  BY <1>1, BreakerAssumption
<1>3. QED
  BY <1>1, <1>2, BreakerAssumption DEF Cooldown

(* A longer record of ejections never earns a shorter rest. *)
LEMMA CooldownMonotone ==
  ASSUME NEW m \in Nat, NEW n \in Nat, m <= n
  PROVE  Cooldown(m) <= Cooldown(n)
<1> DEFINE p == IF m < 1 THEN 1 ELSE m
           q == IF n < 1 THEN 1 ELSE n
<1>1. p \in Nat /\ q \in Nat /\ p <= q
  OBVIOUS
<1> HIDE DEF p, q
<1>2. BaseCooldown * p <= BaseCooldown * q /\ BaseCooldown * p \in Nat
      /\ BaseCooldown * q \in Nat
  BY <1>1, BreakerAssumption
<1>3. QED
  BY <1>2, BreakerAssumption DEF Cooldown, p, q

(* The empty window never trips, because MinCalls is positive. *)
LEMMA EmptyNotTripping == ~Tripping(<< >>)
BY BreakerAssumption DEF Tripping

(* Window::push keeps the window a window of at most WindowSize slots. *)
LEMMA PushType ==
  ASSUME NEW w \in Seq(Slots), Len(w) <= WindowSize, NEW s \in Slots
  PROVE  Push(w, s) \in Seq(Slots) /\ Len(Push(w, s)) <= WindowSize
<1>1. CASE Len(w) < WindowSize
  BY <1>1, BreakerAssumption DEF Push
<1>2. CASE Len(w) >= WindowSize
  <2>1. w # << >>
    BY <1>2, BreakerAssumption
  <2>2. Tail(w) \in Seq(Slots) /\ Len(Tail(w)) = Len(w) - 1
    BY <2>1
  <2>3. QED
    BY <1>2, <2>2, BreakerAssumption DEF Push
<1>3. QED
  BY <1>1, <1>2, BreakerAssumption

-----------------------------------------------------------------------------
(* One lemma per operation: it keeps a sound breaker sound. *)

(* A new breaker, which is also what reset leaves. *)
LEMMA NewSound == Sound(NewBreaker)
BY EmptyNotTripping, BreakerAssumption DEF Sound, NewBreaker, BreakerStates

(* Ejecting keeps everything but the emptiness of the window. *)
LEMMA EjectSound ==
  ASSUME NEW x \in BreakerStates, x.ejections <= EjectionCap
  PROVE  /\ Eject(x) \in BreakerStates
         /\ Eject(x).state = "Open"
         /\ Eject(x).timer = Cooldown(Eject(x).ejections)
         /\ Eject(x).ejections >= x.ejections
         /\ [ Eject(x) EXCEPT !.window = << >> ].state = "Open"
         /\ [ Eject(x) EXCEPT !.window = << >> ].timer = Eject(x).timer
         /\ [ Eject(x) EXCEPT !.window = << >> ].ejections = Eject(x).ejections
         /\ x.window = << >> => Sound(Eject(x))
         /\ Sound([ Eject(x) EXCEPT !.window = << >> ])
<1> DEFINE n == NextEjection(x.ejections)
           y == [ Eject(x) EXCEPT !.window = << >> ]
<1>1. n \in Nat /\ n \in 1..EjectionCap /\ n >= x.ejections
  BY BreakerAssumption DEF NextEjection, BreakerStates
<1>2. Cooldown(n) \in Nat /\ Cooldown(n) \in BaseCooldown..MaxCooldown
  BY <1>1, CooldownBounds, BreakerAssumption
<1>3. Eject(x) \in BreakerStates
  BY <1>1, <1>2, Zenon DEF Eject, BreakerStates
<1>4. /\ Eject(x).state = "Open" /\ Eject(x).window = x.window
      /\ Eject(x).timer = Cooldown(n) /\ Eject(x).ejections = n
      /\ Eject(x).admitted = 0 /\ Eject(x).succeeded = 0 /\ Eject(x).failed = 0
  BY DEF Eject, BreakerStates
<1>5. << >> \in Seq(Slots)
  OBVIOUS
<1>6. y \in BreakerStates
  BY <1>3, <1>5, Zenon DEF BreakerStates
<1>7. /\ y.state = "Open" /\ y.window = << >>
      /\ y.timer = Cooldown(n) /\ y.ejections = n
      /\ y.admitted = 0 /\ y.succeeded = 0 /\ y.failed = 0
  BY <1>3, <1>4 DEF BreakerStates
<1> HIDE DEF n, y
<1>8. x.window = << >> => Sound(Eject(x))
  BY <1>1, <1>2, <1>3, <1>4, BreakerAssumption DEF Sound
<1>9. Sound(y)
  BY <1>1, <1>2, <1>6, <1>7, BreakerAssumption DEF Sound
<1>10. QED
  BY <1>1, <1>3, <1>4, <1>7, <1>8, <1>9 DEF y

(* Closing clears the window and the half-open counters. *)
LEMMA RecoverSound ==
  ASSUME NEW x \in BreakerStates, x.ejections <= EjectionCap
  PROVE  /\ Sound(Recover(x)) /\ Recover(x).state = "Closed"
         /\ Recover(x).ejections = x.ejections
<1>1. << >> \in Seq(Slots)
  OBVIOUS
<1>2. Recover(x) \in BreakerStates
  BY <1>1, Zenon DEF Recover, BreakerStates
<1>3. /\ Recover(x).state = "Closed" /\ Recover(x).window = << >>
      /\ Recover(x).ejections = x.ejections
      /\ Recover(x).admitted = 0 /\ Recover(x).succeeded = 0
      /\ Recover(x).failed = 0
  BY DEF Recover, BreakerStates
<1>4. QED
  BY <1>2, <1>3, EmptyNotTripping, BreakerAssumption DEF Sound, BreakerStates

(* A cooldown that is over starts a half-open period. *)
LEMMA StartSound ==
  ASSUME NEW x, Sound(x), x.state = "Open"
  PROVE  /\ Sound(StartProbing(x)) /\ StartProbing(x).state = "HalfOpen"
         /\ StartProbing(x).ejections = x.ejections
<1> DEFINE y == StartProbing(x)
<1>1. x \in BreakerStates
  BY DEF Sound
<1>2. y \in BreakerStates
  BY <1>1, Zenon DEF StartProbing, BreakerStates
<1>3. /\ y.state = "HalfOpen" /\ y.window = x.window
      /\ y.ejections = x.ejections
      /\ y.admitted = x.admitted /\ y.succeeded = x.succeeded
      /\ y.failed = x.failed
  BY <1>1 DEF StartProbing, BreakerStates
<1> HIDE DEF y
<1>4. QED
  BY <1>2, <1>3, BreakerAssumption DEF Sound, y

(* Forgiving touches the ejection count alone. *)
LEMMA ForgiveSound ==
  ASSUME NEW x, Sound(x), x.state = "Closed"
  PROVE  /\ Sound([ x EXCEPT !.ejections = 0 ])
         /\ [ x EXCEPT !.ejections = 0 ].state = "Closed"
<1> DEFINE y == [ x EXCEPT !.ejections = 0 ]
<1>1. x \in BreakerStates
  BY DEF Sound
<1>2. y \in BreakerStates
  BY <1>1, Zenon DEF BreakerStates
<1>3. /\ y.state = "Closed" /\ y.window = x.window
      /\ y.ejections = 0 /\ y.admitted = x.admitted
      /\ y.succeeded = x.succeeded /\ y.failed = x.failed
  BY <1>1 DEF BreakerStates
<1> HIDE DEF y
<1>4. QED
  BY <1>2, <1>3, BreakerAssumption DEF Sound, y

(* lazy_evaluate *)
LEMMA LazySound ==
  ASSUME NEW x, Sound(x)
  PROVE  /\ Sound(LazyEvaluate(x))
         /\ x.state = "Open" /\ x.timer > 0 => LazyEvaluate(x) = x
         /\ x.state = "Open" /\ x.timer = 0 => LazyEvaluate(x).state = "HalfOpen"
         /\ LazyEvaluate(x).state = "Open" /\ x.state # "Open" =>
              LazyEvaluate(x).timer = Cooldown(LazyEvaluate(x).ejections)
         /\ \/ LazyEvaluate(x).ejections >= x.ejections
            \/ x.state = "Closed" /\ x.timer >= ResetAfter
<1>0. x \in BreakerStates /\ x.ejections <= EjectionCap
  BY DEF Sound
<1>1. CASE CooldownOver(x)
  <2>1. LazyEvaluate(x) = StartProbing(x)
    BY <1>1 DEF LazyEvaluate, CooldownOver, EvalExpired, ForgiveDue
  <2>2. QED
    BY <1>0, <1>1, <2>1, StartSound DEF CooldownOver, BreakerStates
<1>2. CASE EvalExpired(x) /\ x.succeeded = 0
  <2>1. x.state = "HalfOpen" /\ ~CooldownOver(x)
    BY <1>2 DEF EvalExpired, CooldownOver
  <2>2. LazyEvaluate(x) = Eject(x)
    BY <1>2, <2>1 DEF LazyEvaluate, EvalExpired, ForgiveDue
  <2>3. x.window = << >>
    BY <2>1 DEF Sound
  <2>4. QED
    BY <1>0, <2>1, <2>2, <2>3, EjectSound
<1>3. CASE EvalExpired(x) /\ x.succeeded # 0
  <2>1. x.state = "HalfOpen" /\ ~CooldownOver(x)
    BY <1>3 DEF EvalExpired, CooldownOver
  <2>2. LazyEvaluate(x) = Recover(x)
    BY <1>3, <2>1 DEF LazyEvaluate, EvalExpired, ForgiveDue
  <2>3. QED
    BY <1>0, <2>1, <2>2, RecoverSound DEF BreakerStates
<1>4. CASE ForgiveDue(x)
  <2>1. x.state = "Closed" /\ ~CooldownOver(x) /\ ~EvalExpired(x)
    BY <1>4 DEF EvalExpired, CooldownOver, ForgiveDue
  <2>2. LazyEvaluate(x) = [ x EXCEPT !.ejections = 0 ]
    BY <1>4, <2>1 DEF LazyEvaluate
  <2>3. QED
    BY <1>4, <2>1, <2>2, ForgiveSound DEF ForgiveDue
<1>5. CASE ~CooldownOver(x) /\ ~EvalExpired(x) /\ ~ForgiveDue(x)
  <2>1. LazyEvaluate(x) = x
    BY <1>5 DEF LazyEvaluate
  <2>2. QED
    BY <1>0, <1>5, <2>1 DEF BreakerStates, CooldownOver
<1>6. QED
  BY <1>1, <1>2, <1>3, <1>4, <1>5

(* try_acquire *)
LEMMA AcquireSound ==
  ASSUME NEW x, Sound(x)
  PROVE  Sound(TryAcquire(x)) /\ PermitOf(x) \in Permits
<1> DEFINE e == LazyEvaluate(x)
<1>1. Sound(e)
  BY LazySound
<1>2. PermitOf(x) \in Permits
  BY DEF PermitOf, Permits
<1>3. CASE PermitOf(x) = "Probe"
  <2>1. e.state = "HalfOpen" /\ e.admitted < MaxProbes
    BY <1>3 DEF PermitOf
  <2>2. TryAcquire(x) = [ e EXCEPT !.admitted = @ + 1 ]
    BY <1>3 DEF TryAcquire
  <2> DEFINE y == [ e EXCEPT !.admitted = @ + 1 ]
  <2>3. e \in BreakerStates /\ e.admitted + 1 \in Nat
    BY <1>1 DEF Sound, BreakerStates
  <2> HIDE DEF e
  <2>4. y \in BreakerStates
    BY <2>3, Zenon DEF BreakerStates
  <2>5. /\ y.state = e.state /\ y.window = e.window /\ y.timer = e.timer
        /\ y.ejections = e.ejections /\ y.admitted = e.admitted + 1
        /\ y.succeeded = e.succeeded /\ y.failed = e.failed
    BY <2>3 DEF BreakerStates
  <2> HIDE DEF y
  <2>6. Sound(y)
    BY <1>1, <2>1, <2>4, <2>5, BreakerAssumption DEF Sound, BreakerStates
  <2>7. QED
    BY <1>2, <2>2, <2>6 DEF y
<1>4. CASE PermitOf(x) # "Probe"
  BY <1>1, <1>2, <1>4 DEF TryAcquire
<1>5. QED
  BY <1>3, <1>4

(* Freeing a slot of a half-open breaker, and cancel_probe on any. *)
LEMMA ReleaseSound ==
  ASSUME NEW x, Sound(x), x.state = "HalfOpen"
  PROVE  /\ Sound(ReleaseSlot(x)) /\ ReleaseSlot(x).state = "HalfOpen"
         /\ ReleaseSlot(x).ejections = x.ejections
<1> DEFINE k == IF x.admitted = 0 THEN 0 ELSE x.admitted - 1
           y == [ x EXCEPT !.admitted = k ]
<1>1. x \in BreakerStates /\ k \in Nat /\ k <= x.admitted
  BY DEF Sound, BreakerStates
<1> HIDE DEF k
<1>2. y \in BreakerStates
  BY <1>1, Zenon DEF BreakerStates
<1>3. /\ y.state = x.state /\ y.window = x.window
      /\ y.ejections = x.ejections /\ y.admitted = k
      /\ y.succeeded = x.succeeded /\ y.failed = x.failed
  BY <1>1 DEF BreakerStates
<1>4. ReleaseSlot(x) = y
  BY DEF ReleaseSlot, k
<1> HIDE DEF y
<1>5. QED
  BY <1>1, <1>2, <1>3, <1>4, BreakerAssumption DEF Sound, BreakerStates

LEMMA CancelSound ==
  ASSUME NEW x, Sound(x)
  PROVE  /\ Sound(CancelProbe(x)) /\ CancelProbe(x).state = x.state
         /\ CancelProbe(x).ejections = x.ejections
         /\ x.state # "HalfOpen" => CancelProbe(x) = x
BY ReleaseSound DEF CancelProbe

(* record_outcome in HalfOpen: the quota decides before it is exceeded. *)
LEMMA RecordProbeSound ==
  ASSUME NEW x, Sound(x), x.state = "HalfOpen", NEW o \in Outcomes
  PROVE  /\ Sound(RecordProbe(x, o))
         /\ RecordProbe(x, o).ejections >= x.ejections
         /\ RecordProbe(x, o).state = "Open" =>
              RecordProbe(x, o).timer = Cooldown(RecordProbe(x, o).ejections)
<1> DEFINE s == IF IsFailure(o) THEN x.succeeded ELSE x.succeeded + 1
           f == IF IsFailure(o) THEN x.failed + 1 ELSE x.failed
           y == [ x EXCEPT !.succeeded = s, !.failed = f ]
<1>1. x \in BreakerStates /\ x.ejections <= EjectionCap /\ x.window = << >>
  BY DEF Sound
<1>2. s \in Nat /\ f \in Nat
  BY <1>1 DEF BreakerStates
<1> HIDE DEF s, f
<1>3. CASE ~Advances(o)
  <2>1. RecordProbe(x, o) = ReleaseSlot(x)
    BY <1>3 DEF RecordProbe
  <2>2. QED
    BY <1>1, <2>1, ReleaseSound DEF BreakerStates
<1>4. CASE Advances(o) /\ s + f < MaxProbes
  <2>1. RecordProbe(x, o) = y
    BY <1>4 DEF RecordProbe, s, f
  <2>2. y \in BreakerStates
    BY <1>1, <1>2, Zenon DEF BreakerStates
  <2>3. /\ y.state = x.state /\ y.window = x.window
        /\ y.ejections = x.ejections /\ y.admitted = x.admitted
        /\ y.succeeded = s /\ y.failed = f
    BY <1>1 DEF BreakerStates
  <2> HIDE DEF y
  <2>4. QED
    BY <1>1, <1>4, <2>1, <2>2, <2>3, BreakerAssumption DEF Sound, BreakerStates
<1>5. CASE Advances(o) /\ ~(s + f < MaxProbes)
  <2>1. RecordProbe(x, o) \in {Recover(x), Eject(x)}
    BY <1>5 DEF RecordProbe, s, f
  <2>2. CASE RecordProbe(x, o) = Recover(x)
    BY <1>1, <2>2, RecoverSound DEF BreakerStates
  <2>3. CASE RecordProbe(x, o) = Eject(x)
    BY <1>1, <2>3, EjectSound
  <2>4. QED
    BY <2>1, <2>2, <2>3
<1>6. QED
  BY <1>3, <1>4, <1>5

(* record_outcome in Closed: a window that trips does not survive the trip. *)
LEMMA RecordCallSound ==
  ASSUME NEW x, Sound(x), x.state = "Closed", NEW o \in Outcomes
  PROVE  /\ Sound(RecordCall(x, o))
         /\ RecordCall(x, o).ejections >= x.ejections
         /\ RecordCall(x, o).state = "Open" =>
              RecordCall(x, o).timer = Cooldown(RecordCall(x, o).ejections)
<1> DEFINE w == Push(x.window, IF IsFailure(o) THEN "Failure" ELSE "Success")
           y == [ x EXCEPT !.window = w ]
<1>1. x \in BreakerStates /\ x.ejections <= EjectionCap
  BY DEF Sound
<1>2. w \in Seq(Slots) /\ Len(w) <= WindowSize
  BY PushType DEF Sound, BreakerStates, Slots
<1> HIDE DEF w
<1>3. CASE ~Advances(o)
  BY <1>1, <1>3 DEF RecordCall, BreakerStates
<1>4. CASE Advances(o) /\ Tripping(w)
  <2>1. RecordCall(x, o) = [ Eject(x) EXCEPT !.window = << >> ]
    BY <1>4 DEF RecordCall, w
  <2>2. QED
    BY <1>1, <2>1, EjectSound
<1>5. CASE Advances(o) /\ ~Tripping(w)
  <2>1. RecordCall(x, o) = y
    BY <1>5 DEF RecordCall, w
  <2>2. y \in BreakerStates
    BY <1>1, <1>2, Zenon DEF BreakerStates
  <2>3. /\ y.state = "Closed" /\ y.window = w
        /\ y.ejections = x.ejections /\ y.admitted = x.admitted
        /\ y.succeeded = x.succeeded /\ y.failed = x.failed
    BY <1>1 DEF BreakerStates
  <2> HIDE DEF y
  <2>4. QED
    BY <1>1, <1>2, <1>5, <2>1, <2>2, <2>3, BreakerAssumption
       DEF Sound, BreakerStates
<1>6. QED
  BY <1>3, <1>4, <1>5

(* A clock tick. *)
LEMMA AgeSound ==
  ASSUME NEW x, Sound(x)
  PROVE  /\ Sound(Age(x)) /\ Age(x).state = x.state
         /\ Age(x).ejections = x.ejections
         /\ x.state = "Open" =>
              Age(x).timer = IF x.timer = 0 THEN 0 ELSE x.timer - 1
<1>1. x \in BreakerStates
  BY DEF Sound
<1>2. PICK t \in Nat : /\ Age(x) = [ x EXCEPT !.timer = t ]
                       /\ x.state = "Open" =>
                            t = IF x.timer = 0 THEN 0 ELSE x.timer - 1
  <2>1. x.timer \in Nat /\ x.state \in {"Open", "HalfOpen", "Closed"}
    BY <1>1 DEF BreakerStates
  <2>2. CASE x.state = "Open"
    <3> DEFINE t == IF x.timer = 0 THEN 0 ELSE x.timer - 1
    <3>1. t \in Nat
      BY <2>1
    <3>2. Age(x) = [ x EXCEPT !.timer = t ]
      BY <2>2 DEF Age
    <3>3. QED
      BY <3>1, <3>2
  <2>3. CASE x.state = "HalfOpen"
    <3> DEFINE t == IF x.timer > EvalTimeout THEN x.timer ELSE x.timer + 1
    <3>1. t \in Nat
      BY <2>1
    <3>2. Age(x) = [ x EXCEPT !.timer = t ]
      BY <2>3 DEF Age
    <3>3. QED
      BY <2>3, <3>1, <3>2
  <2>4. CASE x.state = "Closed"
    <3> DEFINE t == IF x.timer >= ResetAfter THEN x.timer ELSE x.timer + 1
    <3>1. t \in Nat
      BY <2>1
    <3>2. Age(x) = [ x EXCEPT !.timer = t ]
      BY <2>4 DEF Age
    <3>3. QED
      BY <2>4, <3>1, <3>2
  <2>5. QED
    BY <2>1, <2>2, <2>3, <2>4
<1> DEFINE y == [ x EXCEPT !.timer = t ]
<1>3. y \in BreakerStates
  BY <1>1, Zenon DEF BreakerStates
<1>4. /\ y.state = x.state /\ y.window = x.window /\ y.timer = t
      /\ y.ejections = x.ejections /\ y.admitted = x.admitted
      /\ y.succeeded = x.succeeded /\ y.failed = x.failed
  BY <1>1 DEF BreakerStates
<1> HIDE DEF y
<1>5. Sound(y)
  <2>1. Cooldown(x.ejections) \in Nat
    BY <1>1, CooldownBounds, BreakerAssumption DEF BreakerStates
  <2>2. y.state = "Open" => y.timer <= Cooldown(y.ejections)
    <3>1. x.state = "Open" => t <= Cooldown(x.ejections)
      BY <1>1, <1>2, <2>1 DEF Sound, BreakerStates
    <3>2. QED
      BY <1>4, <3>1
  <2>3. QED
    BY <1>1, <1>3, <1>4, <2>2, BreakerAssumption DEF Sound, BreakerStates
<1>6. QED
  BY <1>2, <1>4, <1>5 DEF y

-----------------------------------------------------------------------------
(* What every action does to the breaker, whoever takes it. *)

Moves(x, y) ==
  /\ Sound(y)
  /\ y.state = "Open" /\ (x.state = "Open" => y.timer > x.timer) =>
       /\ x.state = "Open" => x.timer = 0
       /\ y.timer = Cooldown(y.ejections)
  /\ \/ y.ejections >= x.ejections
     \/ x.state = "Closed" /\ x.timer >= ResetAfter

LEMMA LazyMoves ==
  ASSUME NEW x, Sound(x)
  PROVE  Moves(x, LazyEvaluate(x))
<1>1. x.timer \in Nat
  BY DEF Sound, BreakerStates
<1>2. QED
  BY <1>1, LazySound DEF Moves

LEMMA AcquireMoves ==
  ASSUME NEW x, Sound(x)
  PROVE  /\ Moves(x, TryAcquire(x))
         /\ PermitOf(x) # "Rejected" =>
              /\ TryAcquire(x).state # "Open"
              /\ x.state = "Open" => x.timer = 0
<1> DEFINE e == LazyEvaluate(x)
<1>1. Sound(e) /\ Moves(x, e) /\ x.timer \in Nat
  BY LazySound, LazyMoves DEF Sound, BreakerStates
<1>2. e \in BreakerStates
  BY <1>1 DEF Sound
<1>3. Sound(TryAcquire(x))
  BY AcquireSound
<1>4. TryAcquire(x).state = e.state /\ TryAcquire(x).timer = e.timer
      /\ TryAcquire(x).ejections = e.ejections
  BY <1>2 DEF TryAcquire, BreakerStates
<1>5. PermitOf(x) # "Rejected" => e.state # "Open"
  BY DEF PermitOf
<1>6. x.state = "Open" /\ x.timer > 0 => e = x
  BY LazySound
<1> HIDE DEF e
<1>7. QED
  BY <1>1, <1>3, <1>4, <1>5, <1>6 DEF Moves

LEMMA RecordMoves ==
  ASSUME NEW x, Sound(x), NEW o \in Outcomes
  PROVE  Moves(x, RecordOutcome(x, o))
<1> DEFINE e == LazyEvaluate(x)
           y == RecordOutcome(x, o)
<1>1. Sound(e) /\ Moves(x, e) /\ x.timer \in Nat /\ x.ejections \in Nat
      /\ e.ejections \in Nat
  BY LazySound, LazyMoves DEF Sound, BreakerStates
<1>2. x.state = "Open" /\ x.timer > 0 => e = x
  BY LazySound
<1>3. CASE e.state = "Open"
  BY <1>1, <1>3 DEF RecordOutcome
<1>4. CASE e.state \in {"HalfOpen", "Closed"}
  <2>1. y \in {RecordProbe(e, o), RecordCall(e, o)}
    BY <1>4 DEF RecordOutcome
  <2>2. /\ Sound(y) /\ y.ejections >= e.ejections /\ y.ejections \in Nat
        /\ y.state = "Open" => y.timer = Cooldown(y.ejections)
    <3>1. CASE e.state = "HalfOpen"
      <4>1. y = RecordProbe(e, o)
        BY <3>1 DEF RecordOutcome
      <4>2. /\ Sound(y) /\ y.ejections >= e.ejections
            /\ y.state = "Open" => y.timer = Cooldown(y.ejections)
        <5> HIDE DEF e, y
        <5>1. QED
          BY <1>1, <3>1, <4>1, RecordProbeSound
      <4>3. y.ejections \in Nat
        <5> HIDE DEF e, y
        <5>1. QED
          BY <4>2 DEF Sound, BreakerStates
      <4>4. QED
        BY <4>2, <4>3
    <3>2. CASE e.state = "Closed"
      BY <1>1, <3>2, RecordCallSound DEF RecordOutcome, Sound, BreakerStates
    <3>3. QED
      BY <1>4, <3>1, <3>2
  <2> HIDE DEF e, y
  <2>3. x.state = "Open" => x.timer = 0
    BY <1>1, <1>2, <1>4
  <2>4. QED
    BY <1>1, <2>2, <2>3 DEF Moves, y
<1>5. QED
  BY <1>1, <1>3, <1>4 DEF Sound, BreakerStates

LEMMA CancelMoves ==
  ASSUME NEW x, Sound(x)
  PROVE  Moves(x, x) /\ Moves(x, CancelProbe(x))
<1>1. x.ejections \in Nat /\ x.timer \in Nat
  BY DEF Sound, BreakerStates
<1>2. QED
  BY <1>1, CancelSound DEF Moves

LEMMA AgeMoves ==
  ASSUME NEW x, Sound(x)
  PROVE  Moves(x, Age(x))
<1>1. x.ejections \in Nat /\ x.timer \in Nat
  BY DEF Sound, BreakerStates
<1>2. QED
  BY <1>1, AgeSound DEF Moves

(* The breaker's part of a step of the specification. *)
LEMMA StepMoves ==
  ASSUME Sound(b), [Next]_vars
  PROVE  Moves(b, b') \/ Reset
<1>1. CASE UNCHANGED vars
  BY <1>1, CancelMoves DEF vars
<1>2. CASE \E c \in Callers : Acquire(c)
  BY <1>2, AcquireMoves DEF Acquire
<1>3. CASE \E c \in Callers : Record(c)
  BY <1>3, RecordMoves DEF Record
<1>4. CASE \E c \in Callers : Unrecorded(c) \/ Dropped(c) \/ Leaked(c)
  BY <1>4, CancelMoves DEF Unrecorded, Dropped, Leaked
<1>5. CASE Observe
  BY <1>5, LazyMoves DEF Observe
<1>6. CASE Reset
  BY <1>6
<1>7. CASE Tick
  BY <1>7, AgeMoves DEF Tick
<1>8. QED
  BY <1>1, <1>2, <1>3, <1>4, <1>5, <1>6, <1>7 DEF Next

-----------------------------------------------------------------------------

LEMMA InitInv == Init => IInv
BY NewSound, BreakerAssumption DEF Init, IInv, NewBreaker

LEMMA NextInv == IInv /\ [Next]_vars => IInv'
<1> SUFFICES ASSUME IInv, [Next]_vars
             PROVE  IInv'
  OBVIOUS
<1>1. Sound(b) /\ b \in BreakerStates /\ b.ejections \in Nat /\ b.timer \in Nat
  BY DEF IInv, Sound, BreakerStates
<1>2. Sound(b') /\ b' \in BreakerStates /\ b'.ejections \in Nat /\ b'.timer \in Nat
  <2>1. Sound(b')
    BY <1>1, StepMoves, NewSound DEF Moves, Reset
  <2>2. QED
    BY <2>1 DEF Sound, BreakerStates
<1>3. permit' \in [ Callers -> {"none", "Allowed", "Probe"} ]
  <2>1. CASE \E c \in Callers : Acquire(c)
    BY <1>1, <2>1, AcquireSound DEF IInv, Acquire, Permits
  <2>2. CASE \E c \in Callers : Record(c) \/ Unrecorded(c) \/ Dropped(c) \/ Leaked(c)
    BY <2>2 DEF IInv, Record, Unrecorded, Dropped, Leaked, Back
  <2>3. CASE Observe \/ Reset \/ Tick \/ UNCHANGED vars
    BY <2>3 DEF IInv, Observe, Reset, Tick, vars
  <2>4. QED
    BY <2>1, <2>2, <2>3 DEF Next
<1>4. probing' \in SUBSET Callers
  <2>1. CASE \E c \in Callers : Acquire(c)
    BY <2>1 DEF IInv, Acquire, Tracked
  <2>2. CASE \E c \in Callers : Record(c) \/ Unrecorded(c) \/ Dropped(c) \/ Leaked(c)
    BY <2>2 DEF IInv, Record, Unrecorded, Dropped, Leaked, Tracked
  <2>3. CASE Observe \/ Reset \/ Tick \/ UNCHANGED vars
    BY <2>3 DEF IInv, Observe, Reset, Tick, Tracked, vars
  <2>4. QED
    BY <2>1, <2>2, <2>3 DEF Next
<1>5. CASE \E ps : Tracked(ps) /\ Moves(b, b')
  <2>1. owed' = IF Tripped THEN b'.timer ELSE IF LivedDown THEN 0 ELSE owed
    BY <1>5 DEF Tracked
  <2>2. Moves(b, b')
    BY <1>5
  <2>3. CASE Tripped
    BY <1>2, <1>3, <1>4, <2>1, <2>2, <2>3 DEF IInv, Moves, Tripped
  <2>4. CASE ~Tripped /\ LivedDown
    BY <1>2, <1>3, <1>4, <2>1, <2>4 DEF IInv
  <2>5. CASE ~Tripped /\ ~LivedDown
    <3>1. owed' = owed /\ owed \in Nat
      BY <2>1, <2>5 DEF IInv
    <3>2. ~(b'.state = "Closed" /\ b'.timer >= ResetAfter)
      BY <2>5 DEF LivedDown
    <3>3. owed # 0 => b.ejections <= b'.ejections
      BY <1>1, <1>2, <2>2 DEF IInv, Moves
    <3>4. owed # 0 => owed <= Cooldown(b'.ejections)
      <4>1. Cooldown(b.ejections) \in Nat /\ Cooldown(b'.ejections) \in Nat
        BY <1>1, <1>2, CooldownBounds, BreakerAssumption
      <4>2. owed # 0 => Cooldown(b.ejections) <= Cooldown(b'.ejections)
        BY <1>1, <1>2, <3>3, CooldownMonotone
      <4>3. QED
        BY <3>1, <4>1, <4>2 DEF IInv
    <3>5. QED
      BY <1>2, <1>3, <1>4, <3>1, <3>2, <3>4 DEF IInv
  <2>6. QED
    BY <2>3, <2>4, <2>5
<1>6. CASE owed' = 0
  BY <1>2, <1>3, <1>4, <1>6 DEF IInv
<1>7. CASE UNCHANGED vars
  BY <1>7 DEF IInv, vars
<1>8. CASE Reset
  BY <1>6, <1>8 DEF Reset
<1>9. ~UNCHANGED vars /\ ~Reset => \E ps : Tracked(ps)
  BY DEF Next, Acquire, Record, Unrecorded, Dropped, Leaked, Observe, Tick
<1>10. QED
  BY <1>1, <1>5, <1>7, <1>8, <1>9, StepMoves

(* IInv is an invariant of the specification. *)
THEOREM Inductive == Spec => []IInv
BY InitInv, NextInv, PTL DEF Spec

(* Every variable keeps its type, whatever the order in which requests come *)
(* back and time passes.                                                    *)
THEOREM TypeCorrect == Spec => []TypeOK
<1>1. IInv => TypeOK
  BY DEF IInv, TypeOK, Sound
<1>2. QED
  BY <1>1, Inductive, PTL

(* A half-open breaker never has more slots taken than max_probes and never *)
(* stands with enough outcomes to decide (record_outcome, cancel_probe).    *)
THEOREM QuotaKept == Spec => []HalfOpenWithinQuota
<1>1. IInv => HalfOpenWithinQuota
  BY DEF IInv, HalfOpenWithinQuota, Sound
<1>2. QED
  BY <1>1, Inductive, PTL

(* No window that warrants a trip stands in Closed, and none survives the   *)
(* way out of it (the window.clear() calls).                                *)
THEOREM WindowFresh == Spec => []WindowNeverStale
<1>1. IInv => WindowNeverStale
  BY DEF IInv, WindowNeverStale, Sound
<1>2. QED
  BY <1>1, Inductive, PTL

(* A breaker that is not closed has an ejection on record and rests no      *)
(* longer than that record earns (current_cooldown).                        *)
THEOREM RestEarned == Spec => []RestIsEarned
<1>1. IInv => RestIsEarned
  BY DEF IInv, RestIsEarned, Sound
<1>2. QED
  BY <1>1, Inductive, PTL

(* Each trip rests at least as long as the last one that was neither lived  *)
(* down nor reset (lazy_evaluate, record_outcome, current_cooldown).        *)
THEOREM BackoffMonotone == Spec => BackoffNeverShrinks
<1>1. IInv /\ IInv' /\ [Next]_vars => (Tripped => b'.timer >= owed)
  <2> SUFFICES ASSUME IInv, IInv', [Next]_vars, Tripped
               PROVE  b'.timer >= owed
    OBVIOUS
  <2>1. Sound(b) /\ b.ejections \in Nat /\ b'.ejections \in Nat /\ owed \in Nat
        /\ b'.timer \in Nat /\ b.timer \in Nat
    BY DEF IInv, Sound, BreakerStates
  <2>2. CASE Reset
    BY <2>2 DEF Reset, Tripped, NewBreaker
  <2>3. CASE Moves(b, b')
    <3>1. b'.timer = Cooldown(b'.ejections)
      BY <2>3 DEF Moves, Tripped
    <3>2. owed # 0 => b.ejections <= b'.ejections
      BY <2>1, <2>3 DEF Moves, IInv
    <3>3. owed # 0 => Cooldown(b.ejections) <= Cooldown(b'.ejections)
      BY <2>1, <3>2, CooldownMonotone
    <3>4. Cooldown(b.ejections) \in Nat /\ Cooldown(b'.ejections) \in Nat
      BY <2>1, CooldownBounds, BreakerAssumption
    <3>5. QED
      BY <2>1, <3>1, <3>3, <3>4 DEF IInv
  <2>4. QED
    BY <2>1, <2>2, <2>3, StepMoves
<1>2. QED
  BY <1>1, Inductive, PTL DEF Spec, BackoffNeverShrinks

-----------------------------------------------------------------------------
(* The refinement of CooldownGate. *)

RestOf(x) == IF x.state = "Open" THEN x.timer ELSE 0

InFlight == { c \in Callers : Held(c) }

(* A resting breaker is left alone by everything but time and reset. *)
LEMMA RestUndisturbed ==
  ASSUME NEW x, Sound(x), x.state = "Open", x.timer > 0
  PROVE  /\ LazyEvaluate(x) = x /\ CancelProbe(x) = x
         /\ TryAcquire(x) = x /\ PermitOf(x) = "Rejected"
         /\ \A o \in Outcomes : RecordOutcome(x, o) = x
<1>1. LazyEvaluate(x) = x
  BY LazySound
<1>2. PermitOf(x) = "Rejected"
  BY <1>1 DEF PermitOf
<1>3. QED
  BY <1>1, <1>2 DEF CancelProbe, TryAcquire, RecordOutcome

(* A step that is neither a tick nor a reset leaves the rest as it is or    *)
(* trips a breaker that was not resting.                                    *)
LEMMA RestStep ==
  ASSUME NEW x, NEW y, Sound(x), Moves(x, y),
         x.state = "Open" /\ x.timer > 0 => y = x
  PROVE  \/ RestOf(y) = RestOf(x)
         \/ RestOf(x) = 0 /\ RestOf(y) \in BaseCooldown..MaxCooldown
<1>1. /\ x.timer \in Nat /\ y.timer \in Nat /\ y.ejections \in Nat
  BY DEF Moves, Sound, BreakerStates
<1>2. Cooldown(y.ejections) \in BaseCooldown..MaxCooldown
  BY <1>1, CooldownBounds
<1>3. QED
  BY <1>1, <1>2 DEF RestOf, Moves

LEMMA GateStep == IInv /\ [Next]_vars => [Gate!GateNext]_(Gate!gateVars)
<1> SUFFICES ASSUME IInv, [Next]_vars
             PROVE  [Gate!GateNext]_(Gate!gateVars)
  OBVIOUS
<1> USE DEF RestOf, InFlight
<1>1. Sound(b) /\ b.timer \in Nat /\ permit \in [ Callers -> {"none", "Allowed", "Probe"} ]
  BY DEF IInv, Sound, BreakerStates
<1> DEFINE Still == \/ RestOf(b') = RestOf(b)
                    \/ RestOf(b) = 0 /\ RestOf(b') \in BaseCooldown..MaxCooldown
<1>2. CASE UNCHANGED vars
  BY <1>2 DEF vars, Gate!gateVars, Held
<1>3. ASSUME NEW c \in Callers, Acquire(c)
      PROVE  Gate!GateNext \/ UNCHANGED Gate!gateVars
  <2>1. Still
    BY <1>1, <1>3, RestStep, AcquireMoves, RestUndisturbed DEF Acquire
  <2>2. CASE PermitOf(b) = "Rejected"
    <3>1. InFlight' = InFlight
      BY <1>1, <1>3, <2>2 DEF Acquire, Held
    <3>2. QED
      BY <2>1, <3>1 DEF Gate!GateNext, Gate!Lapse, Gate!Trip, Gate!gateVars
  <2>3. CASE PermitOf(b) # "Rejected"
    <3>1. RestOf(b) = 0 /\ RestOf(b') = 0
      BY <1>1, <1>3, <2>3, AcquireMoves DEF Acquire
    <3>2. PermitOf(b) # "none"
      BY <1>1, AcquireSound DEF Permits
    <3>3. InFlight' = InFlight \cup {c} /\ c \notin InFlight
      BY <1>1, <1>3, <2>3, <3>2 DEF Acquire, Held
    <3>4. Gate!Enter(c)
      BY <3>1, <3>3 DEF Gate!Enter
    <3>5. QED
      BY <3>4 DEF Gate!GateNext
  <2>4. QED
    BY <2>2, <2>3
<1>4. ASSUME NEW c \in Callers, Record(c) \/ Unrecorded(c) \/ Dropped(c) \/ Leaked(c)
      PROVE  Gate!GateNext
  <2>1. Still
    <3>1. Moves(b, b') /\ (b.state = "Open" /\ b.timer > 0 => b' = b)
      BY <1>1, <1>4, RecordMoves, CancelMoves, RestUndisturbed
         DEF Record, Unrecorded, Dropped, Leaked
    <3>2. QED
      BY <1>1, <3>1, RestStep
  <2>2. c \in InFlight /\ InFlight' = InFlight \ {c}
    BY <1>1, <1>4 DEF Record, Unrecorded, Dropped, Leaked, Back, Held
  <2>3. Gate!Leave(c)
    BY <2>1, <2>2 DEF Gate!Leave, Gate!Trip
  <2>4. QED
    BY <2>3 DEF Gate!GateNext
<1>5. CASE Observe
  <2>1. Still
    BY <1>1, <1>5, RestStep, LazyMoves, RestUndisturbed DEF Observe
  <2>2. InFlight' = InFlight
    BY <1>5 DEF Observe, Held
  <2>3. QED
    BY <2>1, <2>2 DEF Gate!GateNext, Gate!Lapse, Gate!Trip, Gate!gateVars
<1>6. CASE Reset
  BY <1>6 DEF Reset, NewBreaker, Held, Gate!GateNext, Gate!Override
<1>7. CASE Tick
  <2>1. InFlight' = InFlight
    BY <1>7 DEF Tick, Held
  <2>2. RestOf(b') = IF RestOf(b) > 0 THEN RestOf(b) - 1 ELSE 0
    BY <1>1, <1>7, AgeSound DEF Tick
  <2>3. QED
    BY <1>1, <2>1, <2>2 DEF Gate!GateNext, Gate!Rest, Gate!gateVars
<1>8. QED
  BY <1>2, <1>3, <1>4, <1>5, <1>6, <1>7 DEF Next

(* The circuit breaker implements the cooldown gate: nobody is let through  *)
(* while it rests, and every rest lies between base_cooldown and            *)
(* max_cooldown (try_acquire, record_outcome, lazy_evaluate).               *)
THEOREM ImplementsGate == Spec => KeepsGate
<1>1. Init => Gate!GateInit
  BY DEF Init, NewBreaker, Held, Gate!GateInit
<1>2. IInv /\ [Next]_vars => [Gate!GateNext]_(Gate!gateVars)
  BY GateStep
<1>3. QED
  BY <1>1, <1>2, Inductive, PTL DEF Spec, KeepsGate, Gate!GateSpec

-----------------------------------------------------------------------------
(* The registry: what each operation does to the books of a breaker.        *)

(* The slots of a half-open breaker are covered by its outcomes and k more. *)
Backed(x, k) ==
  x.state = "HalfOpen" => x.admitted <= x.succeeded + x.failed + k

(* What a step may do to the books of a breaker: it asks for nothing, it    *)
(* takes a slot, or it accounts for one.                                    *)
Kept(x, y) == \A k \in Nat : Backed(x, k) => Backed(y, k)

Took(x, y) == \A k \in Nat : Backed(x, k) => Backed(y, k + 1)

Gave(x, y) == \A k \in Nat : Backed(x, k + 1) => Backed(y, k)

Windowed(x, y) == y.window \in {x.window, << >>}

LEMMA GaveKept ==
  ASSUME NEW x, NEW y, x \in BreakerStates, y \in BreakerStates, Gave(x, y)
  PROVE  Kept(x, y)
<1> SUFFICES ASSUME NEW k \in Nat, Backed(x, k)
             PROVE  Backed(y, k)
  BY DEF Kept
<1>1. Backed(x, k + 1)
  BY DEF Backed, BreakerStates
<1>2. QED
  BY <1>1 DEF Gave

LEMMA LazyKept ==
  ASSUME NEW x, Sound(x)
  PROVE  Kept(x, LazyEvaluate(x)) /\ Windowed(x, LazyEvaluate(x))
<1>0. x \in BreakerStates /\ (x.state = "Open" => x.admitted = 0 /\ x.succeeded = 0 /\ x.failed = 0)
  BY DEF Sound
<1> SUFFICES ASSUME NEW k \in Nat
             PROVE  /\ Backed(x, k) => Backed(LazyEvaluate(x), k)
                    /\ Windowed(x, LazyEvaluate(x))
  BY DEF Kept
<1>1. CASE CooldownOver(x)
  <2>1. LazyEvaluate(x) = [ x EXCEPT !.state = "HalfOpen", !.timer = 0 ]
    BY <1>1 DEF LazyEvaluate, StartProbing, CooldownOver, EvalExpired, ForgiveDue
  <2> DEFINE y == [ x EXCEPT !.state = "HalfOpen", !.timer = 0 ]
  <2>2. y.admitted = 0 /\ y.succeeded = 0 /\ y.failed = 0 /\ y.window = x.window
    BY <1>0, <1>1 DEF BreakerStates, CooldownOver
  <2> HIDE DEF y
  <2>3. Backed(y, k) /\ Windowed(x, y)
    BY <2>2 DEF Backed, Windowed
  <2>4. QED
    BY <2>1, <2>3 DEF y
<1>2. CASE ~CooldownOver(x) /\ EvalExpired(x)
  <2>1. LazyEvaluate(x) \in {Eject(x), Recover(x)}
    BY <1>2 DEF LazyEvaluate, EvalExpired, ForgiveDue
  <2>2. /\ Eject(x).state = "Open" /\ Eject(x).window = x.window
        /\ Recover(x).state = "Closed" /\ Recover(x).window = << >>
    BY <1>0 DEF Eject, Recover, BreakerStates
  <2>3. QED
    BY <2>1, <2>2 DEF Backed, Windowed
<1>3. CASE ForgiveDue(x)
  <2>1. LazyEvaluate(x) = [ x EXCEPT !.ejections = 0 ]
    BY <1>3 DEF LazyEvaluate, CooldownOver, EvalExpired, ForgiveDue
  <2>2. /\ LazyEvaluate(x).state = "Closed" /\ LazyEvaluate(x).window = x.window
    BY <1>0, <1>3, <2>1 DEF BreakerStates, ForgiveDue
  <2>3. QED
    BY <2>2 DEF Backed, Windowed
<1>4. CASE ~CooldownOver(x) /\ ~EvalExpired(x) /\ ~ForgiveDue(x)
  <2>1. LazyEvaluate(x) = x
    BY <1>4 DEF LazyEvaluate
  <2>2. QED
    BY <2>1 DEF Windowed
<1>5. QED
  BY <1>1, <1>2, <1>3, <1>4

(* try_acquire takes a slot exactly when it answers with a probe. *)
LEMMA AcquireTook ==
  ASSUME NEW x, Sound(x)
  PROVE  /\ PermitOf(x) = "Probe" => Took(x, TryAcquire(x))
         /\ PermitOf(x) # "Probe" => Kept(x, TryAcquire(x))
         /\ Windowed(x, TryAcquire(x))
<1> DEFINE e == LazyEvaluate(x)
<1>1. Sound(e) /\ Kept(x, e) /\ Windowed(x, e)
  BY LazySound, LazyKept
<1>2. e \in BreakerStates
  BY <1>1 DEF Sound
<1>3. CASE PermitOf(x) # "Probe"
  BY <1>1, <1>3 DEF TryAcquire
<1>4. CASE PermitOf(x) = "Probe"
  <2> DEFINE y == [ e EXCEPT !.admitted = @ + 1 ]
  <2>1. TryAcquire(x) = y
    BY <1>4 DEF TryAcquire
  <2>2. /\ y.state = e.state /\ y.admitted = e.admitted + 1
        /\ y.succeeded = e.succeeded /\ y.failed = e.failed /\ y.window = e.window
    BY <1>2 DEF BreakerStates
  <2>3. ASSUME NEW k \in Nat, Backed(x, k)
        PROVE  Backed(y, k + 1)
    <3>1. Backed(e, k)
      BY <1>1, <2>3 DEF Kept
    <3> HIDE DEF e, y
    <3>2. QED
      BY <1>2, <2>2, <3>1 DEF Backed, BreakerStates
  <2>4. Windowed(x, y)
    BY <1>1, <2>2 DEF Windowed
  <2>5. QED
    BY <1>4, <2>1, <2>3, <2>4 DEF Took
<1>5. QED
  BY <1>3, <1>4

(* A slot given back is a slot less, or none was taken. *)
LEMMA ReleaseGave ==
  ASSUME NEW x, Sound(x)
  PROVE  Gave(x, ReleaseSlot(x)) /\ Windowed(x, ReleaseSlot(x))
<1> DEFINE n == IF x.admitted = 0 THEN 0 ELSE x.admitted - 1
           y == [ x EXCEPT !.admitted = n ]
<1>1. x \in BreakerStates /\ ReleaseSlot(x) = y
  BY DEF Sound, ReleaseSlot
<1>2. /\ y.state = x.state /\ y.admitted = n
      /\ y.succeeded = x.succeeded /\ y.failed = x.failed /\ y.window = x.window
  BY <1>1 DEF BreakerStates
<1>3. ASSUME NEW k \in Nat, Backed(x, k + 1)
      PROVE  Backed(y, k)
  <2> HIDE DEF y
  <2>1. QED
    BY <1>1, <1>2, <1>3 DEF Backed, BreakerStates
<1>4. QED
  BY <1>1, <1>2, <1>3 DEF Gave, Windowed

LEMMA CancelGave ==
  ASSUME NEW x, Sound(x)
  PROVE  Gave(x, CancelProbe(x)) /\ Windowed(x, CancelProbe(x))
<1>1. CASE x.state = "HalfOpen"
  BY <1>1, ReleaseGave DEF CancelProbe
<1>2. CASE x.state # "HalfOpen"
  BY <1>2 DEF CancelProbe, Gave, Backed, Windowed
<1>3. QED
  BY <1>1, <1>2

(* The host's refusal: the global slot goes back at once. *)
LEMMA RefusalKept ==
  ASSUME NEW x, Sound(x)
  PROVE  /\ Sound(AfterRefusal(TryAcquire(x), PermitOf(x)))
         /\ Kept(x, AfterRefusal(TryAcquire(x), PermitOf(x)))
         /\ Windowed(x, AfterRefusal(TryAcquire(x), PermitOf(x)))
<1> DEFINE g == TryAcquire(x)
<1>1. Sound(g) /\ Windowed(x, g)
  BY AcquireSound, AcquireTook
<1>2. CASE PermitOf(x) # "Probe"
  BY <1>1, <1>2, AcquireTook DEF AfterRefusal
<1>3. CASE PermitOf(x) = "Probe"
  <2>1. AfterRefusal(g, PermitOf(x)) = CancelProbe(g)
    BY <1>3 DEF AfterRefusal
  <2>2. Took(x, g)
    BY <1>3, AcquireTook
  <2>3. Sound(CancelProbe(g)) /\ Gave(g, CancelProbe(g)) /\ Windowed(g, CancelProbe(g))
    BY <1>1, CancelSound, CancelGave
  <2> HIDE DEF g
  <2>4. Kept(x, CancelProbe(g))
    BY <2>2, <2>3 DEF Took, Gave, Kept
  <2>5. QED
    BY <1>1, <2>1, <2>3, <2>4 DEF Windowed, g
<1>4. QED
  BY <1>2, <1>3

(* Outcomes as the arms of an attempt classify them. *)
LEMMA VerdictType ==
  ASSUME NEW kind \in Kinds, NEW v \in VerdictsOf(kind)
  PROVE  v \in Outcomes
BY DEF Kinds, VerdictsOf, Classify, Outcomes

(* record_outcome: whatever it does with the outcome, a slot is accounted   *)
(* for, and the window is the old one, a longer one, or empty.              *)
LEMMA RecordGave ==
  ASSUME NEW x, Sound(x), NEW o \in Outcomes
  PROVE  /\ Sound(RecordOutcome(x, o))
         /\ Gave(x, RecordOutcome(x, o))
         /\ \/ Windowed(x, RecordOutcome(x, o))
            \/ /\ RecordOutcome(x, o).window =
                    Push(x.window, IF IsFailure(o) THEN "Failure" ELSE "Success")
<1> DEFINE e == LazyEvaluate(x)
           r == RecordOutcome(x, o)
<1>1. Sound(e) /\ Kept(x, e) /\ Windowed(x, e) /\ e \in BreakerStates
  BY LazySound, LazyKept DEF Sound
<1>2. CASE e.state = "HalfOpen"
  <2>1. r = RecordProbe(e, o)
    BY <1>2 DEF RecordOutcome
  <2>2. Sound(r)
    BY <1>1, <1>2, <2>1, RecordProbeSound
  <2>3. Gave(e, r) /\ Windowed(e, r)
    <3> DEFINE s == IF IsFailure(o) THEN e.succeeded ELSE e.succeeded + 1
               f == IF IsFailure(o) THEN e.failed + 1 ELSE e.failed
               y == [ e EXCEPT !.succeeded = s, !.failed = f ]
    <3>1. CASE ~Advances(o)
      BY <1>1, <2>1, <3>1, ReleaseGave DEF RecordProbe
    <3>2. CASE Advances(o) /\ s + f < MaxProbes
      <4>1. r = y
        BY <2>1, <3>2 DEF RecordProbe
      <4>2. /\ y.state = e.state /\ y.admitted = e.admitted /\ y.window = e.window
            /\ y.succeeded + y.failed = e.succeeded + e.failed + 1
        BY <1>1 DEF BreakerStates
      <4> HIDE DEF y
      <4>3. ASSUME NEW k \in Nat, Backed(e, k + 1)
            PROVE  Backed(y, k)
        <5>1. \A m \in Nat : m + (k + 1) = (m + 1) + k
          OBVIOUS
        <5>2. e.succeeded + e.failed \in Nat
          BY <1>1 DEF BreakerStates
        <5> HIDE DEF e
        <5>3. QED
          BY <4>2, <4>3, <5>1, <5>2 DEF Backed
      <4>4. QED
        BY <4>1, <4>2, <4>3 DEF Gave, Windowed
    <3>3. CASE Advances(o) /\ ~(s + f < MaxProbes)
      <4>1. r \in {Recover(e), Eject(e)}
        BY <2>1, <3>3 DEF RecordProbe
      <4>2. /\ Eject(e).state = "Open" /\ Eject(e).window = e.window
            /\ Recover(e).state = "Closed" /\ Recover(e).window = << >>
        BY <1>1 DEF Eject, Recover, BreakerStates
      <4>3. QED
        BY <4>1, <4>2 DEF Gave, Backed, Windowed
    <3>4. QED
      BY <3>1, <3>2, <3>3
  <2> HIDE DEF e, r
  <2>4. Gave(x, r)
    BY <1>1, <2>3 DEF Gave, Kept
  <2>5. Windowed(x, r)
    BY <1>1, <2>3 DEF Windowed
  <2>6. QED
    BY <2>2, <2>4, <2>5 DEF r
<1>3. CASE e.state = "Closed"
  <2>1. r = RecordCall(e, o)
    BY <1>3 DEF RecordOutcome
  <2>2. Sound(r)
    BY <1>1, <1>3, <2>1, RecordCallSound
  <2>3. r.state \in {"Closed", "Open"} /\ (Windowed(e, r) \/
           r.window = Push(e.window, IF IsFailure(o) THEN "Failure" ELSE "Success"))
    <3> DEFINE w == Push(e.window, IF IsFailure(o) THEN "Failure" ELSE "Success")
    <3>1. r \in {e, [ Eject(e) EXCEPT !.window = << >> ], [ e EXCEPT !.window = w ]}
      BY <2>1 DEF RecordCall
    <3>2. /\ [ Eject(e) EXCEPT !.window = << >> ].state = "Open"
          /\ [ Eject(e) EXCEPT !.window = << >> ].window = << >>
      BY <1>1 DEF Eject, BreakerStates
    <3>3. [ e EXCEPT !.window = w ].state = "Closed" /\ [ e EXCEPT !.window = w ].window = w
      BY <1>1, <1>3 DEF BreakerStates
    <3>4. QED
      BY <1>3, <3>1, <3>2, <3>3 DEF Windowed
  <2>4. x.window = e.window \/ e.window = << >>
    BY <1>1 DEF Windowed
  <2>5. CASE e.window # x.window
    <3>1. x.state = "HalfOpen" \/ x.state = "Open"
      <4>1. x \in BreakerStates
        BY DEF Sound
      <4>2. x.state # "Closed"
        <5>1. SUFFICES ASSUME x.state = "Closed"
                       PROVE  e.window = x.window
          BY <2>5
        <5>2. LazyEvaluate(x) = x \/ LazyEvaluate(x) = [ x EXCEPT !.ejections = 0 ]
          BY <5>1 DEF LazyEvaluate, CooldownOver, EvalExpired
        <5>3. QED
          BY <4>1, <5>2 DEF BreakerStates
      <4>3. QED
        BY <4>1, <4>2 DEF BreakerStates
    <3>2. QED
      BY <2>4, <2>5, <3>1 DEF Sound
  <2>6. CASE e.window = x.window
    BY <2>1, <2>2, <2>3, <2>6 DEF Gave, Backed, Windowed
  <2>7. QED
    BY <2>5, <2>6
<1>4. CASE e.state \notin {"HalfOpen", "Closed"}
  <2>1. r = e
    BY <1>4 DEF RecordOutcome
  <2>2. QED
    BY <1>1, <1>4, <2>1 DEF Gave, Backed
<1>5. QED
  BY <1>2, <1>3, <1>4

(* A tick of the clock. *)
LEMMA AgeKept ==
  ASSUME NEW x, Sound(x)
  PROVE  Kept(x, Age(x)) /\ Windowed(x, Age(x))
<1>1. x \in BreakerStates
  BY DEF Sound
<1>2. PICK t : Age(x) = [ x EXCEPT !.timer = t ]
  BY <1>1 DEF Age, BreakerStates
<1>3. /\ Age(x).state = x.state /\ Age(x).admitted = x.admitted
      /\ Age(x).succeeded = x.succeeded /\ Age(x).failed = x.failed
      /\ Age(x).window = x.window
  BY <1>1, <1>2 DEF BreakerStates
<1>4. QED
  BY <1>3 DEF Kept, Backed, Windowed

(* The failures of a window are counted, and a slot adds at most one. *)
FailedSlots(w) == { i \in DOMAIN w : w[i] = "Failure" }

LEMMA FailuresFinite ==
  ASSUME NEW w \in Seq(Slots)
  PROVE  /\ IsFiniteSet(FailedSlots(w)) /\ Failures(w) = Cardinality(FailedSlots(w))
         /\ Failures(w) \in 0..Len(w) /\ Failures(w) \in Nat
<1>1. Len(w) \in Nat /\ DOMAIN w = 1..Len(w)
  OBVIOUS
<1>2. IsFiniteSet(1..Len(w)) /\ Cardinality(1..Len(w)) = Len(w)
  <2>1. 1 <= Len(w) + 1
    BY <1>1
  <2>2. QED
    BY <1>1, FS_Interval
<1>3. FailedSlots(w) \subseteq 1..Len(w)
  BY <1>1 DEF FailedSlots
<1>4. IsFiniteSet(FailedSlots(w)) /\ Cardinality(FailedSlots(w)) <= Len(w)
  BY <1>2, <1>3, FS_Subset
<1>5. Cardinality(FailedSlots(w)) \in Nat
  BY <1>4, FS_CardinalityType
<1>6. Failures(w) = Cardinality(FailedSlots(w))
  BY DEF Failures, FailedSlots
<1>7. QED
  BY <1>1, <1>4, <1>5, <1>6

LEMMA NoFailures == Failures(<< >>) = 0
<1>1. << >> \in Seq(Slots) /\ Len(<< >>) = 0
  OBVIOUS
<1>2. Failures(<< >>) \in 0..Len(<< >>)
  BY <1>1, FailuresFinite
<1>3. QED
  BY <1>1, <1>2

LEMMA FailuresAppend ==
  ASSUME NEW w \in Seq(Slots), NEW s \in Slots, NEW p, p = Append(w, s)
  PROVE  /\ p \in Seq(Slots)
         /\ Failures(p) <= IF s = "Failure" THEN Failures(w) + 1 ELSE Failures(w)
<1> DEFINE n == Len(w) + 1
<1>1. /\ p \in Seq(Slots) /\ n \in Nat /\ DOMAIN p = 1..n /\ DOMAIN w = 1..Len(w)
      /\ Len(w) \in Nat /\ p[n] = s /\ \A i \in 1..Len(w) : p[i] = w[i]
  OBVIOUS
<1>2. 1..n = 1..Len(w) \cup {n}
  BY <1>1
<1>0. /\ Failures(p) = Cardinality(FailedSlots(p)) /\ Failures(p) \in Nat
      /\ Failures(w) = Cardinality(FailedSlots(w)) /\ Failures(w) \in Nat
  BY <1>1, FailuresFinite
<1> HIDE DEF n
<1>3. CASE s = "Failure"
  <2>1. FailedSlots(p) = FailedSlots(w) \cup {n}
    BY <1>1, <1>2, <1>3 DEF FailedSlots
  <2>2. n \notin FailedSlots(w)
    BY <1>1 DEF FailedSlots, n
  <2>3. Cardinality(FailedSlots(p)) = Cardinality(FailedSlots(w)) + 1
    <3>1. IsFiniteSet(FailedSlots(w))
      BY <1>1, FailuresFinite
    <3>2. QED
      BY <2>1, <2>2, <3>1, FS_AddElement
  <2>4. QED
    BY <1>0, <1>1, <1>3, <2>3
<1>4. CASE s # "Failure"
  <2>1. FailedSlots(p) = FailedSlots(w)
    BY <1>1, <1>2, <1>4 DEF FailedSlots, n
  <2>2. QED
    BY <1>0, <1>1, <1>4, <2>1
<1>5. QED
  BY <1>3, <1>4

LEMMA FailuresTail ==
  ASSUME NEW w \in Seq(Slots), w # << >>, NEW t, t = Tail(w)
  PROVE  t \in Seq(Slots) /\ Failures(t) <= Failures(w)
<1>1. /\ t \in Seq(Slots) /\ DOMAIN t = 1..Len(t) /\ DOMAIN w = 1..Len(w)
      /\ \A i \in 1..Len(t) : t[i] = w[i + 1] /\ i + 1 \in 1..Len(w)
  OBVIOUS
<1> DEFINE f == [ i \in FailedSlots(t) |-> i + 1 ]
<1>2. \A i \in FailedSlots(t) : i \in Nat /\ i + 1 \in FailedSlots(w)
  BY <1>1 DEF FailedSlots
<1>3. f \in Injection(FailedSlots(t), FailedSlots(w))
  BY <1>2 DEF Injection, IsInjective
<1>4. Cardinality(FailedSlots(t)) <= Cardinality(FailedSlots(w))
  BY <1>1, <1>3, FailuresFinite, FS_Injection
<1>5. QED
  BY <1>1, <1>4, FailuresFinite

LEMMA FailuresPush ==
  ASSUME NEW w \in Seq(Slots), Len(w) <= WindowSize, NEW s \in Slots
  PROVE  /\ Failures(Push(w, s)) <= IF s = "Failure" THEN Failures(w) + 1 ELSE Failures(w)
         /\ Failures(Push(w, s)) \in 0..WindowSize /\ Failures(w) \in 0..WindowSize
<1>1. PICK q \in Seq(Slots) : Push(w, s) = Append(q, s) /\ Failures(q) <= Failures(w)
  <2>1. CASE Len(w) < WindowSize
    <3>1. Push(w, s) = Append(w, s)
      BY <2>1 DEF Push
    <3>2. Failures(w) <= Failures(w)
      BY FailuresFinite
    <3>3. QED
      BY <3>1, <3>2
  <2>2. CASE ~(Len(w) < WindowSize)
    <3>1. Push(w, s) = Append(Tail(w), s)
      BY <2>2 DEF Push
    <3>2. w # << >>
      BY <2>2, BreakerAssumption
    <3>3. QED
      BY <3>1, <3>2, FailuresTail
  <2>3. QED
    BY <2>1, <2>2
<1>2. Push(w, s) \in Seq(Slots) /\ Len(Push(w, s)) <= WindowSize /\ Len(Push(w, s)) \in Nat
  BY PushType
<1>3. /\ Failures(Push(w, s)) \in 0..WindowSize /\ Failures(w) \in 0..WindowSize
      /\ Failures(q) \in Nat
  <2>1. Len(w) \in Nat
    OBVIOUS
  <2>2. /\ Failures(Push(w, s)) \in 0..Len(Push(w, s)) /\ Failures(w) \in 0..Len(w)
        /\ Failures(q) \in 0..Len(q)
    BY <1>2, FailuresFinite
  <2>3. QED
    BY <1>2, <2>1, <2>2, BreakerAssumption
<1>4. Failures(Push(w, s)) <= IF s = "Failure" THEN Failures(q) + 1 ELSE Failures(q)
  BY <1>1, FailuresAppend
<1>5. QED
  BY <1>1, <1>3, <1>4

-----------------------------------------------------------------------------
(* The books of one scope: outside a half-open period nobody holds a slot   *)
(* and none is lost; in one, every slot is covered unless one was lost.     *)
Books(s) ==
  /\ IsFiniteSet(holders[s])
  /\ brk[s].state # "HalfOpen" => holders[s] = {} /\ ~lost[s]
  /\ lost[s] \/ Backed(brk[s], Cardinality(holders[s]))

(* Where a request can stand while it holds a slot of scope s: the global   *)
(* slot is accounted for before the await of record_scoped_outcome, the     *)
(* host's after it, and a leaking request never took a global one.          *)
MayHold(r, s) ==
  \/ s = Global /\ r.at \in {"acquired", "guarded"}
  \/ s = r.host /\ r.at \in {"acquired", "guarded", "leaking", "halfway"}

Placed == \A c \in Requests : call[c].at # "idle" => call[c].host \in Hosts

(* The global window carries no failure but those counted as evidence.      *)
Evident == Failures(brk[Global].window) <= evidence

RegistryInv ==
  /\ RegistryTypeOK
  /\ \A s \in Scopes : Sound(brk[s])
  /\ Placed
  /\ \A s \in Scopes : Books(s)
  /\ \A s \in Scopes : \A c \in holders[s] : MayHold(call[c], s)
  /\ Evident

(* One request's move keeps the books of every scope it touches or not.     *)
LEMMA BooksFollow ==
  ASSUME NEW c, NEW took, NEW gave, NEW gone, NEW s \in Scopes,
         Follow(c, took, gave, gone), Books(s), lost[s] \in BOOLEAN,
         s \in took => /\ Took(brk[s], brk'[s])
                       /\ c \notin holders[s] /\ s \notin gave \cup gone,
         s \notin took => Kept(brk[s], brk'[s]),
         s \in gave => Gave(brk[s], brk'[s])
  PROVE  Books(s)'
<1> DEFINE n == Cardinality(holders[s])
<1>1. n \in Nat /\ IsFiniteSet(holders[s])
  BY FS_CardinalityType DEF Books
<1>2. CASE brk'[s].state # "HalfOpen"
  <2>1. holders'[s] = {} /\ lost'[s] = FALSE
    BY <1>2 DEF Follow
  <2>2. QED
    BY <1>2, <2>1, FS_EmptySet DEF Books, Backed
<1>3. CASE brk'[s].state = "HalfOpen"
  <2>1. /\ holders'[s] = (holders[s] \ IF s \in gave \cup gone THEN {c} ELSE {})
                         \cup IF s \in took THEN {c} ELSE {}
        /\ lost'[s] = (lost[s] \/ (s \in gone /\ c \in holders[s]))
    BY <1>3 DEF Follow
  <2>2. CASE s \in took
    <3>1. holders'[s] = holders[s] \cup {c} /\ c \notin holders[s]
      BY <2>1, <2>2
    <3>2. IsFiniteSet(holders'[s]) /\ Cardinality(holders'[s]) = n + 1
      <4>1. IsFiniteSet(holders[s] \cup {c})
        BY <1>1, FS_AddElement
      <4>2. Cardinality(holders[s] \cup {c}) = n + 1
        BY <1>1, <3>1, FS_AddElement
      <4>3. QED
        BY <3>1, <4>1, <4>2
    <3>3. lost[s] \/ Backed(brk[s], n)
      BY DEF Books
    <3>4. lost'[s] \/ Backed(brk'[s], n + 1)
      BY <1>1, <2>1, <2>2, <3>3 DEF Took
    <3>5. lost'[s] \/ Backed(brk'[s], Cardinality(holders'[s]))
      BY <3>2, <3>4, Zenon
    <3>6. QED
      BY <1>3, <3>2, <3>5 DEF Books
  <2>3. CASE s \notin took /\ ~(s \in gave \cup gone /\ c \in holders[s])
    <3>1. holders'[s] = holders[s] /\ lost'[s] = lost[s]
      BY <2>1, <2>3
    <3>2. lost[s] \/ Backed(brk'[s], n)
      BY <1>1, <2>3 DEF Books, Kept
    <3>3. QED
      BY <1>1, <1>3, <3>1, <3>2 DEF Books
  <2>4. CASE s \notin took /\ s \in gave \cup gone /\ c \in holders[s]
    <3>1. holders'[s] = holders[s] \ {c}
      BY <2>1, <2>4
    <3>2. IsFiniteSet(holders'[s]) /\ Cardinality(holders'[s]) = n - 1
      <4>1. IsFiniteSet(holders[s]) /\ c \in holders[s]
        BY <1>1, <2>4
      <4>2. /\ IsFiniteSet(holders[s] \ {c})
            /\ Cardinality(holders[s] \ {c}) = Cardinality(holders[s]) - 1
        BY <4>1, FS_RemoveElement
      <4>3. QED
        BY <3>1, <4>2
    <3>3. Cardinality(holders'[s]) \in Nat
      BY <3>2, FS_CardinalityType
    <3>4. lost'[s] \/ Backed(brk'[s], Cardinality(holders'[s]))
      <4>1. CASE s \in gone
        BY <2>1, <2>4, <4>1
      <4>2. CASE s \notin gone
        <5>1. n = Cardinality(holders'[s]) + 1
          BY <1>1, <3>2
        <5>2. Gave(brk[s], brk'[s])
          BY <2>4, <4>2
        <5>3. lost[s] \/ Backed(brk[s], Cardinality(holders'[s]) + 1)
          BY <5>1 DEF Books
        <5>4. QED
          BY <2>1, <3>3, <5>2, <5>3 DEF Gave
      <4>3. QED
        BY <4>1, <4>2
    <3>5. QED
      BY <1>3, <3>2, <3>4 DEF Books
  <2>5. QED
    BY <2>2, <2>3, <2>4
<1>4. QED
  BY <1>2, <1>3

LEMMA FollowType ==
  ASSUME NEW c, NEW took, NEW gave, NEW gone, Follow(c, took, gave, gone),
         holders \in [ Scopes -> SUBSET Requests ], c \in Requests \/ took = {}
  PROVE  /\ holders' \in [ Scopes -> SUBSET Requests ]
         /\ lost' \in [ Scopes -> BOOLEAN ]
         /\ \A s \in Scopes : \A d \in holders'[s] :
              \/ d = c /\ s \in took
              \/ d \in holders[s] /\ (d = c => s \notin gave \cup gone)
<1>1. \A s \in Scopes : \A d \in holders'[s] :
        \/ d = c /\ s \in took
        \/ d \in holders[s] /\ (d = c => s \notin gave \cup gone)
  BY DEF Follow
<1>2. \A s \in Scopes : holders'[s] \subseteq Requests
  BY <1>1
<1>3. holders' = [ s \in Scopes |-> holders'[s] ] /\ lost' = [ s \in Scopes |-> lost'[s] ]
  BY DEF Follow
<1>4. \A s \in Scopes : lost'[s] \in BOOLEAN
  BY DEF Follow
<1>5. QED
  BY <1>1, <1>2, <1>3, <1>4

(* How a scope fares in a step of request c, which leaves it with record r. *)
Fares(c, r, took, gave, gone, s) ==
  /\ Sound(brk'[s])
  /\ s \in took => /\ Took(brk[s], brk'[s]) /\ MayHold(r, s)
                   /\ c \notin holders[s] /\ s \notin gave \cup gone
  /\ s \notin took => Kept(brk[s], brk'[s])
  /\ s \in gave => Gave(brk[s], brk'[s])
  /\ c \in holders[s] /\ s \notin gave \cup gone => MayHold(r, s)

(* A step of one request that follows the breakers it touches.              *)
LEMMA RequestStep ==
  ASSUME RegistryInv, NEW c \in Requests, NEW r \in Calls,
         NEW took, NEW gave, NEW gone,
         call' = [ call EXCEPT ![c] = r ],
         r.at # "idle" => r.host \in Hosts,
         Follow(c, took, gave, gone),
         brk' = [ s \in Scopes |-> brk'[s] ],
         \A s \in Scopes : Fares(c, r, took, gave, gone, s),
         evidence' \in 0..WindowSize, Evident'
  PROVE  RegistryInv'
<1>1. /\ call \in [ Requests -> Calls ] /\ holders \in [ Scopes -> SUBSET Requests ]
      /\ lost \in [ Scopes -> BOOLEAN ]
  BY DEF RegistryInv, RegistryTypeOK
<1>2. /\ holders' \in [ Scopes -> SUBSET Requests ] /\ lost' \in [ Scopes -> BOOLEAN ]
      /\ \A s \in Scopes : \A d \in holders'[s] :
           \/ d = c /\ s \in took
           \/ d \in holders[s] /\ (d = c => s \notin gave \cup gone)
  BY <1>1, FollowType
<1>3. RegistryTypeOK'
  <2>1. \A s \in Scopes : brk'[s] \in BreakerStates
    BY DEF Sound, Fares
  <2>2. brk' \in [ Scopes -> BreakerStates ]
    BY <2>1
  <2>3. call' \in [ Requests -> Calls ]
    BY <1>1
  <2>4. QED
    BY <1>2, <2>2, <2>3 DEF RegistryTypeOK
<1>4. Placed'
  BY <1>1 DEF Placed, RegistryInv
<1>5. ASSUME NEW s \in Scopes PROVE Books(s)'
  <2>1. Books(s) /\ lost[s] \in BOOLEAN
    BY <1>1 DEF RegistryInv
  <2>2. Fares(c, r, took, gave, gone, s)
    OBVIOUS
  <2>3. QED
    BY <2>1, <2>2, BooksFollow DEF Fares
<1>6. ASSUME NEW s \in Scopes, NEW d \in holders'[s] PROVE MayHold(call'[d], s)
  <2>1. d \in Requests
    BY <1>2
  <2>2. CASE d = c
    BY <1>1, <1>2, <2>1, <2>2 DEF Fares
  <2>3. CASE d # c
    BY <1>1, <1>2, <2>1, <2>3 DEF RegistryInv
  <2>4. QED
    BY <2>2, <2>3
<1>7. QED
  BY <1>3, <1>4, <1>5, <1>6 DEF RegistryInv, Fares

(* A step of one request that touches no breaker.                           *)
LEMMA QuietStep ==
  ASSUME RegistryInv, NEW c \in Requests, NEW r \in Calls,
         call' = [ call EXCEPT ![c] = r ],
         r.at # "idle" => r.host \in Hosts,
         UNCHANGED << brk, holders, lost, evidence >>,
         \A s \in Scopes : c \in holders[s] => MayHold(r, s)
  PROVE  RegistryInv'
<1>1. call \in [ Requests -> Calls ] /\ holders \in [ Scopes -> SUBSET Requests ]
  BY DEF RegistryInv, RegistryTypeOK
<1>2. RegistryTypeOK'
  BY <1>1 DEF RegistryInv, RegistryTypeOK
<1>3. Placed'
  BY <1>1 DEF Placed, RegistryInv
<1>4. ASSUME NEW s \in Scopes PROVE Books(s)'
  BY DEF Books, RegistryInv
<1>5. ASSUME NEW s \in Scopes, NEW d \in holders'[s] PROVE MayHold(call'[d], s)
  BY <1>1 DEF RegistryInv
<1>6. QED
  BY <1>2, <1>3, <1>4, <1>5 DEF RegistryInv, Evident

(* A window that is kept or cleared needs no new evidence.                  *)
LEMMA UncountedEvident ==
  ASSUME RegistryInv, Uncounted, Windowed(brk[Global], brk'[Global])
  PROVE  evidence' \in 0..WindowSize /\ Evident'
<1>1. evidence \in 0..WindowSize /\ 0 \in 0..WindowSize
  BY BreakerAssumption DEF RegistryInv, RegistryTypeOK
<1>2. Failures(<< >>) = 0
  BY NoFailures
<1>3. evidence' \in 0..WindowSize
  BY <1>1 DEF Uncounted
<1>4. CASE brk'[Global].window = << >>
  <2>1. evidence' = 0
    BY <1>4 DEF Uncounted
  <2>2. Failures(brk'[Global].window) = 0
    BY <1>2, <1>4
  <2>3. Failures(brk'[Global].window) <= evidence'
    BY <2>1, <2>2
  <2>4. QED
    BY <1>3, <2>3 DEF Evident
<1>5. CASE brk'[Global].window = brk[Global].window /\ brk'[Global].window # << >>
  <2>1. evidence' = evidence
    BY <1>5 DEF Uncounted
  <2>2. Failures(brk'[Global].window) = Failures(brk[Global].window)
    BY <1>5
  <2>3. Failures(brk[Global].window) <= evidence
    BY DEF RegistryInv, Evident
  <2>4. Failures(brk'[Global].window) <= evidence'
    BY <2>1, <2>2, <2>3
  <2>5. QED
    BY <1>3, <2>4 DEF Evident
<1>6. QED
  BY <1>3, <1>4, <1>5 DEF Windowed

LEMMA RegistryInitInv == RegistryInit => RegistryInv
<1> SUFFICES ASSUME RegistryInit PROVE RegistryInv
  OBVIOUS
<1>1. Sound(NewBreaker) /\ NewBreaker \in BreakerStates /\ NewBreaker.state = "Closed"
      /\ NewBreaker.window = << >>
  BY NewSound DEF Sound, NewBreaker
<1>2. Idle \in Calls /\ Idle.at = "idle"
  BY DEF Idle, Calls, Scopes, Kinds, Outcomes
<1>3. Failures(<< >>) = 0
  BY NoFailures
<1>4. RegistryTypeOK
  BY <1>1, <1>2, BreakerAssumption DEF RegistryTypeOK, RegistryInit
<1>5. ASSUME NEW s \in Scopes
      PROVE  Sound(brk[s]) /\ Books(s) /\ holders[s] = {}
  BY <1>1, FS_EmptySet DEF RegistryInit, Books, Backed
<1>6. Placed
  BY <1>2 DEF RegistryInit, Placed
<1>7. Evident
  <2>1. brk[Global].window = << >> /\ evidence = 0
    BY <1>1 DEF RegistryInit, Scopes
  <2>2. QED
    BY <1>3, <2>1 DEF Evident
<1>8. QED
  BY <1>4, <1>5, <1>6, <1>7 DEF RegistryInv

(* What is known of a request and the breakers before a step. *)
LEMMA Before ==
  ASSUME RegistryInv
  PROVE  /\ Global \in Scopes /\ Hosts \subseteq Scopes /\ Global \notin Hosts
         /\ call \in [ Requests -> Calls ]
         /\ brk \in [ Scopes -> BreakerStates ]
         /\ \A s \in Scopes : Sound(brk[s])
         /\ \A c \in Requests : call[c] \in Calls
         /\ \A c \in Requests : call[c].at # "idle" => call[c].host \in Hosts
         /\ \A s \in Scopes, c \in Requests : c \in holders[s] => MayHold(call[c], s)
BY RegistryAssumption DEF RegistryInv, RegistryTypeOK, Placed, Scopes

LEMMA IdleType == Idle \in Calls /\ Idle.at = "idle"
BY DEF Idle, Calls, Scopes, Kinds, Outcomes

LEMMA RejectedStep ==
  ASSUME RegistryInv, NEW c \in Requests, NEW h \in Hosts, Rejected(c, h)
  PROVE  RegistryInv'
<1> DEFINE r == [ Idle EXCEPT !.at = "skipped", !.host = h ]
<1>1. r \in Calls /\ r.at = "skipped" /\ r.host = h
  BY Before DEF Idle, Calls, Scopes, Kinds, Outcomes
<1>2. call' = [ call EXCEPT ![c] = r ] /\ Follow(c, {}, {}, {}) /\ Uncounted
  BY DEF Rejected
<1> HIDE DEF r
<1>3. /\ brk' = [ s \in Scopes |-> brk'[s] ]
      /\ \A s \in Scopes : Sound(brk'[s]) /\ Kept(brk[s], brk'[s])
      /\ Windowed(brk[Global], brk'[Global])
  <2> DEFINE x == brk[Global]
             g == TryAcquire(x)
  <2>1. /\ Sound(x) /\ Sound(brk[h]) /\ brk \in [ Scopes -> BreakerStates ]
        /\ Global \in Scopes /\ h \in Scopes /\ Global # h
    BY Before
  <2>2. ASSUME NEW y PROVE Kept(y, y)
    BY DEF Kept
  <2>3. CASE PermitOf(x) = "Rejected" /\ brk' = [ brk EXCEPT ![Global] = g ]
    <3>1. Sound(g) /\ Kept(x, g) /\ Windowed(x, g)
      BY <2>1, <2>3, AcquireSound, AcquireTook
    <3>2. /\ brk' = [ s \in Scopes |-> brk'[s] ] /\ brk'[Global] = g
          /\ \A s \in Scopes : s # Global => brk'[s] = brk[s]
      BY <2>1, <2>3
    <3>3. QED
      BY <2>2, <3>1, <3>2, Before
  <2>4. CASE /\ PermitOf(brk[h]) = "Rejected"
             /\ brk' = [ brk EXCEPT ![Global] = AfterRefusal(g, PermitOf(x)),
                                    ![h] = TryAcquire(brk[h]) ]
    <3> DEFINE a == AfterRefusal(g, PermitOf(x))
               e == TryAcquire(brk[h])
    <3>1. Sound(a) /\ Kept(x, a) /\ Windowed(x, a)
      BY <2>1, RefusalKept
    <3>2. Sound(e) /\ Kept(brk[h], e)
      BY <2>1, <2>4, AcquireSound, AcquireTook
    <3>3. /\ brk' = [ s \in Scopes |-> brk'[s] ] /\ brk'[Global] = a /\ brk'[h] = e
          /\ \A s \in Scopes : s # Global /\ s # h => brk'[s] = brk[s]
      BY <2>1, <2>4
    <3> HIDE DEF a, e, g
    <3>4. QED
      BY <2>2, <3>1, <3>2, <3>3, Before
  <2>5. QED
    BY <2>3, <2>4 DEF Rejected
<1>4. evidence' \in 0..WindowSize /\ Evident'
  BY <1>2, <1>3, UncountedEvident
<1>5. \A s \in Scopes : c \notin holders[s]
  BY Before DEF Rejected, MayHold
<1>6. ASSUME NEW s \in Scopes
      PROVE  Fares(c, r, {}, {}, {}, s)
  BY <1>3, <1>5 DEF Fares
<1>7. brk' = [ s \in Scopes |-> brk'[s] ] /\ (r.at # "idle" => r.host \in Hosts)
  BY <1>1, <1>3
<1>8. QED
  BY <1>1, <1>2, <1>4, <1>6, <1>7, RequestStep

LEMMA GrantedStep ==
  ASSUME RegistryInv, NEW c \in Requests, NEW h \in Hosts, Granted(c, h)
  PROVE  RegistryInv'
<1> DEFINE took == { s \in {Global, h} : PermitOf(brk[s]) = "Probe" }
           p == IF took = {} THEN "Allowed" ELSE "Probe"
           r == [ Idle EXCEPT !.at = "acquired", !.host = h, !.permit = p ]
<1>0. /\ Sound(brk[Global]) /\ Sound(brk[h]) /\ brk \in [ Scopes -> BreakerStates ]
      /\ Global \in Scopes /\ h \in Scopes /\ Global # h
  BY Before
<1>1. r \in Calls /\ r.at = "acquired" /\ r.host = h
  <2>1. p \in {"none", "Allowed", "Probe"}
    OBVIOUS
  <2> HIDE DEF p
  <2>2. QED
    BY <1>0, <2>1 DEF Idle, Calls, Scopes, Kinds, Outcomes
<1>2. /\ call' = [ call EXCEPT ![c] = r ] /\ Follow(c, took, {}, {}) /\ Uncounted
      /\ brk' = [ brk EXCEPT ![Global] = TryAcquire(brk[Global]),
                             ![h] = TryAcquire(brk[h]) ]
  BY DEF Granted
<1> HIDE DEF r, p
<1>3. /\ brk' = [ s \in Scopes |-> brk'[s] ]
      /\ brk'[Global] = TryAcquire(brk[Global]) /\ brk'[h] = TryAcquire(brk[h])
      /\ \A s \in Scopes : s # Global /\ s # h => brk'[s] = brk[s]
  BY <1>0, <1>2
<1>4. \A s \in Scopes : c \notin holders[s]
  BY Before DEF Granted, MayHold
<1>5. ASSUME NEW s \in Scopes
      PROVE  Fares(c, r, took, {}, {}, s)
  <2>1. CASE s \in {Global, h}
    <3>1. brk'[s] = TryAcquire(brk[s]) /\ Sound(brk[s])
      BY <1>0, <1>3, <2>1
    <3>2. MayHold(r, s)
      BY <1>1, <2>1 DEF MayHold
    <3>3. s \in took <=> PermitOf(brk[s]) = "Probe"
      BY <2>1
    <3> HIDE DEF took
    <3>4. QED
      BY <1>4, <3>1, <3>2, <3>3, AcquireSound, AcquireTook DEF Fares
  <2>2. CASE s \notin {Global, h}
    BY <1>3, <1>4, <2>2, Before DEF Fares, Kept
  <2>3. QED
    BY <2>1, <2>2
<1>6. Windowed(brk[Global], brk'[Global])
  BY <1>0, <1>3, AcquireTook
<1>7. evidence' \in 0..WindowSize /\ Evident'
  BY <1>2, <1>6, UncountedEvident
<1> HIDE DEF took
<1>8. brk' = [ s \in Scopes |-> brk'[s] ] /\ (r.at # "idle" => r.host \in Hosts)
  BY <1>1, <1>3
<1>9. QED
  BY <1>1, <1>2, <1>5, <1>7, <1>8, RequestStep

LEMMA GuardStep ==
  ASSUME RegistryInv, NEW c \in Requests, Guard(c)
  PROVE  RegistryInv'
<1> DEFINE g == call[c].permit = "Probe"
           r == [ call[c] EXCEPT !.at = "guarded", !.guarded = g, !.current = g ]
<1>0. /\ call[c] \in Calls /\ g \in BOOLEAN /\ call[c].at = "acquired"
      /\ call[c].host \in Hosts /\ UNCHANGED << brk, holders, lost, evidence >>
      /\ call' = [ call EXCEPT ![c].at = "guarded", ![c].guarded = g, ![c].current = g ]
      /\ call \in [ Requests -> Calls ]
  BY Before DEF Guard
<1> HIDE DEF g
<1>1. call' = [ call EXCEPT ![c] = r ]
  BY <1>0
<1>2. r \in Calls
  BY <1>0, Zenon DEF Calls
<1>3. r.at = "guarded" /\ r.host = call[c].host
  BY <1>0 DEF Calls
<1> HIDE DEF r
<1>4. ASSUME NEW s \in Scopes, c \in holders[s] PROVE MayHold(r, s)
  BY <1>0, <1>3, <1>4, Before DEF MayHold
<1>5. QED
  BY <1>0, <1>1, <1>2, <1>3, <1>4, QuietStep

LEMMA LeakStep ==
  ASSUME RegistryInv, NEW c \in Requests, LeakThrough(c)
  PROVE  RegistryInv'
<1> DEFINE h == call[c].host
           p == PermitOf(brk[h])
           took == IF p = "Probe" THEN {h} ELSE {}
           r == IF p = "Rejected" THEN Idle
                ELSE [ Idle EXCEPT !.at = "leaking", !.host = h, !.permit = p ]
<1>0. /\ call[c].at = "skipped" /\ h \in Hosts /\ h \in Scopes /\ Global # h
      /\ Sound(brk[h]) /\ brk \in [ Scopes -> BreakerStates ] /\ Global \in Scopes
  BY Before DEF LeakThrough
<1>1. p \in Permits
  BY <1>0, AcquireSound
<1>2. r \in Calls /\ (r.at # "idle" => r.host \in Hosts)
      /\ (p # "Rejected" => r.at = "leaking" /\ r.host = h)
  <2>1. CASE p = "Rejected"
    BY <2>1, IdleType
  <2>2. CASE p # "Rejected"
    <3>1. p \in {"none", "Allowed", "Probe"}
      BY <1>1, <2>2 DEF Permits
    <3> DEFINE q == [ Idle EXCEPT !.at = "leaking", !.host = h, !.permit = p ]
    <3>2. r = q
      BY <2>2
    <3>3. q \in Calls /\ q.at = "leaking" /\ q.host = h
      <4> HIDE DEF p
      <4>1. QED
        BY <1>0, <3>1 DEF Idle, Calls, Scopes, Kinds, Outcomes
    <3> HIDE DEF r, p, h, q
    <3>4. QED
      BY <1>0, <3>2, <3>3
  <2>3. QED
    BY <2>1, <2>2
<1>3. /\ call' = [ call EXCEPT ![c] = r ] /\ Follow(c, took, {}, {}) /\ Uncounted
      /\ brk' = [ brk EXCEPT ![h] = TryAcquire(brk[h]) ]
  BY DEF LeakThrough
<1>4. /\ brk' = [ s \in Scopes |-> brk'[s] ] /\ brk'[h] = TryAcquire(brk[h])
      /\ \A s \in Scopes : s # h => brk'[s] = brk[s]
  BY <1>0, <1>3
<1>5. \A s \in Scopes : c \notin holders[s]
  BY <1>0, Before DEF MayHold
<1>6. ASSUME NEW s \in Scopes
      PROVE  Fares(c, r, took, {}, {}, s)
  <2>1. CASE s = h
    <3>1. s \in took <=> p = "Probe"
      BY <2>1
    <3>2. p = "Probe" => MayHold(r, s)
      BY <1>2, <2>1 DEF MayHold
    <3>3. /\ Sound(TryAcquire(brk[h]))
          /\ p = "Probe" => Took(brk[h], TryAcquire(brk[h]))
          /\ p # "Probe" => Kept(brk[h], TryAcquire(brk[h]))
      BY <1>0, AcquireSound, AcquireTook
    <3> HIDE DEF took, p, h, r
    <3>4. QED
      BY <1>4, <1>5, <2>1, <3>1, <3>2, <3>3 DEF Fares
  <2>2. CASE s # h
    <3>1. s \notin took /\ brk'[s] = brk[s] /\ Sound(brk[s])
      BY <1>4, <2>2, Before
    <3>2. QED
      BY <1>5, <3>1 DEF Fares, Kept
  <2>3. QED
    BY <2>1, <2>2
<1>7. Windowed(brk[Global], brk'[Global])
  BY <1>0, <1>4 DEF Windowed
<1>8. evidence' \in 0..WindowSize /\ Evident'
  BY <1>3, <1>7, UncountedEvident
<1> HIDE DEF took, r, p, h
<1>9. brk' = [ s \in Scopes |-> brk'[s] ]
  BY <1>4
<1>10. QED
  BY <1>2, <1>3, <1>6, <1>8, <1>9, RequestStep

LEMMA LeavingStep ==
  ASSUME RegistryInv, NEW c \in Requests, GiveUp(c) \/ Disarm(c)
  PROVE  RegistryInv'
<1>1. /\ call[c].at \in {"skipped", "recorded"} /\ call' = [ call EXCEPT ![c] = Idle ]
      /\ UNCHANGED << brk, holders, lost, evidence >>
  BY DEF GiveUp, Disarm
<1>2. \A s \in Scopes : c \notin holders[s]
  BY <1>1, Before DEF MayHold
<1>3. QED
  BY <1>1, <1>2, IdleType, QuietStep

(* A fault told to the global breaker is a fault of the renderer. *)
LEMMA TellingEvident ==
  ASSUME RegistryInv, NEW c \in Requests, NEW kind \in Kinds, NEW v \in Outcomes,
         NEW y, Sound(y), brk'[Global] = y,
         \/ Windowed(brk[Global], y)
         \/ /\ ToldGlobally(call[c].at, kind)
            /\ y.window = Push(brk[Global].window,
                               IF IsFailure(v) THEN "Failure" ELSE "Success"),
         evidence' = IF y.window = << >> THEN 0
                     ELSE IF RendererFault(call[c].at, kind, v) /\ evidence < WindowSize
                          THEN evidence + 1 ELSE evidence
  PROVE  evidence' \in 0..WindowSize /\ Evident'
<1> DEFINE w == brk[Global].window
<1>1. /\ evidence \in 0..WindowSize /\ WindowSize \in Nat /\ Failures(w) <= evidence
      /\ w \in Seq(Slots) /\ Len(w) <= WindowSize
  <2>1. Sound(brk[Global])
    BY Before
  <2>2. QED
    BY <2>1, BreakerAssumption DEF RegistryInv, RegistryTypeOK, Evident, Sound, BreakerStates
<1>2. evidence' \in 0..WindowSize
  BY <1>1
<1>3. Failures(w) \in Nat
  BY <1>1, FailuresFinite
<1> HIDE DEF w
<1>4. Failures(y.window) <= evidence'
  <2>1. CASE y.window = << >>
    BY <2>1, NoFailures
  <2>2. CASE y.window # << >> /\ y.window = w
    BY <1>1, <1>3, <2>2
  <2>3. CASE /\ y.window # << >> /\ ToldGlobally(call[c].at, kind)
             /\ y.window = Push(w, IF IsFailure(v) THEN "Failure" ELSE "Success")
    <3>1. CASE IsFailure(v)
      <4>1. RendererFault(call[c].at, kind, v)
        BY <2>3, <3>1 DEF ToldGlobally, RendererFault, OfTheRenderer, Kinds
      <4>2. Failures(y.window) <= Failures(w) + 1 /\ Failures(y.window) \in 0..WindowSize
        <5>1. y.window = Push(w, "Failure")
          BY <2>3, <3>1
        <5>2. QED
          BY <1>1, <5>1, FailuresPush DEF Slots
      <4>3. QED
        BY <1>1, <1>3, <2>3, <4>1, <4>2
    <3>2. CASE ~IsFailure(v)
      <4>1. y.window = Push(w, "Success")
        BY <2>3, <3>2
      <4>2. Failures(y.window) <= Failures(w) /\ Failures(y.window) \in 0..WindowSize
        BY <1>1, <4>1, FailuresPush DEF Slots
      <4>3. QED
        BY <1>1, <1>3, <2>3, <4>2
    <3>3. QED
      BY <3>1, <3>2
  <2>4. QED
    BY <2>1, <2>2, <2>3 DEF Windowed, w
<1>5. QED
  BY <1>2, <1>4 DEF Evident

LEMMA RecordGlobalStep ==
  ASSUME RegistryInv, NEW c \in Requests, RecordGlobal(c)
  PROVE  RegistryInv'
<1> DEFINE x == brk[Global]
<1>1. PICK kind \in Kinds, v \in Outcomes :
        /\ brk' = [ brk EXCEPT ![Global] =
             IF ToldGlobally(call[c].at, kind) THEN RecordOutcome(x, v) ELSE CancelProbe(x) ]
        /\ call' = [ call EXCEPT ![c].at = "halfway", ![c].kind = kind, ![c].verdict = v ]
        /\ evidence' =
             IF brk'[Global].window = << >> THEN 0
             ELSE IF RendererFault(call[c].at, kind, v) /\ evidence < WindowSize
                  THEN evidence + 1 ELSE evidence
  BY VerdictType DEF RecordGlobal
<1> DEFINE y == IF ToldGlobally(call[c].at, kind) THEN RecordOutcome(x, v) ELSE CancelProbe(x)
           r == [ call[c] EXCEPT !.at = "halfway", !.kind = kind, !.verdict = v ]
<1>2. /\ call[c].at \in {"guarded", "leaking"} /\ Follow(c, {}, {Global}, {})
      /\ call[c] \in Calls /\ call[c].host \in Hosts /\ call \in [ Requests -> Calls ]
      /\ brk \in [ Scopes -> BreakerStates ] /\ Global \in Scopes /\ Sound(x)
      /\ v \in Outcomes
  BY Before DEF RecordGlobal
<1>3. r \in Calls /\ r.at = "halfway" /\ r.host = call[c].host
  <2>1. r \in Calls
    BY <1>2, Zenon DEF Calls
  <2>2. QED
    BY <1>2, <2>1 DEF Calls
<1>4. call' = [ call EXCEPT ![c] = r ]
  BY <1>1, <1>2
<1>5. /\ brk' = [ s \in Scopes |-> brk'[s] ] /\ brk'[Global] = y
      /\ \A s \in Scopes : s # Global => brk'[s] = brk[s]
  BY <1>1, <1>2
<1>6. /\ Sound(y) /\ Gave(x, y) /\ Kept(x, y)
      /\ \/ Windowed(x, y)
         \/ /\ ToldGlobally(call[c].at, kind)
            /\ y.window = Push(x.window, IF IsFailure(v) THEN "Failure" ELSE "Success")
  <2> HIDE DEF x
  <2>1. Sound(y) /\ Gave(x, y)
    BY <1>2, RecordGave, CancelSound, CancelGave
  <2>2. \/ Windowed(x, y)
        \/ /\ ToldGlobally(call[c].at, kind)
           /\ y.window = Push(x.window, IF IsFailure(v) THEN "Failure" ELSE "Success")
    BY <1>2, RecordGave, CancelGave
  <2>3. Kept(x, y)
    <3>1. x \in BreakerStates /\ y \in BreakerStates
      BY <1>2, <2>1 DEF Sound
    <3> HIDE DEF y
    <3>2. QED
      BY <2>1, <3>1, GaveKept
  <2>4. QED
    BY <2>1, <2>2, <2>3
<1> HIDE DEF y, r
<1>7. evidence' \in 0..WindowSize /\ Evident'
  BY <1>1, <1>2, <1>5, <1>6, TellingEvident
<1>8. ASSUME NEW s \in Scopes
      PROVE  Fares(c, r, {}, {Global}, {}, s)
  <2>1. c \in holders[s] /\ s # Global => MayHold(r, s)
    BY <1>2, <1>3, Before DEF MayHold
  <2>2. CASE s = Global
    BY <1>5, <1>6, <2>2 DEF Fares
  <2>3. CASE s # Global
    BY <1>5, <2>1, <2>3, Before DEF Fares, Kept
  <2>4. QED
    BY <2>2, <2>3
<1>9. QED
  BY <1>2, <1>3, <1>4, <1>5, <1>7, <1>8, RequestStep

LEMMA RecordHostStep ==
  ASSUME RegistryInv, NEW c \in Requests, RecordHost(c)
  PROVE  RegistryInv'
<1> DEFINE h == call[c].host
           x == brk[h]
           y == RecordOutcome(x, call[c].verdict)
           r == [ call[c] EXCEPT !.at = "recorded", !.kind = Idle.kind, !.verdict = Idle.verdict ]
<1>1. /\ call[c].at = "halfway" /\ Follow(c, {}, {h}, {}) /\ Uncounted
      /\ brk' = [ brk EXCEPT ![h] = y ] /\ call' = [ call EXCEPT ![c] = r ]
  BY DEF RecordHost
<1>2. /\ call[c] \in Calls /\ h \in Hosts /\ h \in Scopes /\ h # Global /\ Global \in Scopes
      /\ brk \in [ Scopes -> BreakerStates ] /\ Sound(x)
  BY <1>1, Before
<1>3. r \in Calls /\ r.at = "recorded" /\ r.host = h
  <2>1. Idle.kind \in Kinds /\ Idle.verdict \in Outcomes
    BY DEF Idle, Kinds, Outcomes
  <2>2. r \in Calls
    BY <1>2, <2>1, Zenon DEF Calls
  <2>3. QED
    BY <1>2, <2>2 DEF Calls
<1>4. Sound(y) /\ Gave(x, y) /\ Kept(x, y)
  <2>1. call[c].verdict \in Outcomes
    BY <1>2 DEF Calls
  <2> HIDE DEF x
  <2>2. Sound(y) /\ Gave(x, y)
    BY <1>2, <2>1, RecordGave
  <2>3. x \in BreakerStates /\ y \in BreakerStates
    BY <1>2, <2>2 DEF Sound
  <2> HIDE DEF y
  <2>4. QED
    BY <2>2, <2>3, GaveKept
<1> HIDE DEF y, r
<1>5. /\ brk' = [ s \in Scopes |-> brk'[s] ] /\ brk'[h] = y
      /\ \A s \in Scopes : s # h => brk'[s] = brk[s]
  BY <1>1, <1>2
<1>6. evidence' \in 0..WindowSize /\ Evident'
  <2>1. Windowed(brk[Global], brk'[Global])
    BY <1>2, <1>5 DEF Windowed
  <2>2. QED
    BY <1>1, <2>1, UncountedEvident
<1>7. ASSUME NEW s \in Scopes
      PROVE  Fares(c, r, {}, {h}, {}, s)
  <2>1. c \in holders[s] => s = h
    BY <1>1, Before DEF MayHold
  <2>2. CASE s = h
    <3>1. Sound(brk'[s]) /\ Gave(brk[s], brk'[s]) /\ Kept(brk[s], brk'[s])
      BY <1>4, <1>5, <2>2
    <3>2. QED
      BY <2>2, <3>1 DEF Fares
  <2>3. CASE s # h
    <3>1. Sound(brk'[s]) /\ Kept(brk[s], brk'[s])
      BY <1>5, <2>3, Before DEF Kept
    <3>2. QED
      BY <2>1, <2>3, <3>1 DEF Fares
  <2>4. QED
    BY <2>2, <2>3
<1>8. brk' = [ s \in Scopes |-> brk'[s] ] /\ (r.at # "idle" => r.host \in Hosts)
  BY <1>2, <1>3, <1>5
<1>9. QED
  BY <1>1, <1>3, <1>6, <1>7, <1>8, RequestStep

LEMMA RequestDroppedStep ==
  ASSUME RegistryInv, NEW c \in Requests, RequestDropped(c)
  PROVE  RegistryInv'
<1> DEFINE cancelled == IF ~call[c].guarded THEN {}
                        ELSE IF call[c].current THEN {Global, call[c].host} ELSE {Global}
           gone == Scopes \ cancelled
<1>1. /\ brk' = [ s \in Scopes |-> IF s \in cancelled THEN CancelProbe(brk[s]) ELSE brk[s] ]
      /\ Follow(c, {}, cancelled, gone) /\ Uncounted
      /\ call' = [ call EXCEPT ![c] = Idle ]
  BY DEF RequestDropped
<1> HIDE DEF cancelled
<1>2. ASSUME NEW s \in Scopes
      PROVE  /\ Sound(brk'[s]) /\ Kept(brk[s], brk'[s]) /\ Windowed(brk[s], brk'[s])
             /\ s \in cancelled => Gave(brk[s], brk'[s])
  <2>1. Sound(brk[s])
    BY Before
  <2>2. CASE s \in cancelled
    <3>1. brk'[s] = CancelProbe(brk[s])
      BY <1>1, <2>2
    <3>2. Sound(brk'[s]) /\ Gave(brk[s], brk'[s]) /\ Windowed(brk[s], brk'[s])
      BY <2>1, <3>1, CancelSound, CancelGave
    <3>3. brk[s] \in BreakerStates /\ brk'[s] \in BreakerStates
      BY <2>1, <3>2 DEF Sound
    <3>4. QED
      BY <3>2, <3>3, GaveKept
  <2>3. CASE s \notin cancelled
    BY <1>1, <2>1, <2>3 DEF Kept, Windowed
  <2>4. QED
    BY <2>2, <2>3
<1>3. evidence' \in 0..WindowSize /\ Evident'
  BY <1>1, <1>2, Before, UncountedEvident
<1>4. ASSUME NEW s \in Scopes
      PROVE  Fares(c, Idle, {}, cancelled, gone, s)
  BY <1>2 DEF Fares
<1>5. brk' = [ s \in Scopes |-> brk'[s] ]
  BY <1>1
<1> HIDE DEF gone
<1>6. QED
  BY <1>1, <1>3, <1>4, <1>5, IdleType, RequestStep

LEMMA ResetAllStep ==
  ASSUME RegistryInv, ResetAll
  PROVE  RegistryInv'
<1>1. /\ brk' = [ s \in Scopes |-> NewBreaker ] /\ holders' = [ s \in Scopes |-> {} ]
      /\ lost' = [ s \in Scopes |-> FALSE ] /\ evidence' = 0
      /\ call' = [ c \in Requests |-> [ call[c] EXCEPT !.current = FALSE ] ]
  BY DEF ResetAll
<1>2. Sound(NewBreaker) /\ NewBreaker \in BreakerStates /\ NewBreaker.state = "Closed"
      /\ NewBreaker.window = << >>
  BY NewSound DEF Sound, NewBreaker
<1>3. ASSUME NEW c \in Requests
      PROVE  call'[c] \in Calls /\ call'[c].at = call[c].at /\ call'[c].host = call[c].host
  BY <1>1, Before DEF Calls
<1>4. RegistryTypeOK'
  BY <1>1, <1>2, <1>3, BreakerAssumption DEF RegistryTypeOK
<1>5. ASSUME NEW s \in Scopes
      PROVE  Sound(brk'[s]) /\ Books(s)' /\ holders'[s] = {}
  BY <1>1, <1>2, FS_EmptySet DEF Books, Backed
<1>6. Placed'
  BY <1>3, Before DEF Placed
<1>7. Evident'
  <2>1. brk'[Global].window = << >>
    BY <1>1, <1>2, Before
  <2>2. Failures(brk'[Global].window) <= evidence'
    BY <1>1, <2>1, NoFailures
  <2>3. QED
    BY <2>2 DEF Evident
<1>8. QED
  BY <1>4, <1>5, <1>6, <1>7 DEF RegistryInv

LEMMA EvictStep ==
  ASSUME RegistryInv, NEW h \in Hosts, Evict(h)
  PROVE  RegistryInv'
<1>1. /\ brk' = [ brk EXCEPT ![h] = NewBreaker ] /\ holders' = [ holders EXCEPT ![h] = {} ]
      /\ lost' = [ lost EXCEPT ![h] = FALSE ] /\ evidence' = evidence
      /\ call' = [ c \in Requests |->
           IF call[c].host = h THEN [ call[c] EXCEPT !.current = FALSE ] ELSE call[c] ]
  BY DEF Evict
<1>2. Sound(NewBreaker) /\ NewBreaker \in BreakerStates /\ NewBreaker.state = "Closed"
  BY NewSound DEF Sound, NewBreaker
<1>3. ASSUME NEW c \in Requests
      PROVE  call'[c] \in Calls /\ call'[c].at = call[c].at /\ call'[c].host = call[c].host
  BY <1>1, Before DEF Calls
<1>4. /\ brk \in [ Scopes -> BreakerStates ] /\ holders \in [ Scopes -> SUBSET Requests ]
      /\ lost \in [ Scopes -> BOOLEAN ] /\ evidence \in 0..WindowSize
      /\ h \in Scopes /\ Global \in Scopes /\ h # Global
  BY Before DEF RegistryInv, RegistryTypeOK
<1>5. call' \in [ Requests -> Calls ]
  BY <1>1, <1>3
<1>6. RegistryTypeOK'
  BY <1>1, <1>2, <1>4, <1>5 DEF RegistryTypeOK
<1>7. ASSUME NEW s \in Scopes
      PROVE  /\ Sound(brk'[s]) /\ Books(s)'
             /\ s # h => holders'[s] = holders[s]
             /\ s = h => holders'[s] = {}
  <2>1. CASE s = h
    BY <1>1, <1>2, <1>4, <2>1, FS_EmptySet DEF Books, Backed
  <2>2. CASE s # h
    BY <1>1, <1>4, <2>2 DEF Books, RegistryInv
  <2>3. QED
    BY <2>1, <2>2
<1>8. Placed'
  BY <1>3, Before DEF Placed
<1>9. ASSUME NEW s \in Scopes, NEW c \in holders'[s] PROVE MayHold(call'[c], s)
  <2>1. s # h /\ c \in holders[s] /\ c \in Requests
    BY <1>4, <1>7
  <2>2. MayHold(call[c], s)
    BY <2>1 DEF RegistryInv
  <2>3. QED
    BY <1>3, <2>1, <2>2 DEF MayHold
<1>10. Evident'
  BY <1>1, <1>4 DEF Evident, RegistryInv
<1>11. QED
  BY <1>6, <1>7, <1>8, <1>9, <1>10 DEF RegistryInv

LEMMA SnapshotStep ==
  ASSUME RegistryInv, Snapshot
  PROVE  RegistryInv'
<1>1. /\ brk' = [ s \in Scopes |-> LazyEvaluate(brk[s]) ] /\ call' = call
      /\ Follow(Global, {}, {}, {}) /\ Uncounted
  BY DEF Snapshot
<1>2. ASSUME NEW s \in Scopes
      PROVE  Sound(brk'[s]) /\ Kept(brk[s], brk'[s]) /\ Windowed(brk[s], brk'[s])
  BY <1>1, Before, LazySound, LazyKept
<1>3. evidence' \in 0..WindowSize /\ Evident'
  BY <1>1, <1>2, Before, UncountedEvident
<1>4. /\ holders \in [ Scopes -> SUBSET Requests ] /\ lost \in [ Scopes -> BOOLEAN ]
      /\ call \in [ Requests -> Calls ]
  BY DEF RegistryInv, RegistryTypeOK
<1>5. /\ holders' \in [ Scopes -> SUBSET Requests ] /\ lost' \in [ Scopes -> BOOLEAN ]
      /\ \A s \in Scopes : \A d \in holders'[s] : d \in holders[s]
  BY <1>1, <1>4, FollowType
<1>6. brk' \in [ Scopes -> BreakerStates ]
  BY <1>1, <1>2 DEF Sound
<1>7. RegistryTypeOK'
  BY <1>1, <1>3, <1>4, <1>5, <1>6 DEF RegistryTypeOK
<1>8. ASSUME NEW s \in Scopes PROVE Books(s)'
  <2>1. Books(s) /\ lost[s] \in BOOLEAN
    BY <1>4 DEF RegistryInv
  <2>2. QED
    BY <1>1, <1>2, <2>1, BooksFollow
<1>9. Placed' /\ \A s \in Scopes : \A c \in holders'[s] : MayHold(call'[c], s)
  BY <1>1, <1>5 DEF RegistryInv, Placed
<1>10. QED
  BY <1>2, <1>3, <1>7, <1>8, <1>9 DEF RegistryInv

LEMMA ClockTickStep ==
  ASSUME RegistryInv, ClockTick
  PROVE  RegistryInv'
<1>1. /\ brk' = [ s \in Scopes |-> Age(brk[s]) ]
      /\ UNCHANGED << call, holders, lost, evidence >>
  BY DEF ClockTick
<1>2. ASSUME NEW s \in Scopes
      PROVE  /\ Sound(brk'[s]) /\ Kept(brk[s], brk'[s]) /\ brk'[s].state = brk[s].state
             /\ Windowed(brk[s], brk'[s])
  BY <1>1, Before, AgeSound, AgeKept
<1>3. brk' \in [ Scopes -> BreakerStates ]
  BY <1>1, <1>2 DEF Sound
<1>4. RegistryTypeOK'
  BY <1>1, <1>3 DEF RegistryInv, RegistryTypeOK
<1>5. ASSUME NEW s \in Scopes PROVE Books(s)'
  <2>1. Books(s) /\ Cardinality(holders[s]) \in Nat
    BY FS_CardinalityType DEF RegistryInv, Books
  <2>2. QED
    BY <1>1, <1>2, <2>1 DEF Books, Kept
<1>6. Placed' /\ \A s \in Scopes : \A c \in holders'[s] : MayHold(call'[c], s)
  BY <1>1 DEF RegistryInv, Placed
<1>7. Evident'
  <2>1. evidence \in 0..WindowSize /\ Failures(brk[Global].window) <= evidence
    BY DEF RegistryInv, RegistryTypeOK, Evident
  <2>2. brk'[Global].window = brk[Global].window \/ brk'[Global].window = << >>
    BY <1>2, Before DEF Windowed
  <2>3. Failures(brk'[Global].window) <= evidence'
    BY <1>1, <2>1, <2>2, NoFailures, BreakerAssumption
  <2>4. QED
    BY <2>3 DEF Evident
<1>8. QED
  BY <1>2, <1>4, <1>5, <1>6, <1>7 DEF RegistryInv

LEMMA RegistryNextInv == RegistryInv /\ [RegistryNext]_registryVars => RegistryInv'
<1> SUFFICES ASSUME RegistryInv, [RegistryNext]_registryVars
             PROVE  RegistryInv'
  OBVIOUS
<1>1. CASE UNCHANGED registryVars
  BY <1>1 DEF registryVars, RegistryInv, RegistryTypeOK, Placed, Books, Evident
<1>2. ASSUME NEW c \in Requests, NEW h \in Hosts, Rejected(c, h) \/ Granted(c, h)
      PROVE  RegistryInv'
  BY <1>2, RejectedStep, GrantedStep
<1>3. ASSUME NEW c \in Requests,
             \/ Guard(c) \/ LeakThrough(c) \/ GiveUp(c) \/ RecordGlobal(c)
             \/ RecordHost(c) \/ Disarm(c) \/ RequestDropped(c)
      PROVE  RegistryInv'
  BY <1>3, GuardStep, LeakStep, LeavingStep, RecordGlobalStep, RecordHostStep,
     RequestDroppedStep
<1>4. CASE \E h \in Hosts : Evict(h)
  BY <1>4, EvictStep
<1>5. CASE ResetAll \/ Snapshot \/ ClockTick
  BY <1>5, ResetAllStep, SnapshotStep, ClockTickStep
<1>6. QED
  BY <1>1, <1>2, <1>3, <1>4, <1>5 DEF RegistryNext

(* Whatever requests, evictions and resets do to the breakers of a          *)
(* renderer, each stays sound, its slots are booked, and the global window  *)
(* carries only what was counted against the renderer.                      *)
THEOREM RegistryInductive == RegistrySpec => []RegistryInv
<1>1. QED
  BY RegistryInitInv, RegistryNextInv, PTL DEF RegistrySpec

(* Every slot of a half-open period is paid for by an outcome or held by a  *)
(* request in flight, in both scopes, unless one was dropped with no guard  *)
(* around it (try_acquire, record_scoped_outcome, ProbeGuard).              *)
THEOREM SlotsBooked == RegistrySpec => []SlotsAccounted
<1>1. RegistryInv => SlotsAccounted
  <2> SUFFICES ASSUME RegistryInv, NEW s \in Scopes,
                      brk[s].state = "HalfOpen", ~lost[s]
               PROVE  brk[s].admitted <= brk[s].succeeded + brk[s].failed
                                           + Cardinality(holders[s])
    BY DEF RegistryInv, SlotsAccounted, SlotsOwned
  <2>1. Books(s)
    BY DEF RegistryInv
  <2>2. QED
    BY <2>1 DEF Books, Backed
<1>2. QED
  BY <1>1, RegistryInductive, PTL

(* Only record_outcome can open a closed breaker, and only over a window    *)
(* that reaches MinCalls at the failure rate.                               *)
LEMMA OpensByRecord ==
  ASSUME NEW x, Sound(x), x.state = "Closed"
  PROVE  /\ LazyEvaluate(x).state = "Closed" /\ LazyEvaluate(x).window = x.window
         /\ TryAcquire(x).state = "Closed" /\ CancelProbe(x).state = "Closed"
         /\ Age(x).state = "Closed" /\ PermitOf(x) = "Allowed"
         /\ \A o \in Outcomes : RecordOutcome(x, o).state = "Open" =>
              Tripping(Push(x.window, IF IsFailure(o) THEN "Failure" ELSE "Success"))
<1>1. x \in BreakerStates
  BY DEF Sound
<1>2. /\ LazyEvaluate(x) \in {x, [ x EXCEPT !.ejections = 0 ]}
  BY DEF LazyEvaluate, CooldownOver, EvalExpired
<1>3. LazyEvaluate(x).state = "Closed" /\ LazyEvaluate(x).window = x.window
  BY <1>1, <1>2 DEF BreakerStates
<1>4. PermitOf(x) = "Allowed" /\ TryAcquire(x).state = "Closed"
  BY <1>3 DEF PermitOf, TryAcquire
<1>5. CancelProbe(x).state = "Closed" /\ Age(x).state = "Closed"
  BY AgeSound DEF CancelProbe
<1>6. ASSUME NEW o \in Outcomes, RecordOutcome(x, o).state = "Open"
      PROVE  Tripping(Push(x.window, IF IsFailure(o) THEN "Failure" ELSE "Success"))
  <2> DEFINE e == LazyEvaluate(x)
             w == Push(x.window, IF IsFailure(o) THEN "Failure" ELSE "Success")
  <2>1. RecordOutcome(x, o) = RecordCall(e, o)
    BY <1>3 DEF RecordOutcome
  <2>2. e \in BreakerStates /\ e.state = "Closed" /\ e.window = x.window
    BY <1>3, LazySound DEF Sound
  <2> HIDE DEF e
  <2>3. CASE ~Tripping(w)
    <3>1. RecordCall(e, o) \in {e, [ e EXCEPT !.window = w ]}
      BY <2>2, <2>3 DEF RecordCall
    <3>2. QED
      BY <1>6, <2>1, <2>2, <3>1 DEF BreakerStates
  <2>4. QED
    BY <2>3
<1>7. QED
  BY <1>3, <1>4, <1>5, <1>6

(* A step that opens the closed global breaker tells it the answer of an    *)
(* attempt in the ladder proper.                                            *)
LEMMA GlobalOpensByTelling ==
  ASSUME RegistryInv, [RegistryNext]_registryVars,
         brk[Global].state = "Closed", brk'[Global].state = "Open"
  PROVE  \E c \in Requests, kind \in Kinds, v \in Outcomes :
           /\ ToldGlobally(call[c].at, kind)
           /\ brk'[Global] = RecordOutcome(brk[Global], v)
           /\ call[c] \in Calls
           /\ call' = [ call EXCEPT ![c].at = "halfway", ![c].kind = kind, ![c].verdict = v ]
<1> DEFINE x == brk[Global]
           Same(y) == y \in {x, LazyEvaluate(x), TryAcquire(x), CancelProbe(x), Age(x), NewBreaker}
<1>1. /\ Sound(x) /\ brk \in [ Scopes -> BreakerStates ] /\ Global \in Scopes
      /\ \A h \in Hosts : h # Global /\ h \in Scopes
      /\ \A c \in Requests : call[c] \in Calls
      /\ \A c \in Requests : call[c].at # "idle" => call[c].host \in Hosts
  BY Before
<1>2. ~Same(brk'[Global])
  <2>1. NewBreaker.state = "Closed"
    BY DEF NewBreaker
  <2>2. QED
    BY <1>1, <2>1, OpensByRecord
<1>3. PermitOf(x) = "Allowed"
  BY <1>1, OpensByRecord
<1> HIDE DEF x
<1>4. ASSUME NEW c \in Requests, RecordGlobal(c)
      PROVE  \E kind \in Kinds, v \in Outcomes :
           /\ ToldGlobally(call[c].at, kind)
           /\ brk'[Global] = RecordOutcome(x, v)
           /\ call' = [ call EXCEPT ![c].at = "halfway", ![c].kind = kind, ![c].verdict = v ]
  <2>1. PICK kind \in Kinds, v \in Outcomes :
        /\ brk' = [ brk EXCEPT ![Global] =
             IF ToldGlobally(call[c].at, kind) THEN RecordOutcome(x, v) ELSE CancelProbe(x) ]
        /\ call' = [ call EXCEPT ![c].at = "halfway", ![c].kind = kind, ![c].verdict = v ]
    BY <1>4, VerdictType DEF RecordGlobal, x
  <2>2. ToldGlobally(call[c].at, kind) /\ brk'[Global] = RecordOutcome(x, v)
    BY <1>1, <1>2, <2>1
  <2>3. QED
    BY <2>1, <2>2
<1>5. CASE \E c \in Requests : RecordGlobal(c)
  <2>1. PICK c \in Requests : RecordGlobal(c)
    BY <1>5
  <2>2. PICK kind \in Kinds, v \in Outcomes :
          /\ ToldGlobally(call[c].at, kind)
          /\ brk'[Global] = RecordOutcome(x, v)
          /\ call' = [ call EXCEPT ![c].at = "halfway", ![c].kind = kind, ![c].verdict = v ]
    BY <1>4, <2>1
  <2>3. call[c] \in Calls
    BY <1>1
  <2>4. QED
    BY <2>2, <2>3 DEF x
<1>6. CASE UNCHANGED brk
  BY <1>2, <1>6 DEF x
<1>7. ASSUME NEW c \in Requests, NEW h \in Hosts, Rejected(c, h) \/ Granted(c, h)
      PROVE  FALSE
  <2>1. AfterRefusal(TryAcquire(x), PermitOf(x)) = TryAcquire(x)
    BY <1>3 DEF AfterRefusal
  <2>2. brk'[Global] = TryAcquire(x)
    BY <1>1, <1>7, <2>1 DEF Rejected, Granted, x
  <2>3. QED
    BY <1>2, <2>2
<1>8. ASSUME NEW c \in Requests, LeakThrough(c) \/ RecordHost(c)
      PROVE  FALSE
  <2>1. call[c].host \in Hosts
    BY <1>1, <1>8 DEF LeakThrough, RecordHost
  <2>2. brk'[Global] = x
    BY <1>1, <1>8, <2>1 DEF LeakThrough, RecordHost, x
  <2>3. QED
    BY <1>2, <2>2
<1>9. ASSUME NEW c \in Requests, RequestDropped(c) PROVE FALSE
  <2>1. brk'[Global] \in {x, CancelProbe(x)}
    BY <1>1, <1>9 DEF RequestDropped, x
  <2>2. QED
    BY <1>2, <2>1
<1>10. CASE ResetAll \/ Snapshot \/ ClockTick \/ \E h \in Hosts : Evict(h)
  <2>1. brk'[Global] \in {x, NewBreaker, LazyEvaluate(x), Age(x)}
    BY <1>1, <1>10 DEF ResetAll, Snapshot, ClockTick, Evict, x
  <2>2. QED
    BY <1>2, <2>1
<1>11. QED
  BY <1>5, <1>6, <1>7, <1>8, <1>9, <1>10
     DEF RegistryNext, registryVars, Guard, GiveUp, Disarm

(* One busy host cannot disable a renderer for every host: its global       *)
(* breaker opens only on the renderer's own answer in the ladder proper,    *)
(* and only after enough faults of the renderer (record_scoped_outcome).    *)
THEOREM GlobalTripsHonestly == RegistrySpec => GlobalTripsOnTierFaults
<1>1. ASSUME RegistryInv, [RegistryNext]_registryVars,
             brk[Global].state = "Closed", brk'[Global].state = "Open"
      PROVE  \E c \in Requests :
               /\ call[c].at = "guarded" /\ call'[c].at = "halfway"
               /\ OfTheRenderer(call'[c].kind)
               /\ (IF IsFailure(call'[c].verdict) THEN evidence + 1 ELSE evidence) * RateDen
                    >= RateNum * MinCalls
  <2>1. PICK c \in Requests, kind \in Kinds, v \in Outcomes :
           /\ ToldGlobally(call[c].at, kind)
           /\ brk'[Global] = RecordOutcome(brk[Global], v)
           /\ call[c] \in Calls
           /\ call' = [ call EXCEPT ![c].at = "halfway", ![c].kind = kind, ![c].verdict = v ]
    BY <1>1, GlobalOpensByTelling
  <2>2. call'[c].at = "halfway" /\ call'[c].kind = kind /\ call'[c].verdict = v
    BY <1>1, <2>1, Before DEF Calls
  <2>3. call[c].at = "guarded" /\ OfTheRenderer(kind)
    BY <2>1 DEF ToldGlobally, OfTheRenderer, Kinds
  <2> DEFINE w == brk[Global].window
             p == Push(w, IF IsFailure(v) THEN "Failure" ELSE "Success")
             n == IF IsFailure(v) THEN evidence + 1 ELSE evidence
  <2>4. Sound(brk[Global]) /\ w \in Seq(Slots) /\ Len(w) <= WindowSize
    <3>1. Sound(brk[Global])
      BY <1>1, Before
    <3>2. QED
      BY <3>1 DEF Sound, BreakerStates
  <2>5. Tripping(p)
    BY <1>1, <2>1, <2>4, OpensByRecord
  <2>6. evidence \in Nat /\ Failures(w) <= evidence /\ Failures(w) \in Nat
    <3>1. evidence \in 0..WindowSize /\ WindowSize \in Nat /\ Failures(w) <= evidence
      BY <1>1, BreakerAssumption DEF RegistryInv, RegistryTypeOK, Evident
    <3>2. QED
      BY <2>4, <3>1, FailuresFinite
  <2>7. n \in Nat /\ Failures(p) \in Nat /\ Failures(p) <= n /\ Len(p) \in Nat
    <3> HIDE DEF w
    <3>1. (IF IsFailure(v) THEN "Failure" ELSE "Success") \in Slots
      BY DEF Slots
    <3>2. p \in Seq(Slots) /\ Failures(p) \in Nat
      BY <2>4, <3>1, PushType, FailuresFinite
    <3>3. Failures(p) <= n
      <4>1. CASE IsFailure(v)
        <5>1. p = Push(w, "Failure") /\ n = evidence + 1
          BY <4>1
        <5>2. Failures(Push(w, "Failure")) <= Failures(w) + 1
          BY <2>4, FailuresPush DEF Slots
        <5> HIDE DEF p, n
        <5>3. QED
          BY <2>6, <3>2, <5>1, <5>2
      <4>2. CASE ~IsFailure(v)
        <5>1. p = Push(w, "Success") /\ n = evidence
          BY <4>2
        <5>2. Failures(Push(w, "Success")) <= Failures(w)
          BY <2>4, FailuresPush DEF Slots
        <5> HIDE DEF p, n
        <5>3. QED
          BY <2>6, <3>2, <5>1, <5>2
      <4>3. QED
        BY <4>1, <4>2
    <3>4. n \in Nat
      BY <2>6
    <3> HIDE DEF p, n
    <3>5. QED
      BY <3>2, <3>3, <3>4
  <2> HIDE DEF w, p, n
  <2>8. n * RateDen >= RateNum * MinCalls
    <3>1. /\ Len(p) >= MinCalls /\ Failures(p) * RateDen >= RateNum * Len(p)
          /\ RateDen \in Nat /\ RateNum \in Nat /\ MinCalls \in Nat
      BY <2>5, BreakerAssumption DEF Tripping
    <3>2. ASSUME NEW a \in Nat, NEW b1 \in Nat, NEW m \in Nat, a <= b1
          PROVE  a * m <= b1 * m /\ m * a <= m * b1
      <4>1. PICK d \in Nat : b1 = a + d
        <5>1. b1 - a \in Nat /\ b1 = a + (b1 - a)
          BY <3>2
        <5>2. QED
          BY <5>1
      <4>2. b1 * m = a * m + d * m /\ m * b1 = m * a + m * d
        BY <4>1
      <4>3. d * m \in Nat /\ m * d \in Nat /\ a * m \in Nat /\ m * a \in Nat
        OBVIOUS
      <4>4. QED
        BY <4>2, <4>3
    <3>3. Failures(p) * RateDen <= n * RateDen /\ RateNum * MinCalls <= RateNum * Len(p)
      BY <2>7, <3>1, <3>2
    <3>4. /\ Failures(p) * RateDen \in Nat /\ n * RateDen \in Nat
          /\ RateNum * MinCalls \in Nat /\ RateNum * Len(p) \in Nat
      BY <2>7, <3>1
    <3>5. QED
      BY <3>1, <3>3, <3>4
  <2>9. (IF IsFailure(call'[c].verdict) THEN evidence + 1 ELSE evidence) = n
    BY <2>2 DEF n
  <2>10. QED
    BY <2>2, <2>3, <2>8, <2>9
<1>2. RegistryInv /\ [RegistryNext]_registryVars =>
        [ brk[Global].state = "Closed" /\ brk'[Global].state = "Open" =>
            \E c \in Requests :
              /\ call[c].at = "guarded" /\ call'[c].at = "halfway"
              /\ OfTheRenderer(call'[c].kind)
              /\ LET faults == IF IsFailure(call'[c].verdict) THEN evidence + 1 ELSE evidence
                 IN  faults * RateDen >= RateNum * MinCalls ]_registryVars
  BY <1>1
<1>3. QED
  BY <1>2, RegistryInductive, PTL DEF RegistrySpec, GlobalTripsOnTierFaults
=============================================================================
