----------------------------- MODULE RenderLadder -----------------------------
(***************************************************************************)
(* fetch_with_js of crates/crw-renderer/src/lib.rs: one request climbing   *)
(* the JS tiers in order, with the leak-through arm at the end.            *)
(*                                                                         *)
(* The circuit breakers are the module BreakerRegistry; here they answer   *)
(* any permit at any time.  The budget only drains, at any moment; what a  *)
(* tier brings back is one of a few kinds of body or of error.             *)
(***************************************************************************)
EXTENDS Naturals, Sequences, SequencesExt

CONSTANTS
  Ladder,     \* js_renderers: the tiers in fallback order
  Promoted,   \* the same for a host the preference learner sends to Chrome first
  Solver      \* the Byparr tier

Tiers == Range(Ladder)

(* FallbackRenderer::new lists each tier once, none of them named as the     *)
(* automatic choice, and the solver after all others; the sort of a promoted *)
(* host's tiers is stable and moves up the Chrome tiers only.                *)
ASSUME LadderAssumption ==
  /\ "auto" \notin Tiers
  /\ Range(Promoted) = Tiers
  /\ \A q \in {Ladder, Promoted} :
       /\ q \in Seq(STRING)
       /\ \A i, j \in DOMAIN q : q[i] = q[j] => i = j
       /\ Solver \in Tiers => q[Len(q)] = Solver

(* What JsBodyChecks tells of a body: fit to return, thin or half rendered, *)
(* a blocked status with no wall signal, a vendor, Cloudflare or classifier *)
(* wall, a wall of the generic phrase list.                                 *)
TierBodies == {"good", "thin", "status", "vendorWall", "genericWall"}

Accepted(body) == body = "good"
IsWall(body) == body \in {"vendorWall", "genericWall"}

(* Timeout, an origin that cannot be reached or navigated to, a fault of the *)
(* tier, a wall or refusal as the ladder words it, no such tier.            *)
Errors == {"timeout", "origin", "fault", "blocked", "noTier"}

VARIABLES
  at,         \* where the request stands
  todo,       \* tiers the present loop has not visited
  pool,       \* renderers_snapshot
  pinned,     \* is_user_pinned
  tracked,    \* the URL has a host, so the breakers are asked
  budget,     \* TRUE while deadline.remaining() >= MIN_TIER_BUDGET
  challenge,  \* challenge_seen
  skipped,    \* breaker_skipped
  chain,      \* chain
  thin,       \* thin_result: the tier and the body
  err,        \* last_error
  answer,     \* what the ladder returned
  sent        \* history: the tiers fetched, in order, leaks included

ladderVars == << at, todo, pool, pinned, tracked, budget, challenge, skipped,
                 chain, thin, err, answer, sent >>

request == << pool, pinned, tracked >>

None == [ tier |-> "none", body |-> "none" ]

Unanswered == [ is |-> "none", tier |-> "none", body |-> "none",
                decision |-> "none", err |-> "none" ]

Ok(tier, body, decision) ==
  [ Unanswered EXCEPT !.is = "ok", !.tier = tier, !.body = body, !.decision = decision ]

Err(e) == [ Unanswered EXCEPT !.is = "err", !.err = e ]

-----------------------------------------------------------------------------

(* The pools a request that pins p, or "auto", may find. *)
Pools(p) ==
  IF p = "auto" THEN {Ladder, Promoted} ELSE IF p \in Tiers THEN {<< p >>} ELSE {<< >>}

Climb(p, hint, hasHost) ==
  /\ pool' \in Pools(p)
  /\ todo' = pool'
  /\ pinned' = (p # "auto")
  /\ tracked' = hasHost
  /\ challenge' = hint
  /\ skipped' = {} /\ chain' = << >> /\ thin' = None /\ err' = "none"
  /\ sent' = << >>
  /\ IF pool' = << >>
     THEN at' = "answered" /\ answer' = Err("noTier")
     ELSE at' = "loop" /\ answer' = Unanswered

(* The head of the serial loop. *)
Visit(t) == at = "loop" /\ todo # << >> /\ t = Head(todo)

Onward == todo' = Tail(todo) /\ at' = "loop"

SolverIdle(t) == t = Solver /\ ~challenge

SkipSolver(t) ==
  /\ Visit(t)
  /\ SolverIdle(t)
  /\ Onward
  /\ UNCHANGED << request, budget, challenge, skipped, chain, thin, err, answer, sent >>

(* A tier skipped for want of budget overwrites any earlier error. *)
StarvedError(e) == "timeout"

Starve(t) ==
  /\ \/ Visit(t) /\ ~SolverIdle(t)
     \/ at = "permitted" /\ t = Head(todo)
  /\ ~budget
  /\ err' = StarvedError(err)
  /\ Onward
  /\ UNCHANGED << request, budget, challenge, skipped, chain, thin, answer, sent >>

BreakerSkip(t) ==
  /\ Visit(t)
  /\ ~SolverIdle(t) /\ budget /\ tracked
  /\ skipped' = skipped \cup {t}
  /\ Onward
  /\ UNCHANGED << request, budget, challenge, chain, thin, err, answer, sent >>

(* acquire_with_guard grants; it awaits, so the budget is looked at again. *)
BreakerGrant(t) ==
  /\ Visit(t)
  /\ ~SolverIdle(t) /\ budget
  /\ at' = "permitted"
  /\ UNCHANGED << todo, request, budget, challenge, skipped, chain, thin, err, answer, sent >>

(* Mutant: the floor is checked before the permit only. *)
MutWorthSending == TRUE

WorthSending == budget

Dispatch(t) ==
  /\ at = "permitted" /\ t = Head(todo)
  /\ WorthSending
  /\ chain' = Append(chain, t)
  /\ sent' = Append(sent, t)
  /\ at' = "rendering"
  /\ UNCHANGED << todo, request, budget, challenge, skipped, thin, err, answer >>

Decision(t) ==
  CASE pinned                                       -> "UserPinned"
    [] ~pinned /\ skipped # {}                      -> "BreakerSkipped"
    [] ~pinned /\ skipped = {} /\ Len(chain) > 1    -> "Failover"
    [] OTHER                                        -> "AutoDefault"

Accept(t) ==
  /\ at = "rendering" /\ t = Head(todo)
  /\ answer' = Ok(t, "good", Decision(t))
  /\ at' = "answered"
  /\ UNCHANGED << todo, request, budget, challenge, skipped, chain, thin, err, sent >>

(* The larger of two thin bodies is kept, whichever came first. *)
Keep(t, body) ==
  IF thin = None THEN { [ tier |-> t, body |-> body ] }
  ELSE { thin, [ tier |-> t, body |-> body ] }

(* A Cloudflare interstitial no other detector sees leaves last_error alone. *)
Complaint(body) ==
  CASE body = "thin"                         -> { err }
    [] body = "vendorWall"                   -> { err, "blocked" }
    [] body \in {"status", "genericWall"}    -> { "blocked" }

Reject(t) ==
  /\ at = "rendering" /\ t = Head(todo)
  /\ \E body \in TierBodies \ {"good"} :
       /\ thin' \in Keep(t, body)
       /\ challenge' = (challenge \/ IsWall(body))
       /\ err' \in Complaint(body)
  /\ Onward
  /\ UNCHANGED << request, budget, skipped, chain, answer, sent >>

TierFails(t) ==
  /\ at = "rendering" /\ t = Head(todo)
  /\ err' \in {"timeout", "origin", "fault"}
  /\ Onward
  /\ UNCHANGED << request, budget, challenge, skipped, chain, thin, answer, sent >>

-----------------------------------------------------------------------------

(* The leak-through arm: no body, some tier behind a breaker, no pin, budget. *)
MayLeak == thin = None /\ skipped # {} /\ ~pinned /\ budget

EnterLeak ==
  /\ at = "loop" /\ todo = << >>
  /\ MayLeak
  /\ at' = "leak"
  /\ todo' = pool
  /\ UNCHANGED << request, budget, challenge, skipped, chain, thin, err, answer, sent >>

(* The tier was not skipped, try_acquire_host_only refuses it, or the budget *)
(* drained while that awaited.                                               *)
LeakSkip ==
  /\ at = "leak" /\ todo # << >>
  /\ todo' = Tail(todo)
  /\ UNCHANGED << at, request, budget, challenge, skipped, chain, thin, err, answer, sent >>

Leakable(t) == t \in skipped

LeakDispatch(t) ==
  /\ at = "leak" /\ todo # << >> /\ t = Head(todo)
  /\ Leakable(t) /\ budget
  /\ sent' = Append(sent, t)
  /\ at' = "leaking"
  /\ UNCHANGED << todo, request, budget, challenge, skipped, chain, thin, err, answer >>

(* One attempt, whatever it brings: a good body is the answer, any other is *)
(* the thin candidate, an error is the last one.                            *)
LeakEnd(t) ==
  /\ at = "leaking" /\ t = Head(todo)
  /\ \/ /\ answer' = Ok(t, "good", "AutoDefault")
        /\ at' = "answered"
        /\ UNCHANGED << thin, err >>
     \/ /\ \E body \in TierBodies \ {"good"} : thin' = [ tier |-> t, body |-> body ]
        /\ err' = "blocked"
        /\ at' = "tail"
        /\ UNCHANGED answer
     \/ /\ err' \in {"timeout", "origin", "fault"}
        /\ at' = "tail"
        /\ UNCHANGED << thin, answer >>
  /\ UNCHANGED << todo, request, budget, challenge, skipped, chain, sent >>

(* The best thin body if any tier brought one, else the last error. *)
Best ==
  IF thin # None
  THEN Ok(thin.tier, thin.body, IF chain = << >> THEN "none" ELSE "Failover")
  ELSE Err(IF err = "none" THEN "noTier" ELSE err)

Conclude ==
  /\ \/ at = "loop" /\ todo = << >> /\ ~MayLeak
     \/ at = "leak" /\ todo = << >>
     \/ at = "tail"
  /\ at' = "answered"
  /\ answer' = Best
  /\ UNCHANGED << todo, request, budget, challenge, skipped, chain, thin, err, sent >>

(* Time passes while the request is under way. *)
Drain ==
  /\ at # "answered" /\ budget
  /\ budget' = FALSE
  /\ UNCHANGED << at, todo, request, challenge, skipped, chain, thin, err, answer, sent >>

LadderStep ==
  \/ \E t \in Tiers :
       \/ SkipSolver(t) \/ Starve(t) \/ BreakerSkip(t) \/ BreakerGrant(t)
       \/ Dispatch(t) \/ Accept(t) \/ Reject(t) \/ TierFails(t)
       \/ LeakDispatch(t) \/ LeakEnd(t)
  \/ EnterLeak \/ LeakSkip \/ Conclude
  \/ Drain
=============================================================================
