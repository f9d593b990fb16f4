------------------------------ MODULE SmartFetch ------------------------------
(***************************************************************************)
(* FallbackRenderer::fetch of crates/crw-renderer/src/lib.rs: one request  *)
(* through the host limiter, the HTTP tier, the Chrome-impersonating hop   *)
(* and the JS ladder of RenderLadder, with the fallbacks between them.     *)
(***************************************************************************)
EXTENDS RenderLadder

CONSTANT HasHop     \* the impersonated tier is built in and configured

ASSUME HopAssumption == HasHop \in BOOLEAN

VARIABLES
  step,       \* where fetch stands: limiter, http, judge, ladder, done
  mode,       \* effective render_js: "auto", "js", "http"
  pin,        \* requested_renderer, "auto" when there is none
  page,       \* what the HTTP tier brought
  result      \* what fetch returned

fetchVars == << step, mode, pin, page, result >>
requestVars == << fetchVars, ladderVars >>

(* An HTTP error: no connection, a slow origin, a failure after the         *)
(* connection was up, a body no client can turn into a page.                *)
HttpErrors == {"unreachable", "timeout", "transport", "unrenderable"}

(* An HTTP body: `sign` is the Cloudflare or AWS challenge it shows, in the *)
(* header or the body, `wall` that it matches the generic phrase list.      *)
Pages ==
  [ pdf : BOOLEAN,           \* declared application/pdf
    sign : {"none", "cfHeader", "wafHeader", "cfBody"},
    wall : BOOLEAN,
    soft : BOOLEAN,          \* soft_block_warrants_js
    hard : BOOLEAN,          \* is_hard_block_status
    shell : BOOLEAN,         \* needs_js_rendering, or thin 2xx with scripts
    empty : BOOLEAN,         \* empty 2xx HTML
    named : BOOLEAN ]        \* a 4xx or 5xx on a path that names a PDF

(* The combinations a response can show: an empty body shows nothing, and a  *)
(* 2xx is no block.  520 to 530 are hard blocks that are not soft ones.        *)
HttpPages ==
  { p \in Pages : /\ p.empty => ~p.wall /\ ~p.soft /\ ~p.hard /\ ~p.named
                                /\ p.sign # "cfBody" /\ ~p.shell
                  /\ p.pdf => ~p.wall /\ ~p.shell /\ ~p.empty /\ p.sign = "none" }

(* What a request may pin: a tier of this build, the impersonated tier, a *)
(* renderer this deployment does not run; or nothing.                     *)
Pins == Tiers \cup {"auto", "impersonated-http", "camofox"}

NoPage == [ error |-> "none" ]

Failed(e) == [ error |-> e ]

Pending == [ is |-> "none", from |-> "none", tier |-> "none", body |-> "none",
             tagged |-> FALSE, err |-> "none" ]

Success(from, tier, body, tagged) ==
  [ Pending EXCEPT !.is = "ok", !.from = from, !.tier = tier,
                   !.body = body, !.tagged = tagged ]

Failure(e) == [ Pending EXCEPT !.is = "err", !.err = e ]

Done(r) == step' = "done" /\ result' = r

-----------------------------------------------------------------------------

FetchInit ==
  /\ step = "limiter"
  /\ mode \in {"auto", "js", "http"}
  /\ pin \in Pins
  /\ page = NoPage
  /\ result = Pending
  /\ at = "idle" /\ todo = << >> /\ pool = << >> /\ pinned = FALSE
  /\ tracked \in BOOLEAN /\ budget = TRUE /\ challenge = FALSE /\ skipped = {}
  /\ chain = << >> /\ thin = None /\ err = "none" /\ answer = Unanswered
  /\ sent = << >>

(* The host permit: got in time, or the deadline passes in the queue; a URL *)
(* without a host needs none.                                               *)
Admit ==
  /\ step = "limiter"
  /\ \/ step' = "http" /\ UNCHANGED result
     \/ tracked /\ Done(Failure("timeout"))
  /\ UNCHANGED << mode, pin, page, ladderVars >>

(* fetch_pinned_impersonated, ahead of the render mode: what the tier brings *)
(* is the answer, a wall is an error.                                        *)
PinnedHop ==
  /\ step = "http" /\ pin = "impersonated-http"
  /\ \/ HasHop /\ Done(Success("hop", "none", "page", FALSE))
     \/ \E e \in HttpErrors \cup {"blocked"} : HasHop /\ Done(Failure(e))
     \/ ~HasHop /\ Done(Failure("noTier"))
  /\ UNCHANGED << mode, pin, page, ladderVars >>

HttpFetch ==
  /\ step = "http" /\ pin # "impersonated-http"
  /\ \/ \E e \in HttpErrors : page' = Failed(e)
     \/ \E p \in HttpPages : page' = p
  /\ step' = "judge"
  /\ UNCHANGED << mode, pin, result, ladderVars >>

Erred == "error" \in DOMAIN page

Pinned == pin # "auto"

Judging == step = "judge"

Browsers == Ladder # << >>

(* An HTTP-only request takes what the HTTP tier brought. *)
HttpOnly ==
  /\ Judging /\ mode = "http"
  /\ Done(IF Erred THEN Failure(page.error) ELSE Success("http", "none", "page", FALSE))
  /\ UNCHANGED << mode, pin, page, ladderVars >>

(* The impersonated hop, on a wall a fingerprint may clear or on a failure  *)
(* after the connection; its accept gate lets only a good page through.     *)
CfHeaderSignal ==
  \/ page.sign = "cfHeader"
  \/ page.sign = "wafHeader" /\ ~Pinned

Blocked == CfHeaderSignal \/ page.sign = "cfBody" \/ page.wall

HopFires ==
  /\ HasHop /\ mode = "auto" /\ budget
  /\ IF Erred THEN page.error = "transport"
     ELSE /\ ~page.pdf
          /\ Blocked \/ page.hard
          /\ ~CfHeaderSignal /\ page.sign # "cfBody"

Hop ==
  /\ Judging /\ HopFires
  /\ Done(Success("hop", "none", "good", FALSE))
  /\ UNCHANGED << mode, pin, page, ladderVars >>

(* An HTTP failure with browsers at hand goes up the ladder, unless the     *)
(* body is one no browser can render.                                       *)
HttpFailed ==
  /\ Judging /\ mode # "http" /\ Erred
  /\ IF Browsers /\ page.error # "unrenderable"
     THEN /\ step' = "ladder"
          /\ Climb(pin, FALSE, tracked)
          /\ UNCHANGED << result, budget >>
     ELSE Done(Failure(page.error)) /\ UNCHANGED ladderVars
  /\ UNCHANGED << mode, pin, page >>

WouldEscalate ==
  page.shell \/ Blocked \/ page.soft \/ (page.empty /\ ~Pinned)

(* An error on a PDF path is the origin's verdict on a document, unless a   *)
(* challenge stands in front of it.                                         *)
DocumentVerdict ==
  ~Pinned /\ page.named /\ page.sign # "cfBody" /\ ~CfHeaderSignal

(* Mutant: the challenge in front of a PDF path is taken for its verdict. *)
MutEscalates == Browsers /\ ~page.pdf /\ ~page.named /\ WouldEscalate

Escalates ==
  IF mode = "js" THEN Browsers /\ ~page.pdf
  ELSE Browsers /\ ~page.pdf /\ ~DocumentVerdict /\ WouldEscalate

(* challenge_hint: the forced arm reads fewer signals than the auto arm. *)
Hint == IF mode = "js" THEN page.sign \in {"cfHeader", "cfBody"} \/ page.wall ELSE Blocked

HttpAnswered ==
  /\ Judging /\ mode # "http" /\ ~Erred
  /\ IF Escalates
     THEN /\ step' = "ladder"
          /\ Climb(pin, Hint, tracked)
          /\ UNCHANGED << result, budget >>
     ELSE Done(Success("http", "none", "page", FALSE)) /\ UNCHANGED ladderVars
  /\ UNCHANGED << mode, pin, page >>

Climbing == step = "ladder" /\ LadderStep /\ UNCHANGED fetchVars

(* Mutant: the ladder's verdict always wins. *)
MutDemoted == FALSE

(* demote_wall_to_ladder_failure: nothing but a generic wall, against an    *)
(* HTTP body that is not one.                                               *)
Demoted == answer.body = "genericWall" /\ ~Pinned /\ ~page.wall

(* escalate_after_http_failure: a dead origin outranks the ladder's report  *)
(* that the same origin could not be navigated to.                          *)
RootCause(e) ==
  IF page.error = "unreachable" /\ e \in {"origin", "timeout"} THEN "unreachable" ELSE e

(* Mutant: a pinned request gets the HTTP body like any other. *)
MutFailClosed == page.wall

FailClosed == Pinned \/ page.wall

FallbackTag == TRUE

Settle ==
  /\ step = "ladder" /\ at = "answered"
  /\ Done(IF Erred
          THEN IF answer.is = "ok" THEN Success("ladder", answer.tier, answer.body, FALSE)
               ELSE Failure(RootCause(answer.err))
          ELSE IF answer.is = "ok" /\ ~Demoted
               THEN Success("ladder", answer.tier, answer.body, FALSE)
          ELSE IF FailClosed THEN Failure(answer.err)
          ELSE Success("http", "none", "page", FallbackTag))
  /\ UNCHANGED << mode, pin, page, ladderVars >>

FetchNext ==
  \/ Admit \/ PinnedHop \/ HttpFetch \/ HttpOnly \/ Hop \/ HttpFailed \/ HttpAnswered
  \/ Climbing \/ Settle

FetchSpec == FetchInit /\ [][FetchNext]_requestVars

-----------------------------------------------------------------------------

(* Every variable keeps its type. *)
FetchTypeOK ==
  /\ step \in {"limiter", "http", "judge", "ladder", "done"}
  /\ at \in {"idle", "loop", "permitted", "rendering", "leak", "leaking", "tail", "answered"}
  /\ todo \in Seq(Tiers) /\ pool \in Seq(Tiers) /\ chain \in Seq(Tiers)
  /\ sent \in Seq(Tiers) /\ skipped \subseteq Tiers
  /\ Len(chain) <= Len(pool)
  /\ thin # None => thin.tier \in Tiers /\ thin.body \in TierBodies \ {"good"}
  /\ err \in Errors \cup {"none"}
  /\ answer.body \in TierBodies \cup {"none"}
  /\ result.is \in {"none", "ok", "err"}
  /\ result.err \in Errors \cup HttpErrors \cup {"none"}

(* A page or a tier's body that asks for the solver. *)
Challenged ==
  \/ ~Erred /\ (page.sign # "none" \/ page.wall)
  \/ challenge

(* No tier is fetched twice for one request, the leak arm included, and the *)
(* leak arm spends one attempt at most.                                     *)
NoTierTwice ==
  /\ Len(sent) = Cardinality(Range(sent))
  /\ Len(sent) <= Len(chain) + 1

(* A starved request answers with its own timeout, whatever failed before   *)
(* (the unconditional last_error assignment): no fault of a tier outlives   *)
(* the tiers that never ran.                                                *)
StarvedIsTimeout ==
  at = "answered" /\ answer.is = "err" =>
    \A t \in Range(pool) :
      \/ t \in Range(sent) \cup skipped
      \/ t = Solver /\ ~challenge
      \/ answer.err = "timeout"

(* When the ladder fails outright no tier brought a body (fetch, "An `Err`  *)
(* means no tier produced a body"), and a good body is always the answer.   *)
ErrMeansNoBody ==
  at = "answered" =>
    /\ answer.is = "err" => thin = None
    /\ answer.is = "ok" => answer.tier \in Range(sent)

(* A wall every tier ran into never displaces an HTTP body that can be      *)
(* served, in either arm (demote_wall_to_ladder_failure).                   *)
WallNeverDisplacesPage ==
  result.is = "ok" /\ result.body = "genericWall" => Erred \/ page.wall \/ Pinned

(* A renderer pin is a contract: once the ladder ran, a pinned request is   *)
(* answered by the pinned tier or fails, whatever the HTTP tier has in hand *)
(* and whatever tier another arm would have leaked to.                      *)
PinHonoured ==
  /\ Pinned => Range(sent) \subseteq {pin}
  /\ result.is = "ok" /\ Pinned /\ at = "answered" => result.tier = pin
  /\ result.is = "ok" /\ pin = "impersonated-http" => result.from = "hop"

(* The HTTP body handed back after a spent ladder is always tagged, which   *)
(* is how crw_crawl::single knows not to climb again (JS_ESCALATION_FAILED). *)
FallbackTagged ==
  result.is = "ok" /\ result.from = "http" => (result.tagged <=> at = "answered")

(* What an answer says of itself is so: a starved request says timeout, an    *)
(* error means that no tier brought a body, a body of plain HTTP is tagged     *)
(* as such, and a wall is nobody's page while a page is in hand.               *)
AnswerIsTrue ==
  /\ FetchTypeOK
  /\ StarvedIsTimeout /\ ErrMeansNoBody
  /\ FallbackTagged /\ WallNeverDisplacesPage

(* The tiers a request is sent to are those it asked for, once each. *)
TiersAsAsked == NoTierTwice /\ PinHonoured

(* Of one request: its answer is true and its tiers are those it asked for. *)
RequestIsSound == AnswerIsTrue /\ TiersAsAsked

(* Through FetchPromise: an answer hands over what the named tier really      *)
(* brought, after the request was sent to it; no body is lost on the way, no  *)
(* tier is tried once a good one is in hand, and the answer is the only one.  *)
HttpSide ==
  CASE page = NoPage -> "awaited"
    [] page # NoPage /\ Erred -> "failed"
    [] page # NoPage /\ ~Erred -> IF page.wall THEN "wall" ELSE "page"

Kept == IF answer.is = "ok" THEN [ tier |-> answer.tier, body |-> answer.body ] ELSE thin

Told == [ is |-> result.is, from |-> result.from, tier |-> result.tier,
          body |-> result.body, tagged |-> result.tagged ]

Promise == INSTANCE FetchPromise
  WITH Bodies <- TierBodies, http <- HttpSide, tried <- Range(sent), hand <- Kept, reply <- Told

KeepsFetchPromise == Promise!PromiseSpec

(* A tier is only started with budget for it: time that passes while the     *)
(* breaker is asked does not slip a starved attempt through.  The solver,     *)
(* which launches a browser per solve, is only sent a request whose HTTP body  *)
(* or an earlier tier's body was a challenge or a wall, on the leak arm too    *)
(* (fetch_with_js, "is what lets the Byparr solver run").                      *)
DispatchIsDue ==
  [][ /\ sent' # sent => budget
      /\ Solver \in Range(sent') \ Range(sent) => Challenged ]_requestVars

(* A render reported as coming from the configured default chain (RenderDecision, *)
(* "Auto mode used the configured default chain") skipped no tier for its breaker. *)
DefaultMeansNoSkip == answer.decision = "AutoDefault" => skipped = {}
=============================================================================
