------------------------------ MODULE HttpFetch ------------------------------
(***************************************************************************)
(* The plain HTTP tier: HttpFetcher::fetch of http_only.rs and the egress   *)
(* memory of egress.rs it shares with every other fetch.                    *)
(*                                                                          *)
(* A fetch may go out directly or through the fall-back proxy.  The memory  *)
(* of one host is kept here (no fetch touches two): how long the host stays *)
(* latched to the proxy.  All instants are relative to now; Tick is the one *)
(* clock of the memory and of every deadline.                               *)
(***************************************************************************)
EXTENDS Integers, FiniteSets

CONSTANTS
  Fetches,           \* fetches of the host that may be in flight together
  Budgets,           \* what is left of a deadline when the tier is entered
  Cooldown,          \* COOLDOWN of the egress memory
  Reserve,           \* DIRECT_FALLBACK_RESERVE
  MinProxy,          \* MIN_PROXY_ATTEMPT
  ChallengeReserve,  \* CHALLENGE_DIRECT_RESERVE
  ChallengeMax,      \* CHALLENGE_PROXY_MAX
  MinTier,           \* MIN_TIER_BUDGET
  Backoff,           \* HTTP_RETRY_BACKOFF
  MaxRetries         \* HTTP_MAX_RETRIES

ASSUME BudgetsAssumption == Budgets \subseteq Nat

ASSUME TimesAssumption ==
  /\ Cooldown \in Nat \ {0}
  /\ Reserve \in Nat
  /\ MinProxy \in Nat \ {0}
  /\ ChallengeReserve \in Nat
  /\ ChallengeMax \in Nat \ {0}
  /\ MinTier \in Nat \ {0}
  /\ Backoff \in Nat
  /\ Backoff < Reserve
  /\ MaxRetries \in Nat

VARIABLES
  latch,    \* EGRESS_MEMORY: what is left of the host's entry, 0 if there is none
  fx,       \* each fetch: the locals of HttpFetcher::fetch
  heard,    \* history: what each fetch learnt of the origin on a direct attempt
  sends,    \* history: how often each fetch has sent
  since     \* history: time since a direct attempt was last blocked, at most Cooldown

vars == << latch, fx, heard, sends, since >>

Least(a, b) == IF a < b THEN a ELSE b
Greatest(a, b) == IF a < b THEN b ELSE a

MinBudgetForLatch == Reserve + MinProxy

(* A fetcher: is a fall-back proxy armed, does every request leave through a *)
(* configured proxy anyway, is there a client that skips verification?       *)
Fetchers == [ fallback : BOOLEAN, static : BOOLEAN, lax : BOOLEAN ]

(* What an origin, or a proxy in its place, may answer.  "soft" stands for a *)
(* success, "limited" for 429, "down" for 502 to 504.                        *)
Answers == [ status : {"soft", "limited", "down", "refusal"}, challenge : BOOLEAN ]

(* How a send may fail: is_connect, is_timeout, is_connection_failure and    *)
(* is_cert_error are read off the kind.                                      *)
Failures == {"blackhole", "refused", "reset", "slow", "certificate", "dns", "protocol"}

IsConnect(e) == e \in {"blackhole", "refused", "certificate", "dns"}
IsConnectionFailure(e) == e \in {"blackhole", "refused", "reset"}
IsRetriable(e) == e = "slow"

ShouldArmProxy(a) == a.status = "limited" \/ a.challenge

Outcomes == {"page", "timeout", "unreachable", "http_error", "unsupported"}

Idle ==
  [ at |-> "away", by |-> [ fallback |-> FALSE, static |-> FALSE, lax |-> FALSE ],
    left |-> 0, cap |-> 0, first |-> FALSE, proxy |-> FALSE, rescued |-> FALSE,
    midLoop |-> FALSE, challenged |-> FALSE, relaxed |-> FALSE,
    blackholed |-> FALSE, answered |-> FALSE, tries |-> 0, out |-> "none" ]

(* The proxy attempt is one a direct attempt has to back up. *)
Rescuable(x) == x.proxy /\ (x.first \/ x.midLoop) /\ ~x.rescued

MutAttemptBudget(x) ==   \* nothing is held back for the rescue
  IF ~x.proxy \/ x.rescued \/ ~x.challenged THEN x.left
  ELSE Least(x.left - Least(x.left \div 2, ChallengeReserve), ChallengeMax)

AttemptBudget(x) ==
  IF ~x.proxy \/ x.rescued THEN x.left
  ELSE IF x.first THEN Greatest(x.left - Reserve, 0)
  ELSE IF x.challenged
       THEN Least(x.left - Least(x.left \div 2, ChallengeReserve), ChallengeMax)
  ELSE x.left

(* Only the outcome survives the call. *)
Ended(out) == [ Idle EXCEPT !.out = out ]
Rescued(x) == [ x EXCEPT !.at = "ready", !.proxy = FALSE, !.rescued = TRUE ]

(* One more attempt on the same egress, after a pause the deadline allows. *)
Again(x) ==
  [ x EXCEPT !.at = "nap", !.tries = @ + 1, !.cap = Least(Backoff, x.left) ]

-----------------------------------------------------------------------------

Init ==
  /\ latch = 0
  /\ fx = [ f \in Fetches |-> Idle ]
  /\ heard = [ f \in Fetches |-> {} ]
  /\ sends = [ f \in Fetches |-> 0 ]
  /\ since = Cooldown

(* fetch is called, and decides once whether it starts on the proxy. *)
ProxyFirst(by, b) == by.fallback /\ b >= MinBudgetForLatch /\ latch > 0

Begin(f) ==
  /\ fx[f].at = "away"
  /\ \E by \in Fetchers, b \in Budgets :
       fx' = [ fx EXCEPT ![f] =
         IF b = 0 THEN Ended("http_error")
         ELSE [ Idle EXCEPT !.at = "ready", !.by = by, !.left = b,
                            !.first = ProxyFirst(by, b), !.proxy = ProxyFirst(by, b) ] ]
  /\ heard' = [ heard EXCEPT ![f] = {} ]
  /\ sends' = [ sends EXCEPT ![f] = 0 ]
  /\ UNCHANGED << latch, since >>

(* The head of the loop: settle the budget of the attempt and send. *)
MutLaunched(x) ==   \* goes round without giving up the proxy
  IF x.left = 0 THEN Ended("timeout")
  ELSE IF AttemptBudget(x) > 0 THEN [ x EXCEPT !.at = "sent", !.cap = AttemptBudget(x) ]
  ELSE IF x.proxy /\ x.first /\ ~x.rescued THEN x
  ELSE Ended("timeout")

Launched(x) ==
  IF x.left = 0 THEN Ended("timeout")
  ELSE IF AttemptBudget(x) > 0 THEN [ x EXCEPT !.at = "sent", !.cap = AttemptBudget(x) ]
  ELSE IF x.proxy /\ x.first /\ ~x.rescued THEN Rescued(x)
  ELSE Ended("timeout")

Launch(f) ==
  /\ fx[f].at = "ready"
  /\ fx' = [ fx EXCEPT ![f] = Launched(@) ]
  /\ sends' = [ sends EXCEPT ![f] = @ + IF fx'[f].at = "sent" THEN 1 ELSE 0 ]
  /\ UNCHANGED << latch, heard, since >>

(* The attempt hung until its budget was spent. *)
AfterHang(x) ==
  IF Rescuable(x) THEN Rescued(x)
  ELSE Ended(IF x.blackholed THEN "unreachable" ELSE "timeout")

Hang(f) ==
  /\ fx[f].at = "sent" /\ fx[f].cap = 0
  /\ fx' = [ fx EXCEPT ![f] = AfterHang(@) ]
  /\ UNCHANGED << latch, heard, sends, since >>

(* Headers came back.  The arms are those of the match, in its order. *)
ArmsProxy(x, a) ==
  /\ ~(x.tries < MaxRetries /\ a.status = "down")
  /\ ~x.proxy /\ ~x.rescued /\ x.by.fallback
  /\ ShouldArmProxy(a)

Armed(x, a) ==
  [ x EXCEPT !.at = "ready", !.proxy = TRUE, !.midLoop = TRUE,
             !.challenged = a.challenge ]

AfterAnswer(x, a) ==
  IF x.tries < MaxRetries /\ a.status = "down" THEN Again(x)
  ELSE IF ArmsProxy(x, a) THEN Armed(x, a)
  ELSE IF Rescuable(x) /\ (a.status # "soft" \/ a.challenge) THEN Rescued(x)
  ELSE [ x EXCEPT !.at = "body", !.cap = Greatest(x.left, MinTier) ]

(* Only a block met on the host's own egress may be remembered. *)
MutNotesHeaders(x, a) == ArmsProxy(x, a)   \* behind a configured proxy too

NotesHeaders(x, a) == ArmsProxy(x, a) /\ ~x.by.static

Direct(x) == ~x.proxy /\ ~x.by.static

Answer(f) ==
  /\ fx[f].at = "sent"
  /\ \E a \in Answers :
       LET x == [ fx[f] EXCEPT !.answered = @ \/ ~fx[f].proxy ] IN
       /\ fx' = [ fx EXCEPT ![f] = AfterAnswer(x, a) ]
       /\ latch' = IF NotesHeaders(x, a) THEN Cooldown ELSE latch
       /\ heard' = [ heard EXCEPT ![f] = @ \cup IF x.proxy THEN {} ELSE {"answer"} ]
       /\ since' = IF Direct(x) /\ ShouldArmProxy(a) THEN 0 ELSE since
  /\ UNCHANGED sends

(* The send failed.  A connect time-out of a direct attempt is first-hand   *)
(* evidence that the origin is not there, unless it has answered before.     *)
SwitchesEgress(x, e) ==
  ~x.proxy /\ ~x.rescued /\ x.by.fallback /\ x.left >= MinTier /\ IsConnectionFailure(e)

MutFirstHand(x, e) == IsConnectionFailure(e) /\ ~x.answered   \* a reset counts too

FirstHand(x, e) == e = "blackhole" /\ ~x.answered

TriesRelaxed(x, e) == ~x.relaxed /\ x.by.lax /\ e = "certificate"

AfterFailure(x, e) ==
  IF Rescuable(x) THEN Rescued(x)
  ELSE IF TriesRelaxed(x, e) THEN [ x EXCEPT !.at = "ready", !.relaxed = TRUE ]
  ELSE IF SwitchesEgress(x, e)
       THEN [ x EXCEPT !.at = "ready", !.proxy = TRUE,
                       !.blackholed = FirstHand(x, e) ]
  ELSE IF x.tries < MaxRetries
          /\ (IsRetriable(e) \/ (~x.by.fallback /\ IsConnectionFailure(e)))
       THEN Again(x)
  ELSE IF IsConnect(e) /\ (~x.proxy \/ x.blackholed) THEN Ended("unreachable")
  ELSE Ended("http_error")

Fail(f) ==
  /\ fx[f].at = "sent"
  /\ \E e \in Failures :
       /\ fx' = [ fx EXCEPT ![f] = AfterFailure(@, e) ]
       /\ heard' = [ heard EXCEPT ![f] = @ \cup IF fx[f].proxy THEN {} ELSE {e} ]
  /\ UNCHANGED << latch, sends, since >>

(* The pause between two tries is over. *)
Wake(f) ==
  /\ fx[f].at = "nap" /\ fx[f].cap = 0
  /\ fx' = [ fx EXCEPT ![f].at = "ready" ]
  /\ UNCHANGED << latch, heard, sends, since >>

(* The body: a page, a wall only the text of the page tells, a PDF, bytes   *)
(* that are no text, too large or broken; or it stalls.                      *)
Bodies == {"page", "wall", "pdf", "binary", "broken"}

AfterBody(x, b) ==
  CASE b = "binary" -> Ended("unsupported")
    [] b = "broken" -> Ended("http_error")
    [] OTHER        -> Ended("page")

NotesBody(x, b) == b = "wall" /\ ~x.proxy /\ ~x.by.static

Body(f) ==
  /\ fx[f].at = "body"
  /\ \E b \in Bodies :
       /\ fx' = [ fx EXCEPT ![f] = AfterBody(@, b) ]
       /\ latch' = IF NotesBody(fx[f], b) THEN Cooldown ELSE latch
       /\ since' = IF Direct(fx[f]) /\ b = "wall" THEN 0 ELSE since
  /\ UNCHANGED << heard, sends >>

Stall(f) ==
  /\ fx[f].at = "body" /\ fx[f].cap = 0
  /\ fx' = [ fx EXCEPT ![f] = Ended("timeout") ]
  /\ UNCHANGED << latch, heard, sends, since >>

(* Time passes only while everything that runs is waiting for something. *)
Waiting(x) == x.at \in {"sent", "nap", "body"}

Older(n) == Greatest(n - 1, 0)

Ticked(x) == [ x EXCEPT !.left = @ - 1, !.cap = @ - 1 ]

Tick ==
  /\ \A f \in Fetches : fx[f].at = "away" \/ (Waiting(fx[f]) /\ fx[f].cap > 0)
  /\ fx' = [ f \in Fetches |->
       IF Waiting(fx[f]) THEN Ticked(fx[f]) ELSE fx[f] ]
  /\ latch' = Older(latch)
  /\ since' = Least(since + 1, Cooldown)
  /\ UNCHANGED << heard, sends >>

Step(f) == Launch(f) \/ Hang(f) \/ Wake(f) \/ Stall(f)

Next ==
  \/ \E f \in Fetches : Begin(f) \/ Step(f) \/ Answer(f) \/ Fail(f) \/ Body(f)
  \/ Tick

(* Code that may run runs; time passes, whatever else goes on. *)
Fairness ==
  /\ \A f \in Fetches : WF_vars(Step(f))
  /\ SF_vars(Tick)

Spec == Init /\ [][Next]_vars /\ Fairness

-----------------------------------------------------------------------------

(* The type of every variable. *)
TypeOK ==
  /\ latch \in 0..Cooldown
  /\ since \in 0..Cooldown
  /\ heard \in [ Fetches -> SUBSET (Failures \cup {"answer"}) ]
  /\ sends \in [ Fetches -> Nat ]
  /\ fx \in [ Fetches ->
       [ at : {"away", "ready", "sent", "nap", "body"}, by : Fetchers,
         left : Int, cap : Nat, tries : 0..MaxRetries,
         first : BOOLEAN, proxy : BOOLEAN, rescued : BOOLEAN, midLoop : BOOLEAN,
         challenged : BOOLEAN, relaxed : BOOLEAN, blackholed : BOOLEAN,
         answered : BOOLEAN, out : Outcomes \cup {"none"} ] ]

(* The host is latched only by a block a direct attempt met, and not a tick  *)
(* longer than the cool-down after the last one: neither a block met behind  *)
(* somebody's proxy nor the proxied traffic the latch causes keeps it alive. *)
LatchIsOwnBlock == latch <= Cooldown - since

(* No fetch outlives its deadline: it starts no attempt past it, and its     *)
(* body may take at most MIN_TIER_BUDGET more.                               *)
WithinBudget ==
  \A f \in Fetches :
    /\ fx[f].left >= -MinTier
    /\ fx[f].left < 0 => fx[f].at = "body"

(* A fetch asks at most so often: the retries, and once each for the proxy,  *)
(* the rescue and the client that skips verification.                        *)
AttemptsBounded == \A f \in Fetches : sends[f] <= 4 + MaxRetries

Ends(f) == fx[f].at # "away" /\ fx'[f].at = "away"

(* The latch reorders, it never suppresses: a fetch it sent to the proxy     *)
(* does not end before the headers of a success unless direct was tried, and *)
(* direct is tried with all the budget that is held back for it, less the    *)
(* one pause of a retry.                                                     *)
LatchNeverSuppresses ==
  [][ \A f \in Fetches : fx[f].first =>
        /\ Ends(f) /\ fx[f].at # "body" => fx[f].rescued
        /\ fx'[f].rescued /\ ~fx[f].rescued => fx'[f].left >= Reserve - Backoff ]_vars

(* A target is called unreachable only on what a direct attempt has seen; on *)
(* the proxy's word only when the origin swallowed a direct connection and   *)
(* never answered one.                                                       *)
BlameOnEvidence ==
  [][ \A f \in Fetches : Ends(f) /\ fx'[f].out = "unreachable" =>
        /\ \E e \in heard'[f] : e # "answer" /\ IsConnect(e)
        /\ fx[f].proxy => "blackhole" \in heard[f] /\ "answer" \notin heard[f] ]_vars

(* Once the proxy has failed a fetch, the fetch does not go back to it. *)
NoWayBack ==
  [][ \A f \in Fetches : fx[f].rescued => ~fx'[f].proxy ]_vars

(* Every fetch ends, whatever the origin and the proxy do. *)
EveryFetchEnds == \A f \in Fetches : fx[f].at # "away" ~> fx[f].at = "away"

=============================================================================
