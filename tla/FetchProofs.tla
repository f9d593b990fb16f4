----------------------------- MODULE FetchProofs -----------------------------
(***************************************************************************)
(* The safety properties of the HTTP tier and of the request that uses it.  *)
(*                                                                          *)
(* HttpFetch, for any number of fetches and any budgets: most of the        *)
(* argument is about one fetch; Fine collects what holds of its locals      *)
(* between two awaits, and each lemma shows that one arm of the loop keeps  *)
(* it.                                                                      *)
(*                                                                          *)
(* SmartFetch, for any ladder of tiers and any pin: LadderInv keeps the     *)
(* account of the tiers (sent to, skipped, still ahead, not called for) and *)
(* FetchInv ties the ladder to the request that climbs it.                  *)
(***************************************************************************)
EXTENDS HttpFetch, SmartFetch, FiniteSetTheorems, TLAPS

(* The locals of one fetch, as TypeOK has them. *)
Locals ==
  [ at : {"away", "ready", "sent", "nap", "body"}, by : Fetchers,
    left : Int, cap : Nat, tries : 0..MaxRetries,
    first : BOOLEAN, proxy : BOOLEAN, rescued : BOOLEAN, midLoop : BOOLEAN,
    challenged : BOOLEAN, relaxed : BOOLEAN, blackholed : BOOLEAN,
    answered : BOOLEAN, out : Outcomes \cup {"none"} ]

One(b) == IF b THEN 1 ELSE 0

(* What the attempts made so far are charged to. *)
Charged(x) == x.tries + One(x.relaxed) + One((x.proxy \/ x.rescued) /\ ~x.first) + One(x.rescued)

(* A wait fits into what is left, beside what is held back for the rescue. *)
Held(x) == IF x.first /\ ~x.rescued THEN Reserve ELSE 0
Timed(x) ==
  /\ x.at \in {"away", "ready"} => x.left >= 0
  /\ x.at = "ready" /\ x.first /\ ~x.rescued => x.left >= Reserve - Backoff
  /\ x.at = "sent" => x.left >= x.cap + Held(x)
  /\ x.at = "nap" => /\ x.left >= x.cap
                     /\ x.first /\ ~x.rescued => x.left - x.cap >= Reserve - Backoff
  /\ x.at = "body" => x.left >= x.cap - MinTier

(* How the flags that say which egress is in use hang together. *)
Routed(x) ==
  /\ x.at = "away" => ~x.first /\ ~x.rescued /\ ~x.proxy
  /\ x.rescued => ~x.proxy
  /\ x.first \/ x.midLoop => x.proxy \/ x.rescued
  /\ x.blackholed => x.proxy /\ ~x.first /\ ~x.midLoop

(* What the flags say of the origin is what direct attempts have seen. *)
Witnessed(x, h) ==
  /\ "answer" \in h /\ x.at # "away" => x.answered
  /\ x.blackholed => "blackhole" \in h /\ "answer" \notin h

(* A fetch that has not sent since it was last at the head of the loop is   *)
(* charged for every attempt; a fetch that has sent, for all but one.        *)
Counted(x, n) ==
  /\ x.at \in {"ready", "nap"} => n <= Charged(x)
  /\ x.at \in {"sent", "body"} => n <= Charged(x) + 1
  /\ n <= 4 + MaxRetries

Fine(x, h, n) ==
  /\ x \in Locals
  /\ Timed(x)
  /\ Routed(x)
  /\ Witnessed(x, h)
  /\ n \in Nat
  /\ Counted(x, n)

(* The inductive invariant. *)
IInv ==
  /\ latch \in 0..Cooldown
  /\ since \in 0..Cooldown
  /\ LatchIsOwnBlock
  /\ heard \in [ Fetches -> SUBSET (Failures \cup {"answer"}) ]
  /\ sends \in [ Fetches -> Nat ]
  /\ fx \in [ Fetches -> Locals ]
  /\ \A f \in Fetches : Fine(fx[f], heard[f], sends[f])

-----------------------------------------------------------------------------

LEMMA Times ==
  /\ Reserve \in Nat /\ MinProxy \in Nat /\ MinTier \in Nat /\ MinTier > 0
  /\ MinProxy > 0 /\ ChallengeMax > 0 /\ ChallengeReserve \in Nat /\ ChallengeMax \in Nat
  /\ Backoff \in Nat /\ Backoff < Reserve /\ MaxRetries \in Nat
  /\ Cooldown \in Nat /\ Cooldown > 0
BY TimesAssumption

LEMMA IdleLocals == Idle \in Locals
BY Times DEF Idle, Locals, Fetchers

(* A fetch that is over, however it ended, is fine. *)
LEMMA EndedFine ==
  ASSUME NEW out \in Outcomes \cup {"none"}, NEW h, NEW n \in Nat,
         n <= 4 + MaxRetries
  PROVE  Fine(Ended(out), h, n)
<1>1. Ended(out) \in Locals
  BY IdleLocals DEF Locals, Ended
<1>2. /\ Ended(out).at = "away" /\ Ended(out).left = 0
      /\ ~Ended(out).first /\ ~Ended(out).rescued /\ ~Ended(out).proxy
      /\ ~Ended(out).midLoop /\ ~Ended(out).blackholed
  BY DEF Ended, Idle
<1> QED
  BY <1>1, <1>2 DEF Fine, Timed, Routed, Witnessed, Counted

(* What Fine gives of the budget: never negative before the body. *)
LEMMA FineLeft ==
  ASSUME NEW x, NEW h, NEW n, Fine(x, h, n), x.at \in {"ready", "sent", "nap"}
  PROVE  /\ x.left \in Nat
         /\ x.cap \in Nat
         /\ x.tries \in Nat /\ x.tries <= MaxRetries
         /\ Charged(x) \in Nat /\ Charged(x) <= MaxRetries + 3
BY Times DEF Fine, Timed, Held, Locals, Charged, One

LEMMA RescuedFine ==
  ASSUME NEW x, NEW h, NEW n, Fine(x, h, n), x.at \in {"ready", "sent"}, Rescuable(x)
  PROVE  /\ Fine(Rescued(x), h, n)
         /\ Rescued(x).at = "ready" /\ Rescued(x).rescued
         /\ x.first => Rescued(x).left >= Reserve - Backoff
<1> DEFINE y == Rescued(x)
<1>1. /\ y \in Locals /\ y.at = "ready" /\ ~y.proxy /\ y.rescued
      /\ y.left = x.left /\ y.cap = x.cap /\ y.first = x.first /\ y.tries = x.tries
      /\ y.midLoop = x.midLoop /\ y.relaxed = x.relaxed
      /\ y.blackholed = x.blackholed /\ y.answered = x.answered
  BY DEF Fine, Locals, Rescued
<1>2. x \in Locals /\ x.left \in Nat /\ x.tries \in Nat
  BY FineLeft DEF Fine
<1>3. Timed(y) /\ (x.first => y.left >= Reserve - Backoff)
  BY <1>1, <1>2, Times DEF Fine, Timed, Held, Rescuable, Locals
<1>4. Routed(y) /\ Witnessed(y, h)
  BY <1>1, <1>2 DEF Fine, Routed, Witnessed, Rescuable, Locals
<1>5. Counted(y, n)
  BY <1>1, <1>2, Times DEF Fine, Counted, Charged, One, Rescuable, Locals
<1> QED
  BY <1>1, <1>3, <1>4, <1>5 DEF Fine

(* What one step of a fetch may not do: go back to the proxy, be rescued on *)
(* too little, give a latched fetch up unrescued.                            *)
Lawful(x, y) ==
  /\ x.rescued => ~y.proxy
  /\ x.first /\ y.rescued /\ ~x.rescued => y.left >= Reserve - Backoff
  /\ x.first /\ y.at = "away" /\ x.at # "body" => x.rescued

(* The pause of a retry fits into what is left, and the retry is counted. *)
LEMMA AgainFine ==
  ASSUME NEW x, NEW h, NEW n, Fine(x, h, n), x.at = "sent", x.tries < MaxRetries
  PROVE  Fine(Again(x), h, n) /\ Again(x).at = "nap" /\ Lawful(x, Again(x))
<1> DEFINE y == Again(x)
<1>1. x \in Locals /\ x.left \in Nat /\ x.tries \in Nat
  BY FineLeft DEF Fine
<1>2. /\ y \in Locals /\ y.at = "nap" /\ y.proxy = x.proxy /\ y.rescued = x.rescued
      /\ y.left = x.left /\ y.cap = Least(Backoff, x.left)
      /\ y.first = x.first /\ y.tries = x.tries + 1
      /\ y.midLoop = x.midLoop /\ y.relaxed = x.relaxed
      /\ y.blackholed = x.blackholed /\ y.answered = x.answered
  <2>1. x.tries + 1 \in 0..MaxRetries /\ Least(Backoff, x.left) \in Nat
    BY <1>1, Times DEF Least
  <2> QED
    BY <1>1, <2>1 DEF Locals, Again
<1>3. Timed(y)
  BY <1>1, <1>2, Times DEF Fine, Timed, Held, Locals, Least
<1>4. Routed(y) /\ Witnessed(y, h)
  BY <1>1, <1>2 DEF Fine, Routed, Witnessed
<1>5. Counted(y, n)
  BY <1>1, <1>2, Times DEF Fine, Counted, Charged, One, Locals
<1>6. Lawful(x, y)
  BY <1>1, <1>2 DEF Fine, Routed, Lawful
<1> QED
  BY <1>2, <1>3, <1>4, <1>5, <1>6 DEF Fine

LEMMA Halved ==
  ASSUME NEW m \in Nat
  PROVE  m \div 2 \in Nat /\ m \div 2 <= m /\ (m # 0 => m \div 2 < m)
OBVIOUS

LEMMA EndedFields ==
  ASSUME NEW out
  PROVE  /\ Ended(out).at = "away" /\ Ended(out).out = out
         /\ ~Ended(out).rescued /\ ~Ended(out).proxy
BY DEF Ended, Idle

(* The budget of an attempt fits beside what is held back for the rescue,   *)
(* and only a latched fetch can be left without one.                         *)
LEMMA BudgetFits ==
  ASSUME NEW x, NEW h, NEW n, Fine(x, h, n), x.at = "ready", AttemptBudget(x) > 0
  PROVE  AttemptBudget(x) \in Nat /\ AttemptBudget(x) + Held(x) <= x.left
<1>1. x \in Locals /\ x.left \in Nat
  BY FineLeft DEF Fine
<1>2. CASE x.first /\ ~x.rescued
  <2>1. x.proxy
    BY <1>2 DEF Fine, Routed
  <2> QED
    BY <1>1, <1>2, <2>1, Times DEF AttemptBudget, Held, Greatest
<1>3. CASE ~(x.first /\ ~x.rescued) /\ (~x.proxy \/ x.rescued \/ ~x.challenged)
  BY <1>1, <1>3 DEF AttemptBudget, Held
<1>4. CASE x.proxy /\ ~x.rescued /\ ~x.first /\ x.challenged
  BY <1>1, <1>4, Halved, Times DEF AttemptBudget, Held, Least
<1> QED
  BY <1>1, <1>2, <1>3, <1>4 DEF Locals

LEMMA BudgetIsPositive ==
  ASSUME NEW x, NEW h, NEW n, Fine(x, h, n), x.at = "ready",
         x.left # 0, ~(AttemptBudget(x) > 0)
  PROVE  x.proxy /\ x.first /\ ~x.rescued
<1>1. x \in Locals /\ x.left \in Nat
  BY FineLeft DEF Fine
<1>2. CASE x.proxy /\ ~x.rescued /\ ~x.first /\ x.challenged
  <2>1. PICK l \in Nat : l = x.left /\ l # 0
    BY <1>1
  <2>2. PICK half \in Nat : half = l \div 2 /\ half < l
    BY <2>1, Halved
  <2>3. AttemptBudget(x) = Least(l - Least(half, ChallengeReserve), ChallengeMax)
    BY <1>2, <2>1, <2>2 DEF AttemptBudget
  <2> QED
    BY <2>1, <2>2, <2>3, Times DEF Least
<1> QED
  BY <1>1, <1>2 DEF AttemptBudget, Locals

(* The head of the loop: the attempt gets what is left less what is held    *)
(* back, and a fetch that gives up here had nothing left.                    *)
LEMMA LaunchedFine ==
  ASSUME NEW x, NEW h, NEW n, Fine(x, h, n), x.at = "ready"
  PROVE  /\ Fine(Launched(x), h, n + One(Launched(x).at = "sent"))
         /\ Launched(x).at = "away" => /\ Launched(x).out = "timeout"
                                       /\ ~x.first \/ x.rescued
         /\ x.rescued => ~Launched(x).proxy
         /\ Launched(x).rescued /\ ~x.rescued /\ x.first =>
              Launched(x).left >= Reserve - Backoff
         /\ Launched(x).at \in {"away", "ready", "sent"}
<1>1. x \in Locals /\ x.left \in Nat /\ x.tries \in Nat /\ n \in Nat
  BY FineLeft DEF Fine
<1>2. CASE x.left = 0
  <2>1. ~x.first \/ x.rescued
    BY <1>2, <1>1, Times DEF Fine, Timed, Locals
  <2>2. Launched(x) = Ended("timeout")
    BY <1>2 DEF Launched
  <2> QED
    BY <2>1, <2>2, <1>1, EndedFields, EndedFine DEF One, Fine, Counted, Outcomes
<1>3. CASE x.left # 0 /\ AttemptBudget(x) > 0
  <2> DEFINE y == Launched(x)
  <2>1. y = [ x EXCEPT !.at = "sent", !.cap = AttemptBudget(x) ]
    BY <1>3 DEF Launched
  <2>2. AttemptBudget(x) \in Nat /\ AttemptBudget(x) + Held(x) <= x.left
    BY <1>1, <1>3, BudgetFits
  <2>3. /\ y \in Locals /\ y.at = "sent" /\ y.proxy = x.proxy /\ y.rescued = x.rescued
        /\ y.left = x.left /\ y.cap = AttemptBudget(x)
        /\ y.first = x.first /\ y.tries = x.tries
        /\ y.midLoop = x.midLoop /\ y.relaxed = x.relaxed
        /\ y.blackholed = x.blackholed /\ y.answered = x.answered
    BY <1>1, <2>1, <2>2 DEF Locals
  <2>4. Timed(y) /\ Routed(y) /\ Witnessed(y, h)
    BY <1>1, <2>2, <2>3 DEF Fine, Timed, Held, Routed, Witnessed
  <2>5. Counted(y, n + 1)
    BY <1>1, <2>3, Times DEF Fine, Counted, Charged, One, Locals
  <2> QED
    BY <1>1, <2>3, <2>4, <2>5 DEF Fine, One, Routed
<1>4. CASE x.left # 0 /\ ~(AttemptBudget(x) > 0)
  <2>1. x.proxy /\ x.first /\ ~x.rescued
    BY <1>1, <1>4, BudgetIsPositive
  <2>2. Launched(x) = Rescued(x)
    BY <1>4, <2>1 DEF Launched
  <2> QED
    BY <2>1, <2>2, <1>1, RescuedFine DEF Rescuable, One
<1> QED
  BY <1>2, <1>3, <1>4

LEMMA AfterHangFine ==
  ASSUME NEW x, NEW h, NEW n, Fine(x, h, n), x.at = "sent"
  PROVE  /\ Fine(AfterHang(x), h, n)
         /\ Lawful(x, AfterHang(x))
         /\ AfterHang(x).at = "away" /\ AfterHang(x).out = "unreachable" => x.blackholed
<1>1. n \in Nat /\ n <= 4 + MaxRetries /\ x \in Locals
  BY DEF Fine, Counted
<1>2. CASE Rescuable(x)
  <2>1. AfterHang(x) = Rescued(x)
    BY <1>2 DEF AfterHang
  <2> QED
    BY <1>2, <2>1, RescuedFine DEF Lawful, Rescuable
<1>3. CASE ~Rescuable(x)
  <2>1. ~x.first \/ x.rescued
    BY <1>1, <1>3 DEF Rescuable, Fine, Routed, Locals
  <2>2. CASE x.blackholed
    <3>1. AfterHang(x) = Ended("unreachable")
      BY <1>3, <2>2 DEF AfterHang
    <3> QED
      BY <1>1, <2>1, <2>2, <3>1, EndedFine, EndedFields DEF Lawful, Outcomes
  <2>3. CASE ~x.blackholed
    <3>1. AfterHang(x) = Ended("timeout")
      BY <1>3, <2>3 DEF AfterHang
    <3> QED
      BY <1>1, <2>1, <3>1, EndedFine, EndedFields DEF Lawful, Outcomes
  <2> QED
    BY <2>2, <2>3
<1> QED
  BY <1>2, <1>3

(* An answer to a direct attempt is remembered before the arms look at it. *)
Answered(x) == [ x EXCEPT !.answered = @ \/ ~x.proxy ]
HeardAnswer(x, h) == h \cup IF x.proxy THEN {} ELSE {"answer"}

LEMMA AnsweredFine ==
  ASSUME NEW x, NEW h, NEW n, Fine(x, h, n), x.at = "sent"
  PROVE  /\ Fine(Answered(x), HeardAnswer(x, h), n)
         /\ Answered(x).at = "sent"
         /\ Answered(x).proxy = x.proxy /\ Answered(x).by = x.by
         /\ Answered(x).rescued = x.rescued /\ Answered(x).first = x.first
         /\ Answered(x).tries = x.tries /\ Answered(x).left = x.left
<1> DEFINE y == Answered(x)
<1>1. x \in Locals
  BY DEF Fine
<1>2. /\ y \in Locals /\ y.at = "sent" /\ y.proxy = x.proxy /\ y.rescued = x.rescued
      /\ y.left = x.left /\ y.cap = x.cap /\ y.by = x.by
      /\ y.first = x.first /\ y.tries = x.tries
      /\ y.midLoop = x.midLoop /\ y.relaxed = x.relaxed
      /\ y.blackholed = x.blackholed /\ y.answered = (x.answered \/ ~x.proxy)
  BY <1>1 DEF Answered, Locals
<1>3. Timed(y) /\ Routed(y) /\ Counted(y, n)
  BY <1>1, <1>2 DEF Fine, Timed, Held, Routed, Counted, Charged
<1>4. Witnessed(y, HeardAnswer(x, h))
  BY <1>1, <1>2 DEF Fine, Routed, Witnessed, HeardAnswer
<1> QED
  BY <1>2, <1>3, <1>4 DEF Fine

LEMMA AfterAnswerFine ==
  ASSUME NEW x, NEW h, NEW n, Fine(x, h, n), x.at = "sent", NEW a \in Answers
  PROVE  /\ Fine(AfterAnswer(x, a), h, n)
         /\ Lawful(x, AfterAnswer(x, a))
         /\ AfterAnswer(x, a).at # "away"
<1>1. x \in Locals /\ n \in Nat /\ x.left \in Nat
  BY FineLeft DEF Fine
<1>2. CASE x.tries < MaxRetries /\ a.status = "down"
  <2>1. AfterAnswer(x, a) = Again(x)
    BY <1>2 DEF AfterAnswer
  <2> QED
    BY <1>2, <2>1, AgainFine
<1>3. CASE ~(x.tries < MaxRetries /\ a.status = "down") /\ ArmsProxy(x, a)
  <2> DEFINE y == Armed(x, a)
  <2>1. AfterAnswer(x, a) = y
    BY <1>3 DEF AfterAnswer
  <2>2. ~x.proxy /\ ~x.rescued /\ ~x.first /\ ~x.midLoop /\ ~x.blackholed
    BY <1>1, <1>3 DEF ArmsProxy, Fine, Routed, Locals
  <2>3. /\ y \in Locals /\ y.at = "ready" /\ y.proxy /\ y.rescued = x.rescued
        /\ y.left = x.left /\ y.first = x.first /\ y.tries = x.tries
        /\ y.midLoop /\ y.relaxed = x.relaxed
        /\ y.blackholed = x.blackholed /\ y.answered = x.answered
    BY <1>1 DEF Armed, Locals, Answers
  <2>4. Timed(y) /\ Routed(y) /\ Witnessed(y, h)
    BY <1>1, <2>2, <2>3 DEF Fine, Timed, Held, Routed, Witnessed
  <2>5. Counted(y, n)
    BY <1>1, <2>2, <2>3, Times DEF Fine, Counted, Charged, One, Locals
  <2> QED
    BY <1>1, <2>1, <2>2, <2>3, <2>4, <2>5 DEF Fine, Lawful
<1>4. CASE /\ ~(x.tries < MaxRetries /\ a.status = "down") /\ ~ArmsProxy(x, a)
           /\ Rescuable(x) /\ (a.status # "soft" \/ a.challenge)
  <2>1. AfterAnswer(x, a) = Rescued(x)
    BY <1>4 DEF AfterAnswer
  <2> QED
    BY <1>4, <2>1, RescuedFine DEF Lawful, Rescuable
<1>5. CASE /\ ~(x.tries < MaxRetries /\ a.status = "down") /\ ~ArmsProxy(x, a)
           /\ ~(Rescuable(x) /\ (a.status # "soft" \/ a.challenge))
  <2> DEFINE y == [ x EXCEPT !.at = "body", !.cap = Greatest(x.left, MinTier) ]
  <2>1. AfterAnswer(x, a) = y
    BY <1>5 DEF AfterAnswer
  <2>2. Greatest(x.left, MinTier) \in Nat /\ Greatest(x.left, MinTier) <= x.left + MinTier
    BY <1>1, Times DEF Greatest
  <2>3. /\ y \in Locals /\ y.at = "body" /\ y.proxy = x.proxy /\ y.rescued = x.rescued
        /\ y.left = x.left /\ y.cap = Greatest(x.left, MinTier)
        /\ y.first = x.first /\ y.tries = x.tries
        /\ y.midLoop = x.midLoop /\ y.relaxed = x.relaxed
        /\ y.blackholed = x.blackholed /\ y.answered = x.answered
    BY <1>1, <2>2 DEF Locals
  <2>4. Timed(y) /\ Routed(y) /\ Witnessed(y, h)
    BY <1>1, <2>2, <2>3, Times DEF Fine, Timed, Routed, Witnessed
  <2>5. Counted(y, n)
    BY <1>1, <2>3, Times DEF Fine, Counted, Charged, One, Locals
  <2> QED
    BY <1>1, <2>1, <2>3, <2>4, <2>5 DEF Fine, Lawful, Routed
<1> QED
  BY <1>2, <1>3, <1>4, <1>5

(* A direct attempt that failed has been heard of. *)
HeardFailure(x, h, e) == h \cup IF x.proxy THEN {} ELSE {e}

LEMMA HeardFine ==
  ASSUME NEW x, NEW h, NEW n, Fine(x, h, n), x.at = "sent", NEW e \in Failures
  PROVE  Fine(x, HeardFailure(x, h, e), n)
BY DEF Fine, Witnessed, HeardFailure, Failures, Routed

LEMMA AfterFailureFine ==
  ASSUME NEW x, NEW h, NEW n, Fine(x, h, n), x.at = "sent", NEW e \in Failures,
         x.proxy \/ e \in h
  PROVE  /\ Fine(AfterFailure(x, e), h, n)
         /\ Lawful(x, AfterFailure(x, e))
         /\ AfterFailure(x, e).at = "away" /\ AfterFailure(x, e).out = "unreachable" =>
              IsConnect(e) /\ (~x.proxy \/ x.blackholed)
<1>1. x \in Locals /\ n \in Nat /\ n <= 4 + MaxRetries /\ x.left \in Nat
  BY FineLeft DEF Fine, Counted
<1>2. CASE Rescuable(x)
  <2>1. AfterFailure(x, e) = Rescued(x)
    BY <1>2 DEF AfterFailure
  <2> QED
    BY <1>2, <2>1, RescuedFine DEF Lawful, Rescuable
<1>3. ASSUME ~Rescuable(x)
      PROVE  ~x.first \/ x.rescued
  BY <1>1, <1>3 DEF Rescuable, Fine, Routed, Locals
<1>4. CASE ~Rescuable(x) /\ TriesRelaxed(x, e)
  <2> DEFINE y == [ x EXCEPT !.at = "ready", !.relaxed = TRUE ]
  <2>1. AfterFailure(x, e) = y
    BY <1>4 DEF AfterFailure
  <2>2. /\ y \in Locals /\ y.at = "ready" /\ y.proxy = x.proxy /\ y.rescued = x.rescued
        /\ y.left = x.left /\ y.first = x.first /\ y.tries = x.tries
        /\ y.midLoop = x.midLoop /\ y.relaxed /\ ~x.relaxed
        /\ y.blackholed = x.blackholed /\ y.answered = x.answered
    BY <1>1, <1>4 DEF Locals, TriesRelaxed
  <2>3. Timed(y) /\ Routed(y) /\ Witnessed(y, h)
    BY <1>1, <1>3, <1>4, <2>2 DEF Fine, Timed, Routed, Witnessed
  <2>4. Counted(y, n)
    BY <1>1, <2>2, Times DEF Fine, Counted, Charged, One, Locals
  <2> QED
    BY <1>1, <2>1, <2>2, <2>3, <2>4 DEF Fine, Lawful, Routed
<1>5. CASE ~Rescuable(x) /\ ~TriesRelaxed(x, e) /\ SwitchesEgress(x, e)
  <2> DEFINE y == [ x EXCEPT !.at = "ready", !.proxy = TRUE, !.blackholed = FirstHand(x, e) ]
  <2>1. AfterFailure(x, e) = y
    BY <1>5 DEF AfterFailure
  <2>2. ~x.proxy /\ ~x.rescued /\ ~x.first /\ ~x.midLoop /\ ~x.blackholed
    BY <1>1, <1>5 DEF SwitchesEgress, Fine, Routed, Locals
  <2>3. /\ y \in Locals /\ y.at = "ready" /\ y.proxy /\ y.rescued = x.rescued
        /\ y.left = x.left /\ y.first = x.first /\ y.tries = x.tries
        /\ y.midLoop = x.midLoop /\ y.relaxed = x.relaxed
        /\ y.blackholed = FirstHand(x, e) /\ y.answered = x.answered
    BY <1>1 DEF Locals, FirstHand
  <2>4. Timed(y) /\ Routed(y)
    BY <1>1, <2>2, <2>3 DEF Fine, Timed, Held, Routed
  <2>5. Witnessed(y, h)
    BY <1>1, <2>2, <2>3 DEF Fine, Witnessed, FirstHand
  <2>6. Counted(y, n)
    BY <1>1, <2>2, <2>3, Times DEF Fine, Counted, Charged, One, Locals
  <2> QED
    BY <1>1, <2>1, <2>2, <2>3, <2>4, <2>5, <2>6 DEF Fine, Lawful
<1>6. CASE /\ ~Rescuable(x) /\ ~TriesRelaxed(x, e) /\ ~SwitchesEgress(x, e)
           /\ x.tries < MaxRetries
           /\ IsRetriable(e) \/ (~x.by.fallback /\ IsConnectionFailure(e))
  <2>1. AfterFailure(x, e) = Again(x)
    BY <1>6 DEF AfterFailure
  <2> QED
    BY <1>6, <2>1, AgainFine
<1>7. CASE /\ ~Rescuable(x) /\ ~TriesRelaxed(x, e) /\ ~SwitchesEgress(x, e)
           /\ ~(/\ x.tries < MaxRetries
                /\ IsRetriable(e) \/ (~x.by.fallback /\ IsConnectionFailure(e)))
  <2>1. CASE IsConnect(e) /\ (~x.proxy \/ x.blackholed)
    <3>1. AfterFailure(x, e) = Ended("unreachable")
      BY <1>7, <2>1 DEF AfterFailure
    <3> QED
      BY <1>1, <1>3, <1>7, <2>1, <3>1, EndedFine, EndedFields DEF Lawful, Outcomes
  <2>2. CASE ~(IsConnect(e) /\ (~x.proxy \/ x.blackholed))
    <3>1. AfterFailure(x, e) = Ended("http_error")
      BY <1>7, <2>2 DEF AfterFailure
    <3> QED
      BY <1>1, <1>3, <1>7, <3>1, EndedFine, EndedFields DEF Lawful, Outcomes
  <2> QED
    BY <2>1, <2>2
<1> QED
  BY <1>2, <1>4, <1>5, <1>6, <1>7

LEMMA WokenFine ==
  ASSUME NEW x, NEW h, NEW n, Fine(x, h, n), x.at = "nap", x.cap = 0
  PROVE  /\ Fine([ x EXCEPT !.at = "ready" ], h, n)
         /\ Lawful(x, [ x EXCEPT !.at = "ready" ])
<1> DEFINE y == [ x EXCEPT !.at = "ready" ]
<1>1. x \in Locals /\ x.left \in Nat
  BY FineLeft DEF Fine
<1>2. /\ y \in Locals /\ y.at = "ready" /\ y.proxy = x.proxy /\ y.rescued = x.rescued
      /\ y.left = x.left /\ y.first = x.first /\ y.tries = x.tries
      /\ y.midLoop = x.midLoop /\ y.relaxed = x.relaxed
      /\ y.blackholed = x.blackholed /\ y.answered = x.answered
  BY <1>1 DEF Locals
<1>3. Timed(y) /\ Routed(y) /\ Witnessed(y, h)
  BY <1>1, <1>2, Times DEF Fine, Timed, Routed, Witnessed
<1>4. Counted(y, n) /\ Lawful(x, y)
  BY <1>1, <1>2 DEF Fine, Counted, Charged, Routed, Lawful
<1> QED
  BY <1>2, <1>3, <1>4 DEF Fine

(* A tick takes as much off the wait as off the deadline. *)
LEMMA TickedFine ==
  ASSUME NEW x, NEW h, NEW n, Fine(x, h, n), Waiting(x), x.cap > 0
  PROVE  /\ Fine(Ticked(x), h, n)
         /\ Lawful(x, Ticked(x))
         /\ Ticked(x).at # "away"
<1> DEFINE y == Ticked(x)
<1>1. /\ x \in Locals /\ x.left \in Int /\ x.cap \in Nat
      /\ x.left - 1 \in Int /\ x.cap - 1 \in Nat
  BY DEF Fine, Locals
<1>a. \A l \in Int, c \in Nat : [ x EXCEPT !.left = l, !.cap = c ] \in Locals
  BY <1>1 DEF Locals
<1>2. /\ y \in Locals /\ y.at = x.at /\ y.proxy = x.proxy /\ y.rescued = x.rescued
      /\ y.left = x.left - 1 /\ y.cap = x.cap - 1 /\ y.first = x.first /\ y.tries = x.tries
      /\ y.midLoop = x.midLoop /\ y.relaxed = x.relaxed
      /\ y.blackholed = x.blackholed /\ y.answered = x.answered
  BY <1>1, <1>a DEF Locals, Ticked
<1>3. Timed(y)
  BY <1>1, <1>2, Times DEF Fine, Timed, Held, Waiting
<1>4. Routed(y) /\ Witnessed(y, h) /\ Counted(y, n) /\ Lawful(x, y) /\ y.at # "away"
  BY <1>1, <1>2 DEF Fine, Routed, Witnessed, Counted, Charged, Lawful, Waiting
<1> QED
  BY <1>2, <1>3, <1>4 DEF Fine

LEMMA StillLawful ==
  ASSUME NEW x, NEW h, NEW n, Fine(x, h, n)
  PROVE  Lawful(x, x)
BY DEF Fine, Routed, Lawful

-----------------------------------------------------------------------------

(* What a step of the system may do to one fetch. *)
Blamed(f) ==
  Ends(f) /\ fx'[f].out = "unreachable" =>
    /\ \E e \in heard'[f] : e # "answer" /\ IsConnect(e)
    /\ fx[f].proxy => "blackhole" \in heard[f] /\ "answer" \notin heard[f]

Allowed(f) == Lawful(fx[f], fx'[f]) /\ Blamed(f)

Sound == IInv' /\ \A f \in Fetches : Allowed(f)

Memory ==
  /\ latch \in 0..Cooldown
  /\ since \in 0..Cooldown
  /\ latch <= Cooldown - since

(* A step of one fetch is sound if what it leaves of that fetch is. *)
LEMMA OneStep ==
  ASSUME IInv, Memory', NEW f \in Fetches, NEW y, NEW h, NEW n,
         fx' = [ fx EXCEPT ![f] = y ],
         heard' = [ heard EXCEPT ![f] = h ],
         sends' = [ sends EXCEPT ![f] = n ],
         h \subseteq Failures \cup {"answer"}, Fine(y, h, n),
         Lawful(fx[f], y), Blamed(f)
  PROVE  Sound
<1>1. /\ fx' \in [ Fetches -> Locals ]
      /\ heard' \in [ Fetches -> SUBSET (Failures \cup {"answer"}) ]
      /\ sends' \in [ Fetches -> Nat ]
      /\ fx'[f] = y /\ heard'[f] = h /\ sends'[f] = n
  BY DEF IInv, Fine
<1>2. ASSUME NEW g \in Fetches, g # f
      PROVE  fx'[g] = fx[g] /\ heard'[g] = heard[g] /\ sends'[g] = sends[g]
  BY <1>2 DEF IInv
<1>3. \A g \in Fetches : Fine(fx[g], heard[g], sends[g])'
  BY <1>1, <1>2 DEF IInv
<1>4. IInv'
  BY <1>1, <1>3 DEF IInv, Memory, LatchIsOwnBlock
<1>5. ASSUME NEW g \in Fetches
      PROVE  Allowed(g)
  <2>1. CASE g = f
    BY <1>1, <2>1 DEF Allowed
  <2>2. CASE g # f
    <3>1. fx'[g] = fx[g] /\ Fine(fx[g], heard[g], sends[g])
      BY <1>2, <2>2 DEF IInv
    <3> QED
      BY <3>1, StillLawful DEF Allowed, Blamed, Ends
  <2> QED
    BY <2>1, <2>2
<1> QED
  BY <1>4, <1>5 DEF Sound

LEMMA InitIInv == Init => IInv
<1> SUFFICES ASSUME Init PROVE IInv
  OBVIOUS
<1>1. \A f \in Fetches : Fine(Idle, {}, 0)
  BY IdleLocals, Times
     DEF Fine, Idle, Timed, Held, Routed, Witnessed, Counted
<1> QED
  BY <1>1, IdleLocals, Times DEF Init, IInv, LatchIsOwnBlock

LEMMA StepSound == IInv /\ [Next]_vars => Sound
<1> SUFFICES ASSUME IInv, [Next]_vars PROVE Sound
  OBVIOUS
<1>0. Memory /\ Cooldown \in Nat
  BY Times DEF IInv, Memory, LatchIsOwnBlock
<1>1. ASSUME NEW f \in Fetches
      PROVE  /\ fx[f] \in Locals /\ sends[f] \in Nat
             /\ heard[f] \subseteq Failures \cup {"answer"}
             /\ heard = [ heard EXCEPT ![f] = heard[f] ]
             /\ sends = [ sends EXCEPT ![f] = sends[f] ]
             /\ Fine(fx[f], heard[f], sends[f])
  BY DEF IInv
<1>2. ASSUME NEW f \in Fetches, Begin(f)
      PROVE  Sound
  <2>1. PICK by \in Fetchers, b \in Budgets :
          fx' = [ fx EXCEPT ![f] =
            IF b = 0 THEN Ended("http_error")
            ELSE [ Idle EXCEPT !.at = "ready", !.by = by, !.left = b,
                     !.first = ProxyFirst(by, b), !.proxy = ProxyFirst(by, b) ] ]
    BY <1>2 DEF Begin
  <2> DEFINE y == IF b = 0 THEN Ended("http_error")
                  ELSE [ Idle EXCEPT !.at = "ready", !.by = by, !.left = b,
                           !.first = ProxyFirst(by, b), !.proxy = ProxyFirst(by, b) ]
  <2>2. Fine(y, {}, 0)
    <3>1. CASE b = 0
      BY <3>1, EndedFine, Times DEF Outcomes
    <3>2. CASE b # 0
      <4>1. /\ y \in Locals /\ y.at = "ready" /\ y.left = b
            /\ y.first = ProxyFirst(by, b) /\ y.proxy = ProxyFirst(by, b)
            /\ ~y.rescued /\ ~y.midLoop /\ ~y.blackholed /\ ~y.relaxed /\ y.tries = 0
        <5>1. ProxyFirst(by, b) \in BOOLEAN /\ b \in Int
          BY BudgetsAssumption DEF ProxyFirst, Fetchers
        <5> DEFINE p == ProxyFirst(by, b)
                   z == [ Idle EXCEPT !.at = "ready", !.by = by, !.left = b,
                            !.first = p, !.proxy = p ]
        <5>2. y = z
          BY <3>2
        <5> HIDE DEF p
        <5>3. z \in Locals
          BY <5>1, IdleLocals DEF Locals, Idle, p
        <5>4. /\ z.at = "ready" /\ z.left = b /\ z.first = p /\ z.proxy = p
              /\ ~z.rescued /\ ~z.midLoop /\ ~z.blackholed /\ ~z.relaxed /\ z.tries = 0
          BY DEF Idle
        <5> HIDE DEF y, z
        <5> QED
          BY <5>2, <5>3, <5>4 DEF p
      <4>2. b \in Nat /\ (ProxyFirst(by, b) => b >= Reserve + MinProxy)
        BY BudgetsAssumption DEF ProxyFirst, MinBudgetForLatch
      <4>3. Timed(y) /\ Routed(y) /\ Witnessed(y, {})
        BY <4>1, <4>2, Times DEF Timed, Routed, Witnessed
      <4>4. Counted(y, 0)
        BY <4>1, Times DEF Counted, Charged, One
      <4> QED
        BY <4>1, <4>3, <4>4 DEF Fine
    <3> QED
      BY <3>1, <3>2
  <2>3. Lawful(fx[f], y) /\ Blamed(f) /\ Memory'
    BY <1>0, <1>1, <1>2 DEF Begin, Fine, Routed, Lawful, Blamed, Ends, Memory
  <2> HIDE DEF y
  <2> QED
    BY <1>2, <2>1, <2>2, <2>3, OneStep DEF Begin, y
<1>3. ASSUME NEW f \in Fetches, Launch(f)
      PROVE  Sound
  <2> DEFINE y == Launched(fx[f])
             n == sends[f] + One(y.at = "sent")
  <2>1. fx[f].at = "ready" /\ fx' = [ fx EXCEPT ![f] = y ] /\ fx'[f] = y
    BY <1>3 DEF Launch, IInv
  <2>2. /\ Fine(y, heard[f], n)
        /\ y.at = "away" => y.out = "timeout" /\ (~fx[f].first \/ fx[f].rescued)
        /\ Lawful(fx[f], y)
    BY <1>1, <2>1, LaunchedFine DEF Lawful, Fine, Locals
  <2>3. Blamed(f) /\ Memory'
    BY <1>0, <1>3, <2>1, <2>2 DEF Launch, Blamed, Ends, Memory
  <2>4. sends' = [ sends EXCEPT ![f] = n ]
    BY <1>3, <2>1 DEF Launch, One
  <2> HIDE DEF y, n
  <2> QED
    BY <1>1, <1>3, <2>1, <2>2, <2>3, <2>4, OneStep DEF Launch
<1>4. ASSUME NEW f \in Fetches, Hang(f)
      PROVE  Sound
  <2> DEFINE y == AfterHang(fx[f])
  <2>1. fx[f].at = "sent" /\ fx' = [ fx EXCEPT ![f] = y ] /\ fx'[f] = y
    BY <1>4 DEF Hang, IInv
  <2>2. /\ Fine(y, heard[f], sends[f])
        /\ Lawful(fx[f], y)
        /\ y.at = "away" /\ y.out = "unreachable" => fx[f].blackholed
    BY <1>1, <2>1, AfterHangFine
  <2>3. Blamed(f) /\ Memory'
    BY <1>0, <1>1, <1>4, <2>1, <2>2
       DEF Hang, Blamed, Ends, Memory, Fine, Witnessed, IsConnect
  <2> HIDE DEF y
  <2> QED
    BY <1>1, <1>4, <2>1, <2>2, <2>3, OneStep DEF Hang
<1>5. ASSUME NEW f \in Fetches, Wake(f)
      PROVE  Sound
  <2> DEFINE y == [ fx[f] EXCEPT !.at = "ready" ]
  <2>1. fx[f].at = "nap" /\ fx[f].cap = 0 /\ fx' = [ fx EXCEPT ![f] = y ] /\ fx'[f] = y
    BY <1>5 DEF Wake, IInv
  <2>2. Fine(y, heard[f], sends[f]) /\ Lawful(fx[f], y) /\ y.at = "ready"
    BY <1>1, <2>1, WokenFine DEF Locals
  <2>3. Blamed(f) /\ Memory'
    BY <1>0, <1>5, <2>1, <2>2 DEF Wake, Blamed, Ends, Memory
  <2> HIDE DEF y
  <2> QED
    BY <1>1, <1>5, <2>1, <2>2, <2>3, OneStep DEF Wake
<1>6. ASSUME NEW f \in Fetches, Stall(f)
      PROVE  Sound
  <2>1. fx[f].at = "body" /\ fx' = [ fx EXCEPT ![f] = Ended("timeout") ]
        /\ fx'[f] = Ended("timeout")
    BY <1>6 DEF Stall, IInv
  <2>2. Fine(Ended("timeout"), heard[f], sends[f]) /\ Lawful(fx[f], Ended("timeout"))
    BY <1>1, <2>1, EndedFine, EndedFields DEF Fine, Counted, Lawful, Outcomes
  <2>3. Blamed(f) /\ Memory'
    BY <1>0, <1>6, <2>1, EndedFields DEF Stall, Blamed, Ends, Memory
  <2> QED
    BY <1>1, <1>6, <2>1, <2>2, <2>3, OneStep DEF Stall
<1>7. ASSUME NEW f \in Fetches, Answer(f)
      PROVE  Sound
  <2> DEFINE x == Answered(fx[f])
             h == HeardAnswer(fx[f], heard[f])
  <2>1. PICK a \in Answers :
          /\ fx' = [ fx EXCEPT ![f] = AfterAnswer(x, a) ]
          /\ latch' = IF NotesHeaders(x, a) THEN Cooldown ELSE latch
          /\ heard' = [ heard EXCEPT ![f] = @ \cup IF x.proxy THEN {} ELSE {"answer"} ]
          /\ since' = IF Direct(x) /\ ShouldArmProxy(a) THEN 0 ELSE since
    BY <1>7 DEF Answer, Answered
  <2>2. /\ fx[f].at = "sent" /\ Fine(x, h, sends[f]) /\ x.at = "sent"
        /\ x.proxy = fx[f].proxy /\ x.rescued = fx[f].rescued /\ x.first = fx[f].first
    BY <1>1, <1>7, AnsweredFine DEF Answer
  <2>3. heard' = [ heard EXCEPT ![f] = h ] /\ h \subseteq Failures \cup {"answer"}
    BY <1>1, <2>1, <2>2 DEF HeardAnswer
  <2> DEFINE y == AfterAnswer(x, a)
  <2>4. Fine(y, h, sends[f]) /\ Lawful(x, y) /\ y.at # "away"
    BY <2>2, AfterAnswerFine
  <2>5. Memory'
    BY <1>0, <2>1 DEF Memory, NotesHeaders, ArmsProxy, Direct
  <2>6. Blamed(f) /\ Lawful(fx[f], y)
    BY <2>1, <2>2, <2>4 DEF Blamed, Ends, Lawful, IInv
  <2> HIDE DEF y, x, h
  <2> QED
    BY <1>1, <1>7, <2>1, <2>3, <2>4, <2>5, <2>6, OneStep DEF Answer, y
<1>8. ASSUME NEW f \in Fetches, Fail(f)
      PROVE  Sound
  <2>1. PICK e \in Failures :
          /\ fx' = [ fx EXCEPT ![f] = AfterFailure(fx[f], e) ]
          /\ heard' = [ heard EXCEPT ![f] = HeardFailure(fx[f], heard[f], e) ]
    BY <1>1, <1>8 DEF Fail, HeardFailure
  <2> DEFINE y == AfterFailure(fx[f], e)
             h == HeardFailure(fx[f], heard[f], e)
  <2>2. /\ fx[f].at = "sent" /\ Fine(fx[f], h, sends[f])
        /\ h \subseteq Failures \cup {"answer"} /\ (fx[f].proxy \/ e \in h)
    BY <1>1, <1>8, HeardFine DEF Fail, HeardFailure
  <2>3. /\ Fine(y, h, sends[f]) /\ Lawful(fx[f], y)
        /\ y.at = "away" /\ y.out = "unreachable" =>
             IsConnect(e) /\ (~fx[f].proxy \/ fx[f].blackholed)
    BY <2>2, AfterFailureFine
  <2>4. fx'[f] = y /\ heard'[f] = h
    BY <2>1 DEF IInv
  <2>5. Blamed(f)
    <3> HIDE DEF y
    <3>1. ASSUME y.at = "away", y.out = "unreachable"
          PROVE  /\ \E c \in h : c # "answer" /\ IsConnect(c)
                 /\ fx[f].proxy => "blackhole" \in heard[f] /\ "answer" \notin heard[f]
      <4>1. CASE ~fx[f].proxy
        BY <2>2, <2>3, <3>1, <4>1 DEF Failures
      <4>2. CASE fx[f].proxy
        <5>1. "blackhole" \in heard[f] /\ "answer" \notin heard[f] /\ "blackhole" \in h
          BY <1>1, <2>3, <3>1, <4>2 DEF Fine, Witnessed, HeardFailure
        <5> QED
          BY <5>1 DEF IsConnect
      <4> QED
        BY <4>1, <4>2
    <3> QED
      BY <2>4, <3>1 DEF Blamed, Ends
  <2>6. Memory'
    BY <1>0, <1>8 DEF Fail, Memory
  <2> HIDE DEF y, h
  <2> QED
    BY <1>1, <1>8, <2>1, <2>2, <2>3, <2>5, <2>6, OneStep DEF Fail, y, h
<1>9. ASSUME NEW f \in Fetches, Body(f)
      PROVE  Sound
  <2>1. PICK b \in Bodies :
          /\ fx' = [ fx EXCEPT ![f] = AfterBody(fx[f], b) ]
          /\ latch' = IF NotesBody(fx[f], b) THEN Cooldown ELSE latch
          /\ since' = IF Direct(fx[f]) /\ b = "wall" THEN 0 ELSE since
    BY <1>9 DEF Body
  <2>2. PICK out \in {"unsupported", "http_error", "page"} : AfterBody(fx[f], b) = Ended(out)
    BY DEF AfterBody
  <2>3. fx[f].at = "body" /\ fx'[f] = Ended(out) /\ fx' = [ fx EXCEPT ![f] = Ended(out) ]
    BY <1>9, <2>1, <2>2 DEF Body, IInv
  <2>4. Fine(Ended(out), heard[f], sends[f]) /\ Lawful(fx[f], Ended(out))
    BY <1>1, <2>3, EndedFine, EndedFields DEF Fine, Counted, Lawful, Outcomes
  <2>5. Blamed(f)
    BY <2>3, EndedFields DEF Blamed, Ends
  <2>6. Memory'
    BY <1>0, <2>1 DEF Memory, NotesBody, Direct
  <2> QED
    BY <1>1, <1>9, <2>3, <2>4, <2>5, <2>6, OneStep DEF Body
<1>10. ASSUME Tick
       PROVE  Sound
  <2>1. /\ heard' = heard /\ sends' = sends
        /\ fx' = [ f \in Fetches |->
             IF Waiting(fx[f]) THEN Ticked(fx[f]) ELSE fx[f] ]
    BY <1>10 DEF Tick
  <2>2. ASSUME NEW f \in Fetches
        PROVE  Fine(fx'[f], heard[f], sends[f]) /\ Allowed(f)
    <3>1. CASE Waiting(fx[f])
      <4>1. fx[f].cap > 0 /\ fx'[f] = Ticked(fx[f])
        BY <1>10, <2>1, <3>1 DEF Tick, Waiting
      <4>2. Fine(fx'[f], heard[f], sends[f]) /\ Lawful(fx[f], fx'[f]) /\ fx'[f].at # "away"
        BY <1>1, <3>1, <4>1, TickedFine
      <4> QED
        BY <4>2 DEF Allowed, Blamed, Ends
    <3>2. CASE ~Waiting(fx[f])
      <4>1. fx'[f] = fx[f]
        BY <2>1, <3>2
      <4> QED
        BY <1>1, <4>1, StillLawful DEF Allowed, Blamed, Ends
    <3> QED
      BY <3>1, <3>2
  <2>3. Memory'
    <3>1. latch' = Greatest(latch - 1, 0) /\ since' = Least(since + 1, Cooldown)
      BY <1>10 DEF Tick, Older
    <3>2. latch \in Nat /\ since \in Nat /\ latch <= Cooldown - since
      BY <1>0 DEF Memory
    <3> QED
      BY <1>0, <3>1, <3>2 DEF Memory, Greatest, Least
  <2>4. fx' \in [ Fetches -> Locals ]
    <3>1. \A f \in Fetches : fx'[f] \in Locals
      BY <2>2 DEF Fine
    <3> QED
      BY <2>1, <3>1
  <2> QED
    BY <2>1, <2>2, <2>3, <2>4 DEF Sound, IInv, Memory, LatchIsOwnBlock
<1>11. CASE UNCHANGED vars
  <2>1. ASSUME NEW f \in Fetches
        PROVE  Allowed(f)
    BY <1>1, <1>11, StillLawful DEF vars, Allowed, Blamed, Ends
  <2> QED
    BY <1>11, <2>1 DEF vars, Sound, IInv, LatchIsOwnBlock
<1> QED
  BY <1>2, <1>3, <1>4, <1>5, <1>6, <1>7, <1>8, <1>9, <1>10, <1>11 DEF Next, Step

LEMMA IInvImplies == IInv => TypeOK /\ WithinBudget /\ AttemptsBounded
<1> SUFFICES ASSUME IInv PROVE TypeOK /\ WithinBudget /\ AttemptsBounded
  OBVIOUS
<1>1. TypeOK
  BY DEF IInv, TypeOK, Locals
<1>2. ASSUME NEW f \in Fetches
      PROVE  /\ fx[f].left >= -MinTier
             /\ fx[f].left < 0 => fx[f].at = "body"
             /\ sends[f] <= 4 + MaxRetries
  BY Times DEF IInv, Fine, Timed, Held, Locals, Counted
<1> QED
  BY <1>1, <1>2 DEF WithinBudget, AttemptsBounded

LEMMA AlwaysIInv == Spec => []IInv
<1>1. IInv /\ [Next]_vars => IInv'
  BY StepSound DEF Sound
<1> QED
  BY InitIInv, <1>1, PTL DEF Spec

(* The locals of every fetch and the memory keep their types. *)
THEOREM TypeCorrect == Spec => []TypeOK
BY AlwaysIInv, IInvImplies, PTL

(* For any number of fetches that share the host, with or without proxies of *)
(* their own: the egress memory holds nothing but the last block a direct     *)
(* attempt met, for no longer than the cool-down (EgressMemory::note_block).  *)
THEOREM LatchRemembersOwnBlocks == Spec => []LatchIsOwnBlock
<1>1. IInv => LatchIsOwnBlock
  BY DEF IInv
<1> QED
  BY AlwaysIInv, <1>1, PTL

(* For any deadline and any reserves: no attempt starts past the deadline    *)
(* and the body overruns it by MIN_TIER_BUDGET at most.                       *)
THEOREM DeadlineKept == Spec => []WithinBudget
BY AlwaysIInv, IInvImplies, PTL

(* For any retry limit: HttpFetcher::fetch sends at most four times more.    *)
THEOREM SendsBounded == Spec => []AttemptsBounded
BY AlwaysIInv, IInvImplies, PTL

(* A latched fetch gives direct its turn, and the whole reserve for it.       *)
THEOREM DirectIsNeverSuppressed == Spec => LatchNeverSuppresses
<1>1. IInv /\ [Next]_vars =>
        [ \A f \in Fetches : fx[f].first =>
            /\ Ends(f) /\ fx[f].at # "body" => fx[f].rescued
            /\ fx'[f].rescued /\ ~fx[f].rescued => fx'[f].left >= Reserve - Backoff ]_vars
  BY StepSound DEF Sound, Allowed, Lawful, Ends
<1> QED
  BY AlwaysIInv, <1>1, PTL DEF Spec, LatchNeverSuppresses

(* TargetUnreachable is only reported on first-hand evidence. *)
THEOREM UnreachableIsFirstHand == Spec => BlameOnEvidence
<1>1. IInv /\ [Next]_vars =>
        [ \A f \in Fetches : Ends(f) /\ fx'[f].out = "unreachable" =>
            /\ \E e \in heard'[f] : e # "answer" /\ IsConnect(e)
            /\ fx[f].proxy => "blackhole" \in heard[f] /\ "answer" \notin heard[f] ]_vars
  BY StepSound DEF Sound, Allowed, Blamed
<1> QED
  BY AlwaysIInv, <1>1, PTL DEF Spec, BlameOnEvidence

(* A rescued fetch stays on the direct egress. *)
THEOREM RescueIsFinal == Spec => NoWayBack
<1>1. IInv /\ [Next]_vars =>
        [ \A f \in Fetches : fx[f].rescued => ~fx'[f].proxy ]_vars
  BY StepSound DEF Sound, Allowed, Lawful
<1> QED
  BY AlwaysIInv, <1>1, PTL DEF Spec, NoWayBack

-----------------------------------------------------------------------------

(* The tiers of a list, each once. *)
Distinct(q) == \A i, j \in DOMAIN q : q[i] = q[j] => i = j

(* What the loop has still to look at: the tier being rendered is behind it. *)
Rest == IF at = "rendering" THEN Tail(todo) ELSE todo

Climbed == {"loop", "permitted", "rendering"}
Leaks == {"leak", "leaking", "tail"}

Thins == { None } \cup [ tier : Tiers, body : TierBodies \ {"good"} ]

Decisions == {"none", "UserPinned", "BreakerSkipped", "Failover", "AutoDefault"}

LadderAnswers ==
  [ is : {"none", "ok", "err"}, tier : Tiers \cup {"none"},
    body : TierBodies \cup {"none"}, decision : Decisions, err : Errors \cup {"none"} ]

LadderTyped ==
  /\ at \in {"idle", "answered"} \cup Climbed \cup Leaks
  /\ todo \in Seq(Tiers) /\ pool \in Seq(Tiers) /\ chain \in Seq(Tiers) /\ sent \in Seq(Tiers)
  /\ pinned \in BOOLEAN /\ tracked \in BOOLEAN /\ budget \in BOOLEAN /\ challenge \in BOOLEAN
  /\ skipped \subseteq Tiers
  /\ thin \in Thins
  /\ err \in Errors \cup {"none"}
  /\ answer \in LadderAnswers

(* The tiers sent to are tiers of the pool, once each, the leaked one last;   *)
(* the thin candidate is one's; the solver is skipped only when it was due.   *)
Tally ==
  /\ Distinct(pool)
  /\ IsFiniteSet(Range(sent)) /\ Len(sent) = Cardinality(Range(sent))
  /\ Range(sent) \subseteq Range(pool)
  /\ Len(chain) <= Len(pool) /\ Len(sent) <= Len(chain) + 1
  /\ thin # None => thin.tier \in Range(sent)
  /\ Solver \in skipped => challenge
  /\ Solver \in Range(pool) => pool[Len(pool)] = Solver

(* A tier of the pool that was left out for good, and why.                    *)
LeftOut(t) == t \in Range(sent) \cup skipped \/ (t = Solver /\ ~challenge)

(* The serial loop: the tiers ahead were neither sent to nor skipped, the     *)
(* solver is the last of them, and those behind are accounted for.            *)
Looping ==
  at \in Climbed =>
    /\ Distinct(todo) /\ Range(todo) \subseteq Range(pool)
    /\ at # "loop" => todo # << >>
    /\ Range(Rest) \cap (Range(sent) \cup skipped) = {}
    /\ Range(sent) \cap skipped = {}
    /\ Len(chain) + Len(Rest) <= Len(pool) /\ sent = chain
    /\ todo # << >> /\ Solver \in Range(pool) => todo[Len(todo)] = Solver
    /\ at = "rendering" => Head(todo) \in Range(sent)
    /\ at = "permitted" /\ Head(todo) = Solver => challenge
    /\ \A t \in Range(pool) :
         \/ t \in Range(todo) \/ LeftOut(t)
         \/ at = "loop" /\ ~budget /\ err = "timeout"

(* The leak arm: every tier is accounted for, and none was leaked to yet.     *)
Leaking ==
  at \in Leaks =>
    /\ \A t \in Range(pool) : LeftOut(t)
    /\ Range(todo) \subseteq Range(pool)
    /\ at = "leak" => sent = chain /\ Range(sent) \cap skipped = {}
    /\ at = "leaking" => todo # << >> /\ Head(todo) \in Range(sent)

(* The answer of the ladder.                                                  *)
Concluded ==
  at = "answered" =>
    /\ answer.is # "none"
    /\ answer.is = "err" => thin = None
    /\ answer.is = "ok" => answer.tier \in Range(sent)
    /\ answer.is = "err" =>
         \A t \in Range(pool) : LeftOut(t) \/ answer.err = "timeout"

LadderInv == LadderTyped /\ Tally /\ Looping /\ Leaking /\ Concluded

Results ==
  [ is : {"none", "ok", "err"}, from : {"none", "http", "hop", "ladder"},
    tier : Tiers \cup {"none"}, body : TierBodies \cup {"page", "none"}, tagged : BOOLEAN, err : Errors \cup HttpErrors \cup {"none"} ]

FetchTyped ==
  /\ step \in {"limiter", "http", "judge", "ladder", "done"}
  /\ page \in [ error : HttpErrors \cup {"none"} ] \cup Pages
  /\ result \in Results

(* The ladder stands idle until the fetch climbs it, on the pool of its pin.  *)
Staged ==
  /\ step \in {"limiter", "http", "judge"} => at = "idle"
  /\ step = "ladder" => at # "idle"
  /\ at = "idle" => sent = << >>
  /\ at # "idle" => pool \in Pools(pin) /\ step \in {"ladder", "done"}
  /\ step \in {"judge", "ladder"} => pin # "impersonated-http"
  /\ step # "done" => result = Pending

Answering ==
  /\ FallbackTagged /\ WallNeverDisplacesPage
  /\ result.is = "ok" /\ Pinned /\ at = "answered" => result.tier = pin
  /\ result.is = "ok" /\ pin = "impersonated-http" => result.from = "hop"

FetchInv == LadderInv /\ FetchTyped /\ Staged /\ Answering

-----------------------------------------------------------------------------
(* Lists of tiers. *)
LEMMA HeadAndTail ==
  ASSUME NEW S, NEW q \in Seq(S), q # << >>
  PROVE  /\ Head(q) \in S /\ Tail(q) \in Seq(S) /\ Len(q) \in Nat /\ Len(Tail(q)) \in Nat
         /\ Len(q) = Len(Tail(q)) + 1
         /\ Range(q) = {Head(q)} \cup Range(Tail(q))
         /\ Distinct(q) => Distinct(Tail(q)) /\ Head(q) \notin Range(Tail(q))
         /\ Tail(q) # << >> => Tail(q)[Len(Tail(q))] = q[Len(q)]
<1>0. PICK h, p : h = Head(q) /\ p = Tail(q)
  OBVIOUS
<1>1. /\ p \in Seq(S) /\ Len(p) = Len(q) - 1 /\ Len(q) \in Nat /\ Len(q) >= 1
      /\ h = q[1] /\ 1 \in 1..Len(q) /\ q[1] \in S
      /\ DOMAIN q = 1..Len(q) /\ DOMAIN p = 1..Len(p) /\ Len(p) \in Nat
      /\ \A i \in 1..Len(p) : p[i] = q[i + 1] /\ i + 1 \in 1..Len(q) /\ i + 1 # 1
      /\ \A i \in 1..Len(q) : i = 1 \/ (i - 1 \in 1..Len(p) /\ p[i - 1] = q[i])
  BY <1>0
<1>2. Range(q) = {h} \cup Range(p)
  <2>1. \A x \in Range(q) : x \in {h} \cup Range(p)
    <3> SUFFICES ASSUME NEW i \in 1..Len(q) PROVE q[i] \in {h} \cup Range(p)
      BY <1>1 DEF Range
    <3>1. i = 1 \/ (i - 1 \in 1..Len(p) /\ p[i - 1] = q[i])
      BY <1>1
    <3>2. QED
      BY <1>1, <3>1 DEF Range
  <2>2. \A x \in {h} \cup Range(p) : x \in Range(q)
    <3>1. h \in Range(q)
      BY <1>1 DEF Range
    <3>2. ASSUME NEW i \in 1..Len(p) PROVE p[i] \in Range(q)
      <4>1. p[i] = q[i + 1] /\ i + 1 \in DOMAIN q
        BY <1>1
      <4> QED
        BY <4>1 DEF Range
    <3>3. \A x \in Range(p) : x \in Range(q)
      BY <1>1, <3>2 DEF Range
    <3> QED
      BY <3>1, <3>3
  <2>3. QED
    BY <2>1, <2>2
<1>3. ASSUME Distinct(q) PROVE Distinct(p) /\ h \notin Range(p)
  <2>1. \A i, j \in 1..Len(q) : q[i] = q[j] => i = j
    BY <1>1, <1>3 DEF Distinct
  <2>2. ASSUME NEW i \in 1..Len(p), NEW j \in 1..Len(p), p[i] = p[j]
        PROVE  i = j
    <3>1. i + 1 = j + 1
      BY <1>1, <2>1, <2>2
    <3>2. QED
      BY <3>1
  <2>3. ASSUME NEW i \in 1..Len(p), p[i] = h
        PROVE  FALSE
    BY <1>1, <2>1, <2>3
  <2>4. QED
    BY <1>1, <2>2, <2>3 DEF Distinct, Range
<1>4. ASSUME p # << >> PROVE p[Len(p)] = q[Len(q)]
  <2>1. Len(p) \in 1..Len(p) /\ Len(p) + 1 = Len(q)
    BY <1>1, <1>4
  <2>2. QED
    BY <1>1, <2>1
<1>5. QED
  BY <1>0, <1>1, <1>2, <1>3, <1>4

LEMMA OneMore ==
  ASSUME NEW S, NEW q \in Seq(S), NEW e \in S
  PROVE  /\ Append(q, e) \in Seq(S) /\ Len(Append(q, e)) = Len(q) + 1 /\ Len(q) \in Nat
         /\ Range(Append(q, e)) = Range(q) \cup {e}
<1>0. PICK p : p = Append(q, e)
  OBVIOUS
<1>1. /\ p \in Seq(S) /\ Len(p) = Len(q) + 1 /\ Len(q) \in Nat
      /\ DOMAIN q = 1..Len(q) /\ DOMAIN p = 1..Len(p)
      /\ p[Len(q) + 1] = e /\ \A i \in 1..Len(q) : p[i] = q[i] /\ i \in 1..Len(p)
      /\ Len(q) + 1 \in 1..Len(p)
      /\ \A i \in 1..Len(p) : i \in 1..Len(q) \/ i = Len(q) + 1
  BY <1>0
<1>2. Range(p) = Range(q) \cup {e}
  BY <1>1 DEF Range
<1>3. QED
  BY <1>0, <1>1, <1>2

LEMMA NoneInEmpty == Range(<< >>) = {} /\ Distinct(<< >>)
BY DEF Range, Distinct

LEMMA LastInRange ==
  ASSUME NEW S, NEW q \in Seq(S), q # << >>
  PROVE  q[Len(q)] \in Range(q)
<1>1. Len(q) \in DOMAIN q
  OBVIOUS
<1>2. QED
  BY <1>1 DEF Range

LEMMA HeadInRange ==
  ASSUME NEW S, NEW q \in Seq(S), q # << >>
  PROVE  Head(q) \in Range(q)
<1>1. 1 \in DOMAIN q /\ Head(q) = q[1]
  OBVIOUS
<1>2. QED
  BY <1>1 DEF Range

(* A pool is a list of tiers, each once, the solver last; a pin's is its own. *)
LEMMA PoolFacts ==
  ASSUME NEW p, NEW q \in Pools(p)
  PROVE  /\ q \in Seq(Tiers) /\ Distinct(q)
         /\ Solver \in Range(q) => q[Len(q)] = Solver
         /\ p # "auto" => Range(q) \subseteq {p}
<1>1. CASE p = "auto"
  <2>1. /\ q \in {Ladder, Promoted} /\ Range(q) = Tiers /\ q \in Seq(STRING)
        /\ \A i, j \in DOMAIN q : q[i] = q[j] => i = j
        /\ Solver \in Tiers => q[Len(q)] = Solver
    BY <1>1, LadderAssumption DEF Pools, Tiers
  <2>2. q \in Seq(Tiers)
    <3>1. q \in [ 1..Len(q) -> Tiers ] /\ Len(q) \in Nat
      BY <2>1 DEF Range
    <3>2. QED
      BY <3>1
  <2>3. QED
    BY <1>1, <2>1, <2>2 DEF Distinct
<1>2. CASE p # "auto" /\ p \in Tiers
  <2>1. q = << p >>
    BY <1>2 DEF Pools
  <2>2. << p >> \in Seq(Tiers) /\ Distinct(<< p >>) /\ Range(<< p >>) = {p}
        /\ Len(<< p >>) = 1 /\ << p >>[1] = p
    BY <1>2 DEF Distinct, Range
  <2>3. QED
    BY <1>2, <2>1, <2>2
<1>3. CASE p # "auto" /\ p \notin Tiers
  <2>1. q = << >>
    BY <1>3 DEF Pools
  <2>2. << >> \in Seq(Tiers)
    OBVIOUS
  <2>3. QED
    BY <2>1, <2>2, NoneInEmpty
<1>4. QED
  BY <1>1, <1>2, <1>3

-----------------------------------------------------------------------------
(* The serial loop moves on to the next tier. *)
LEMMA OnwardStep ==
  ASSUME LadderInv, at \in Climbed, todo # << >>, NEW h, h = Head(todo),
         Onward, UNCHANGED << request, budget, chain, answer, sent >>,
         challenge' \in BOOLEAN, skipped' \subseteq Tiers, thin' \in Thins,
         err' \in Errors \cup {"none"},
         thin' # None => thin'.tier \in Range(sent),
         Solver \in skipped' => challenge',
         skipped \subseteq skipped', skipped' \subseteq skipped \cup {h},
         Range(sent) \cap skipped' = {},
         challenge => challenge', challenge' => challenge \/ at = "rendering",
         err' \in {err, "timeout"} \/ at = "rendering",
         \/ h \in Range(sent) \cup skipped'
         \/ h = Solver /\ ~challenge'
         \/ ~budget /\ err' = "timeout"
  PROVE  LadderInv'
<1>1. /\ todo \in Seq(Tiers) /\ Distinct(todo) /\ Range(todo) \subseteq Range(pool)
      /\ Range(Rest) \cap (Range(sent) \cup skipped) = {}
      /\ Len(chain) + Len(Rest) <= Len(pool) /\ sent = chain
      /\ Solver \in Range(pool) => todo[Len(todo)] = Solver
      /\ \A t \in Range(pool) :
         \/ t \in Range(todo) \/ LeftOut(t)
         \/ at = "loop" /\ ~budget /\ err = "timeout"
      /\ pool \in Seq(Tiers) /\ chain \in Seq(Tiers)
  BY DEF LadderInv, LadderTyped, Looping
<1>2. /\ at' = "loop" /\ todo' = Tail(todo) /\ pool' = pool /\ pinned' = pinned
      /\ tracked' = tracked /\ budget' = budget /\ chain' = chain /\ answer' = answer
      /\ sent' = sent
  BY DEF Onward, request
<1>3. /\ todo' \in Seq(Tiers) /\ Len(todo) = Len(todo') + 1 /\ Len(todo') \in Nat
      /\ Range(todo) = {h} \cup Range(todo') /\ Distinct(todo') /\ h \notin Range(todo')
      /\ todo' # << >> => todo'[Len(todo')] = todo[Len(todo)]
  <2>1. todo \in Seq(Tiers) /\ todo # << >> /\ todo' = Tail(todo) /\ h = Head(todo)
        /\ Distinct(todo)
    BY <1>1, <1>2
  <2>2. QED
    BY ONLY <2>1, HeadAndTail
<1>4. LadderTyped'
  BY <1>2, <1>3 DEF LadderInv, LadderTyped, Climbed
<1>5. Tally'
  BY <1>2 DEF LadderInv, Tally
<1>6. Range(todo') \cap (Range(sent) \cup skipped') = {}
  <2>1. Range(todo') \subseteq Range(Rest)
    BY <1>2, <1>3 DEF Rest
  <2>2. QED
    BY <1>1, <1>3, <2>1
<1>7. Len(chain) + Len(todo') <= Len(pool)
  <2>1. Len(Rest) = Len(todo') \/ Len(Rest) = Len(todo') + 1
    BY <1>2, <1>3 DEF Rest
  <2>2. Len(chain) \in Nat /\ Len(pool) \in Nat
    BY <1>1
  <2>3. QED
    BY <1>1, <1>3, <2>1, <2>2
<1>8. ASSUME NEW t \in Range(pool)
      PROVE  \/ t \in Range(todo')
             \/ t \in Range(sent) \cup skipped' \/ (t = Solver /\ ~challenge')
             \/ ~budget /\ err' = "timeout"
  <2>1. CASE t \in Range(todo)
    BY <1>3, <2>1
  <2>2. CASE t = Solver /\ ~challenge /\ challenge'
    <3>1. t \in Range(todo)
      BY <1>1, <2>2, LastInRange
    <3>2. QED
      BY <2>1, <3>1
  <2>3. CASE LeftOut(t) /\ ~(t = Solver /\ ~challenge /\ challenge')
    BY <2>3 DEF LeftOut
  <2>4. CASE at = "loop" /\ ~budget /\ err = "timeout"
    BY <2>4
  <2>5. QED
    BY <1>1, <2>1, <2>2, <2>3, <2>4 DEF LeftOut
<1>9. Looping'
  <2>0. Range(sent) \cap skipped' = {}
    OBVIOUS
  <2>1. Rest' = todo'
    BY <1>2 DEF Rest
  <2>2. Range(todo') \subseteq Range(pool)
    BY <1>1, <1>3
  <2>3. QED
    BY <1>1, <1>2, <1>3, <1>6, <1>7, <1>8, <2>0, <2>1, <2>2 DEF Looping, LeftOut
<1>10. Leaking' /\ Concluded'
  BY <1>2 DEF Leaking, Concluded, Leaks
<1>11. QED
  BY <1>4, <1>5, <1>9, <1>10 DEF LadderInv

LEMMA LoopStep ==
  ASSUME LadderInv, NEW t \in Tiers,
         SkipSolver(t) \/ Starve(t) \/ BreakerSkip(t)
  PROVE  LadderInv'
<1>1. at \in Climbed /\ todo # << >> /\ t = Head(todo)
  BY DEF LadderInv, Looping, SkipSolver, Starve, BreakerSkip, Visit, Climbed
<1>2. /\ Onward /\ UNCHANGED << request, budget, chain, answer, sent >>
      /\ challenge' = challenge /\ thin' = thin
  BY DEF SkipSolver, Starve, BreakerSkip
<1>3. /\ challenge \in BOOLEAN /\ skipped \subseteq Tiers /\ thin \in Thins
      /\ err \in Errors \cup {"none"}
      /\ thin # None => thin.tier \in Range(sent)
      /\ Solver \in skipped => challenge
      /\ Range(sent) \cap skipped = {} /\ Range(Rest) \cap Range(sent) = {}
  BY <1>1 DEF LadderInv, LadderTyped, Tally, Looping
<1>4. "timeout" \in Errors
  BY DEF Errors
<1>5. CASE SkipSolver(t)
  <2>1. skipped' = skipped /\ err' = err /\ t = Solver /\ ~challenge
    BY <1>5 DEF SkipSolver, SolverIdle
  <2>2. QED
    BY <1>1, <1>2, <1>3, <2>1, OnwardStep
<1>6. CASE Starve(t)
  <2>1. skipped' = skipped /\ err' = "timeout" /\ ~budget
    BY <1>6 DEF Starve, StarvedError
  <2>2. QED
    BY <1>1, <1>2, <1>3, <1>4, <2>1, OnwardStep
<1>7. CASE BreakerSkip(t)
  <2>1. skipped' = skipped \cup {t} /\ err' = err /\ at = "loop" /\ ~(t = Solver /\ ~challenge)
    BY <1>7 DEF BreakerSkip, SolverIdle, Visit
  <2>2. t \notin Range(sent)
    <3>1. todo \in Seq(Tiers)
      BY DEF LadderInv, LadderTyped
    <3>2. t \in Range(todo)
      BY <1>1, <3>1, HeadInRange
    <3>3. QED
      BY <1>3, <2>1, <3>2 DEF Rest
  <2>3. QED
    BY <1>1, <1>2, <1>3, <2>1, <2>2, OnwardStep
<1>8. QED
  BY <1>5, <1>6, <1>7

LEMMA RejectStep ==
  ASSUME LadderInv, NEW t \in Tiers, Reject(t) \/ TierFails(t)
  PROVE  LadderInv'
<1>1. at = "rendering" /\ at \in Climbed /\ todo # << >> /\ t = Head(todo) /\ t \in Range(sent)
  BY DEF LadderInv, Looping, Reject, TierFails, Climbed
<1>2. /\ Onward /\ UNCHANGED << request, budget, chain, answer, sent >>
      /\ skipped' = skipped
  BY DEF Reject, TierFails
<1>3. /\ challenge \in BOOLEAN /\ skipped \subseteq Tiers /\ thin \in Thins
      /\ err \in Errors \cup {"none"}
      /\ thin # None => thin.tier \in Range(sent)
      /\ Solver \in skipped => challenge
      /\ Range(sent) \cap skipped = {}
  BY <1>1 DEF LadderInv, LadderTyped, Tally, Looping
<1>4. CASE TierFails(t)
  <2>1. challenge' = challenge /\ thin' = thin /\ err' \in Errors
    BY <1>4 DEF TierFails, Errors
  <2>2. QED
    BY <1>1, <1>2, <1>3, <2>1, OnwardStep
<1>5. CASE Reject(t)
  <2>1. PICK body \in TierBodies \ {"good"} :
          /\ thin' \in Keep(t, body)
          /\ challenge' = (challenge \/ IsWall(body))
          /\ err' \in Complaint(body)
    BY <1>5 DEF Reject
  <2>2. [ tier |-> t, body |-> body ] \in Thins
    BY DEF Thins
  <2>3. thin' \in Thins /\ (thin' # None => thin'.tier \in Range(sent))
    <3>1. thin' = thin \/ thin' = [ tier |-> t, body |-> body ]
      BY <2>1 DEF Keep
    <3>2. [ tier |-> t, body |-> body ].tier = t
      OBVIOUS
    <3>3. QED
      BY <1>1, <1>3, <2>2, <3>1, <3>2
  <2>4. challenge' \in BOOLEAN /\ (challenge => challenge')
    BY <1>3, <2>1 DEF IsWall
  <2>5. err' \in Errors \cup {"none"}
    BY <1>3, <2>1 DEF Complaint, Errors, TierBodies
  <2>6. QED
    BY <1>1, <1>2, <1>3, <2>3, <2>4, <2>5, OnwardStep
<1>6. QED
  BY <1>4, <1>5

(* A grant stands at the tier; the send makes it one of those sent to. *)
LEMMA GrantStep ==
  ASSUME LadderInv, NEW t \in Tiers, BreakerGrant(t)
  PROVE  LadderInv'
<1>1. /\ at = "loop" /\ at' = "permitted" /\ todo # << >> /\ t = Head(todo)
      /\ ~(t = Solver /\ ~challenge) /\ budget
      /\ UNCHANGED << todo, pool, pinned, tracked, budget, challenge, skipped, chain, thin,
                      err, answer, sent >>
  BY DEF BreakerGrant, Visit, SolverIdle, request
<1>2. LadderTyped' /\ Tally'
  BY <1>1 DEF LadderInv, LadderTyped, Tally, Climbed
<1>3. Looping'
  <2>1. Rest' = Rest
    BY <1>1 DEF Rest
  <2>2. \A u \in Range(pool) : u \in Range(todo) \/ LeftOut(u)
    BY <1>1 DEF LadderInv, Looping, Climbed
  <2>3. \A u : LeftOut(u)' <=> LeftOut(u)
    BY <1>1 DEF LeftOut
  <2>4. at \in Climbed /\ Looping
    BY <1>1 DEF LadderInv, Climbed
  <2>5. QED
    BY <1>1, <2>1, <2>2, <2>3, <2>4 DEF Looping
<1>4. Leaking' /\ Concluded'
  BY <1>1 DEF Leaking, Concluded, Leaks
<1>5. QED
  BY <1>2, <1>3, <1>4 DEF LadderInv

LEMMA SentOnce ==
  ASSUME LadderInv, NEW t \in Tiers, t \notin Range(sent), sent' = Append(sent, t)
  PROVE  /\ sent' \in Seq(Tiers) /\ Len(sent') = Len(sent) + 1 /\ Len(sent) \in Nat
         /\ Range(sent') = Range(sent) \cup {t}
         /\ IsFiniteSet(Range(sent')) /\ Len(sent') = Cardinality(Range(sent'))
<1>1. sent \in Seq(Tiers) /\ IsFiniteSet(Range(sent)) /\ Len(sent) = Cardinality(Range(sent))
  BY DEF LadderInv, LadderTyped, Tally
<1>2. /\ sent' \in Seq(Tiers) /\ Len(sent') = Len(sent) + 1 /\ Len(sent) \in Nat
      /\ Range(sent') = Range(sent) \cup {t}
  <2>1. /\ Append(sent, t) \in Seq(Tiers) /\ Len(Append(sent, t)) = Len(sent) + 1
        /\ Len(sent) \in Nat /\ Range(Append(sent, t)) = Range(sent) \cup {t}
    BY <1>1, OneMore
  <2>2. QED
    BY <2>1
<1>3. /\ IsFiniteSet(Range(sent) \cup {t})
      /\ Cardinality(Range(sent) \cup {t}) = Cardinality(Range(sent)) + 1
  BY <1>1, FS_AddElement
<1>4. QED
  BY <1>1, <1>2, <1>3

LEMMA DispatchStep ==
  ASSUME LadderInv, NEW t \in Tiers, Dispatch(t)
  PROVE  LadderInv'
<1>1. /\ at = "permitted" /\ at' = "rendering" /\ todo # << >> /\ t = Head(todo)
      /\ chain' = Append(chain, t) /\ sent' = Append(sent, t)
      /\ UNCHANGED << todo, pool, pinned, tracked, budget, challenge, skipped, thin,
                      err, answer >>
  BY DEF LadderInv, Looping, Climbed, Dispatch, request
<1>2. /\ todo \in Seq(Tiers) /\ chain \in Seq(Tiers) /\ pool \in Seq(Tiers)
      /\ Distinct(todo) /\ Range(todo) \subseteq Range(pool)
      /\ Range(todo) \cap (Range(sent) \cup skipped) = {}
      /\ Range(sent) \cap skipped = {}
      /\ Len(chain) + Len(todo) <= Len(pool) /\ sent = chain
      /\ Solver \in Range(pool) => todo[Len(todo)] = Solver
      /\ \A u \in Range(pool) : u \in Range(todo) \/ LeftOut(u)
  BY <1>1 DEF LadderInv, LadderTyped, Looping, Climbed, Rest
<1>3. t \in Range(todo) /\ t \notin Range(sent) /\ t \notin skipped
  <2>1. t \in Range(todo)
    BY <1>1, <1>2, HeadInRange
  <2>2. QED
    BY <1>2, <2>1
<1>4. PICK rest : rest = Tail(todo)
  OBVIOUS
<1>5. /\ rest \in Seq(Tiers) /\ Len(todo) = Len(rest) + 1 /\ Len(rest) \in Nat
      /\ Range(todo) = {t} \cup Range(rest) /\ t \notin Range(rest)
  <2>1. /\ Tail(todo) \in Seq(Tiers) /\ Len(todo) = Len(Tail(todo)) + 1
        /\ Len(Tail(todo)) \in Nat
        /\ Range(todo) = {Head(todo)} \cup Range(Tail(todo))
        /\ Head(todo) \notin Range(Tail(todo))
    BY <1>1, <1>2, HeadAndTail
  <2>2. QED
    BY <1>1, <1>4, <2>1
<1>6. /\ sent' \in Seq(Tiers) /\ Len(sent') = Len(sent) + 1 /\ Len(sent) \in Nat
      /\ Range(sent') = Range(sent) \cup {t}
      /\ IsFiniteSet(Range(sent')) /\ Len(sent') = Cardinality(Range(sent'))
  BY <1>1, <1>3, SentOnce
<1>7. chain' = sent' /\ Len(pool) \in Nat
  BY <1>1, <1>2
<1>8. LadderTyped'
  BY <1>1, <1>6, <1>7 DEF LadderInv, LadderTyped, Climbed
<1>9. Tally'
  <2>1. Range(sent') \subseteq Range(pool)
    BY <1>2, <1>3, <1>6 DEF LadderInv, Tally
  <2>2. Len(chain') <= Len(pool) /\ Len(sent') <= Len(chain') + 1
    BY <1>2, <1>5, <1>6, <1>7
  <2>3. thin # None => thin.tier \in Range(sent')
    BY <1>6 DEF LadderInv, Tally
  <2>4. QED
    BY <1>1, <1>6, <2>1, <2>2, <2>3 DEF LadderInv, Tally
<1>10. Looping'
  <2>1. Rest' = rest
    BY <1>1, <1>4 DEF Rest
  <2>2. Range(rest) \cap (Range(sent') \cup skipped) = {} /\ Range(sent') \cap skipped = {}
    BY <1>2, <1>3, <1>5, <1>6
  <2>3. Len(chain') + Len(rest) <= Len(pool)
    BY <1>2, <1>5, <1>6, <1>7
  <2>4. \A u \in Range(pool) : u \in Range(todo) \/ LeftOut(u)'
    BY <1>1, <1>2, <1>6 DEF LeftOut
  <2>5. QED
    BY <1>1, <1>2, <1>6, <1>7, <2>1, <2>2, <2>3, <2>4 DEF Looping
<1>11. Leaking' /\ Concluded'
  BY <1>1 DEF Leaking, Concluded, Leaks
<1>12. QED
  BY <1>8, <1>9, <1>10, <1>11 DEF LadderInv

(* An answer in hand ends the climb. *)
LEMMA OkIsAnAnswer ==
  ASSUME NEW t \in Tiers, NEW b \in TierBodies, NEW d \in Decisions
  PROVE  Ok(t, b, d) \in LadderAnswers /\ Ok(t, b, d).is = "ok" /\ Ok(t, b, d).tier = t
         /\ Ok(t, b, d).body = b
BY DEF Ok, Unanswered, LadderAnswers, Decisions

LEMMA ErrIsAnAnswer ==
  ASSUME NEW e \in Errors
  PROVE  Err(e) \in LadderAnswers /\ Err(e).is = "err" /\ Err(e).err = e
         /\ Err(e).body = "none"
BY DEF Err, Unanswered, LadderAnswers, Decisions

LEMMA AcceptStep ==
  ASSUME LadderInv, NEW t \in Tiers, Accept(t)
  PROVE  LadderInv'
<1>1. /\ at = "rendering" /\ at' = "answered" /\ t = Head(todo)
      /\ answer' = Ok(t, "good", Decision(t))
      /\ UNCHANGED << todo, pool, pinned, tracked, budget, challenge, skipped, chain, thin,
                      err, sent >>
  BY DEF Accept, request
<1>2. t \in Range(sent)
  BY <1>1 DEF LadderInv, Looping, Climbed
<1>3. Decision(t) \in Decisions
  <2>1. CASE pinned
    BY <2>1 DEF Decision, Decisions
  <2>2. CASE ~pinned /\ skipped # {}
    BY <2>2 DEF Decision, Decisions
  <2>3. CASE ~pinned /\ skipped = {} /\ Len(chain) > 1
    BY <2>3 DEF Decision, Decisions
  <2>4. CASE ~pinned /\ skipped = {} /\ ~(Len(chain) > 1)
    BY <2>4 DEF Decision, Decisions
  <2>5. QED
    BY <2>1, <2>2, <2>3, <2>4
<1>4. answer' \in LadderAnswers /\ answer'.is = "ok" /\ answer'.tier = t
  <2>1. "good" \in TierBodies
    BY DEF TierBodies
  <2>2. /\ Ok(t, "good", Decision(t)) \in LadderAnswers
        /\ Ok(t, "good", Decision(t)).is = "ok" /\ Ok(t, "good", Decision(t)).tier = t
    BY <1>3, <2>1, OkIsAnAnswer
  <2>3. QED
    BY <1>1, <2>2
<1>5. LadderTyped' /\ Tally'
  BY <1>1, <1>4 DEF LadderInv, LadderTyped, Tally
<1>6. Looping' /\ Leaking'
  BY <1>1 DEF Looping, Leaking, Climbed, Leaks
<1>7. Concluded'
  BY <1>1, <1>2, <1>4 DEF Concluded
<1>8. QED
  BY <1>5, <1>6, <1>7 DEF LadderInv

(* The leak arm. *)
LEMMA EnterLeakStep ==
  ASSUME LadderInv, EnterLeak
  PROVE  LadderInv'
<1>1. /\ at = "loop" /\ at' = "leak" /\ todo = << >> /\ todo' = pool /\ budget
      /\ UNCHANGED << pool, pinned, tracked, budget, challenge, skipped, chain, thin,
                      err, answer, sent >>
  BY DEF EnterLeak, MayLeak, request
<1>2. LadderTyped' /\ Tally'
  BY <1>1 DEF LadderInv, LadderTyped, Tally, Leaks
<1>3. Looping' /\ Concluded'
  BY <1>1 DEF Looping, Concluded, Climbed
<1>4. Leaking'
  <2>1. /\ \A u \in Range(pool) : u \in Range(todo) \/ LeftOut(u)
        /\ sent = chain /\ Range(sent) \cap skipped = {}
    BY <1>1 DEF LadderInv, Looping, Climbed
  <2>2. \A u \in Range(pool) : LeftOut(u)
    BY <1>1, <2>1, NoneInEmpty
  <2>3. \A u \in Range(pool) : LeftOut(u)'
    BY <1>1, <2>2 DEF LeftOut
  <2>4. QED
    BY <1>1, <2>1, <2>3 DEF Leaking
<1>5. QED
  BY <1>2, <1>3, <1>4 DEF LadderInv

LEMMA LeakSkipStep ==
  ASSUME LadderInv, LeakSkip
  PROVE  LadderInv'
<1>1. /\ at = "leak" /\ todo # << >> /\ todo' = Tail(todo)
      /\ UNCHANGED << at, pool, pinned, tracked, budget, challenge, skipped, chain, thin,
                      err, answer, sent >>
  BY DEF LeakSkip, request
<1>2. todo' \in Seq(Tiers) /\ Range(todo') \subseteq Range(todo)
  <2>1. todo \in Seq(Tiers)
    BY DEF LadderInv, LadderTyped
  <2>2. Tail(todo) \in Seq(Tiers) /\ Range(todo) = {Head(todo)} \cup Range(Tail(todo))
    BY <1>1, <2>1, HeadAndTail
  <2>3. QED
    BY <1>1, <2>2
<1>3. LadderTyped' /\ Tally'
  BY <1>1, <1>2 DEF LadderInv, LadderTyped, Tally
<1>4. Looping' /\ Concluded'
  BY <1>1 DEF Looping, Concluded, Climbed
<1>5. Leaking'
  BY <1>1, <1>2 DEF LadderInv, Leaking, Leaks, LeftOut
<1>6. QED
  BY <1>3, <1>4, <1>5 DEF LadderInv

LEMMA LeakDispatchStep ==
  ASSUME LadderInv, NEW t \in Tiers, LeakDispatch(t)
  PROVE  LadderInv'
<1>1. /\ at = "leak" /\ at' = "leaking" /\ todo # << >> /\ t = Head(todo) /\ t \in skipped
      /\ sent' = Append(sent, t)
      /\ UNCHANGED << todo, pool, pinned, tracked, budget, challenge, skipped, chain, thin,
                      err, answer >>
  BY DEF LeakDispatch, Leakable, request
<1>2. /\ todo \in Seq(Tiers) /\ chain \in Seq(Tiers)
      /\ \A u \in Range(pool) : LeftOut(u)
      /\ Range(todo) \subseteq Range(pool)
      /\ sent = chain /\ Range(sent) \cap skipped = {}
  BY <1>1 DEF LadderInv, LadderTyped, Leaking, Leaks
<1>3. t \in Range(pool) /\ t \notin Range(sent)
  <2>1. t \in Range(todo)
    BY <1>1, <1>2, HeadInRange
  <2>2. QED
    BY <1>1, <1>2, <2>1
<1>4. /\ sent' \in Seq(Tiers) /\ Len(sent') = Len(sent) + 1 /\ Len(sent) \in Nat
      /\ Range(sent') = Range(sent) \cup {t}
      /\ IsFiniteSet(Range(sent')) /\ Len(sent') = Cardinality(Range(sent'))
  BY <1>1, <1>3, SentOnce
<1>5. LadderTyped'
  BY <1>1, <1>4 DEF LadderInv, LadderTyped, Leaks
<1>6. Tally'
  <2>1. Range(sent') \subseteq Range(pool)
    BY <1>3, <1>4 DEF LadderInv, Tally
  <2>2. Len(sent') <= Len(chain') + 1
    BY <1>1, <1>2, <1>4
  <2>3. thin # None => thin.tier \in Range(sent')
    BY <1>4 DEF LadderInv, Tally
  <2>4. QED
    BY <1>1, <1>4, <2>1, <2>2, <2>3 DEF LadderInv, Tally
<1>7. Looping' /\ Concluded'
  BY <1>1 DEF Looping, Concluded, Climbed
<1>8. Leaking'
  <2>1. \A u \in Range(pool) : LeftOut(u)'
    BY <1>1, <1>2, <1>4 DEF LeftOut
  <2>2. QED
    BY <1>1, <1>2, <1>4, <2>1 DEF Leaking
<1>9. QED
  BY <1>5, <1>6, <1>7, <1>8 DEF LadderInv

LEMMA LeakEndStep ==
  ASSUME LadderInv, NEW t \in Tiers, LeakEnd(t)
  PROVE  LadderInv'
<1>1. /\ at = "leaking" /\ t = Head(todo) /\ at' \in {"answered", "tail"}
      /\ UNCHANGED << todo, pool, pinned, tracked, budget, challenge, skipped, chain, sent >>
  BY DEF LeakEnd, request
<1>2. /\ \A u \in Range(pool) : LeftOut(u)
      /\ Range(todo) \subseteq Range(pool) /\ t \in Range(sent)
  BY <1>1 DEF LadderInv, Leaking, Leaks
<1>3. /\ answer' \in LadderAnswers /\ thin' \in Thins /\ err' \in Errors \cup {"none"}
      /\ thin' # None => thin'.tier \in Range(sent)
      /\ at' = "answered" => answer'.is = "ok" /\ answer'.tier = t
  <2>1. /\ answer \in LadderAnswers /\ thin \in Thins /\ err \in Errors \cup {"none"}
        /\ thin # None => thin.tier \in Range(sent)
    BY DEF LadderInv, LadderTyped, Tally
  <2>2. CASE answer' = Ok(t, "good", "AutoDefault") /\ UNCHANGED << thin, err >>
    <3>1. "good" \in TierBodies /\ "AutoDefault" \in Decisions
      BY DEF TierBodies, Decisions
    <3>2. answer' \in LadderAnswers /\ answer'.is = "ok" /\ answer'.tier = t
      BY <2>2, <3>1, OkIsAnAnswer
    <3>3. QED
      BY <2>1, <2>2, <3>2
  <2>3. CASE /\ \E body \in TierBodies \ {"good"} : thin' = [ tier |-> t, body |-> body ]
             /\ err' = "blocked" /\ at' = "tail" /\ UNCHANGED answer
    <3>1. thin' \in Thins /\ thin'.tier = t
      BY <2>3 DEF Thins
    <3>2. QED
      BY <1>2, <2>1, <2>3, <3>1 DEF Errors
  <2>4. CASE err' \in {"timeout", "origin", "fault"} /\ at' = "tail" /\ UNCHANGED << thin, answer >>
    BY <2>1, <2>4 DEF Errors
  <2>5. QED
    BY <2>2, <2>3, <2>4 DEF LeakEnd
<1>4. LadderTyped' /\ Tally'
  BY <1>1, <1>3 DEF LadderInv, LadderTyped, Tally, Leaks
<1>5. Looping'
  BY <1>1 DEF Looping, Climbed
<1>6. Leaking'
  BY <1>1, <1>2 DEF Leaking, Leaks, LeftOut
<1>7. Concluded'
  BY <1>1, <1>2, <1>3 DEF Concluded
<1>8. QED
  BY <1>4, <1>5, <1>6, <1>7 DEF LadderInv

(* The end of the loop or of the leak arm: every tier is accounted for, or   *)
(* the answer is the timeout of the tier that was starved.                   *)
LEMMA ConcludeStep ==
  ASSUME LadderInv, Conclude
  PROVE  LadderInv'
<1>1. /\ at' = "answered" /\ answer' = Best
      /\ UNCHANGED << todo, pool, pinned, tracked, budget, challenge, skipped, chain, thin,
                      err, sent >>
      /\ (at = "loop" /\ todo = << >>) \/ at \in {"leak", "tail"}
  BY DEF Conclude, request
<1>2. \A u \in Range(pool) : LeftOut(u) \/ err = "timeout"
  <2>1. CASE at = "loop" /\ todo = << >>
    BY <2>1, NoneInEmpty DEF LadderInv, Looping, Climbed
  <2>2. CASE at \in {"leak", "tail"}
    BY <2>2 DEF LadderInv, Leaking, Leaks
  <2>3. QED
    BY <1>1, <2>1, <2>2
<1>3. /\ answer' \in LadderAnswers
      /\ \/ answer'.is = "ok" /\ answer'.tier \in Range(sent) /\ thin # None
         \/ answer'.is = "err" /\ thin = None /\ (err = "timeout" => answer'.err = "timeout")
  <2>1. /\ thin \in Thins /\ err \in Errors \cup {"none"}
        /\ thin # None => thin.tier \in Range(sent)
    BY DEF LadderInv, LadderTyped, Tally
  <2>2. CASE thin # None
    <3>1. /\ thin.tier \in Tiers /\ thin.body \in TierBodies
          /\ "none" \in Decisions /\ "Failover" \in Decisions
      BY <2>1, <2>2 DEF Thins, Decisions
    <3>2. PICK d \in Decisions : answer' = Ok(thin.tier, thin.body, d)
      BY <1>1, <2>2, <3>1 DEF Best
    <3>3. answer' \in LadderAnswers /\ answer'.is = "ok" /\ answer'.tier = thin.tier
      BY <3>1, <3>2, OkIsAnAnswer
    <3>4. QED
      BY <2>1, <2>2, <3>3
  <2>3. CASE thin = None
    <3>1. PICK e \in Errors : answer' = Err(e) /\ (err = "timeout" => e = "timeout")
      BY <1>1, <2>1, <2>3 DEF Best, Errors
    <3>2. answer' \in LadderAnswers /\ answer'.is = "err" /\ answer'.err = e
      BY <3>1, ErrIsAnAnswer
    <3>3. QED
      BY <2>3, <3>1, <3>2
  <2>4. QED
    BY <2>2, <2>3
<1>4. LadderTyped' /\ Tally'
  BY <1>1, <1>3 DEF LadderInv, LadderTyped, Tally
<1>5. Looping' /\ Leaking'
  BY <1>1 DEF Looping, Leaking, Climbed, Leaks
<1>6. Concluded'
  BY <1>1, <1>2, <1>3 DEF Concluded, LeftOut
<1>7. QED
  BY <1>4, <1>5, <1>6 DEF LadderInv

LEMMA DrainStep ==
  ASSUME LadderInv, Drain
  PROVE  LadderInv'
<1>1. /\ budget /\ budget' = FALSE
      /\ UNCHANGED << at, todo, pool, pinned, tracked, challenge, skipped, chain, thin,
                      err, answer, sent >>
  BY DEF Drain, request
<1>2. LadderTyped'
  BY <1>1 DEF LadderInv, LadderTyped
<1>3. Tally'
  BY <1>1 DEF LadderInv, Tally
<1>4. \A t : LeftOut(t)' <=> LeftOut(t)
  BY <1>1 DEF LeftOut
<1>5. Leaking'
  BY <1>1, <1>4 DEF LadderInv, Leaking
<1>6. Concluded'
  BY <1>1, <1>4 DEF LadderInv, Concluded
<1>7. Looping'
  BY <1>1, <1>4 DEF LadderInv, Looping, Rest
<1>8. QED
  BY <1>2, <1>3, <1>5, <1>6, <1>7 DEF LadderInv

LEMMA ClimbStep ==
  ASSUME LadderInv, NEW p, NEW hint \in BOOLEAN, NEW host \in BOOLEAN,
         Climb(p, hint, host), UNCHANGED budget
  PROVE  LadderInv'
<1>1. /\ pool' \in Pools(p) /\ todo' = pool' /\ pinned' \in BOOLEAN /\ tracked' = host
      /\ challenge' = hint /\ skipped' = {} /\ chain' = << >> /\ thin' = None
      /\ err' = "none" /\ sent' = << >> /\ budget' = budget
  BY DEF Climb
<1>2. \/ pool' = << >> /\ at' = "answered" /\ answer' = Err("noTier")
      \/ pool' # << >> /\ at' = "loop" /\ answer' = Unanswered
  BY DEF Climb
<1>3. /\ pool' \in Seq(Tiers) /\ Distinct(pool')
      /\ Solver \in Range(pool') => pool'[Len(pool')] = Solver
  BY <1>1, PoolFacts
<1>4. /\ sent' \in Seq(Tiers) /\ Range(sent') = {} /\ IsFiniteSet({})
      /\ Cardinality({}) = 0 /\ Len(sent') = 0 /\ Len(pool') \in Nat
  <2>1. << >> \in Seq(Tiers) /\ Len(<< >>) = 0 /\ Len(pool') \in Nat
    BY <1>3
  <2>2. QED
    BY <1>1, <2>1, NoneInEmpty, FS_EmptySet
<1>5. answer' \in LadderAnswers /\ (at' = "answered" => answer'.is = "err")
  <2>1. Unanswered \in LadderAnswers
    BY DEF Unanswered, LadderAnswers, Decisions
  <2>2. "noTier" \in Errors
    BY DEF Errors
  <2>3. Err("noTier") \in LadderAnswers /\ Err("noTier").is = "err"
    BY <2>2, ErrIsAnAnswer
  <2>4. QED
    BY <1>2, <2>1, <2>3
<1>6. LadderTyped'
  <2>1. None \in Thins
    BY DEF Thins
  <2>2. budget \in BOOLEAN
    BY DEF LadderInv, LadderTyped
  <2>3. QED
    BY <1>1, <1>2, <1>3, <1>4, <1>5, <2>1, <2>2 DEF LadderTyped, Climbed
<1>7. Tally'
  <2>1. Len(chain') <= Len(pool') /\ Len(sent') <= Len(chain') + 1
    BY <1>1, <1>4
  <2>2. IsFiniteSet(Range(sent')) /\ Len(sent') = Cardinality(Range(sent'))
    BY <1>4
  <2>3. QED
    BY <1>1, <1>3, <1>4, <2>1, <2>2 DEF Tally
<1>8. Looping'
  <2>1. CASE at' = "loop"
    <3>1. Rest' = todo'
      BY <2>1 DEF Rest
    <3>2. QED
      BY <1>1, <1>3, <1>4, <2>1, <3>1 DEF Looping
  <2>2. CASE at' # "loop"
    BY <1>2, <2>2 DEF Looping, Climbed
  <2>3. QED
    BY <2>1, <2>2
<1>9. Leaking'
  BY <1>2 DEF Leaking, Leaks
<1>10. Concluded'
  <2>1. at' = "answered" => Range(pool') = {}
    BY <1>1, <1>2, NoneInEmpty
  <2>2. QED
    BY <1>1, <1>5, <2>1 DEF Concluded
<1>11. QED
  BY <1>6, <1>7, <1>8, <1>9, <1>10 DEF LadderInv

LEMMA LadderStepKeeps ==
  ASSUME LadderInv, LadderStep
  PROVE  LadderInv'
<1>1. CASE \E t \in Tiers : SkipSolver(t) \/ Starve(t) \/ BreakerSkip(t)
  BY <1>1, LoopStep
<1>2. CASE \E t \in Tiers : BreakerGrant(t)
  BY <1>2, GrantStep
<1>3. CASE \E t \in Tiers : Dispatch(t)
  BY <1>3, DispatchStep
<1>4. CASE \E t \in Tiers : Accept(t)
  BY <1>4, AcceptStep
<1>5. CASE \E t \in Tiers : Reject(t) \/ TierFails(t)
  BY <1>5, RejectStep
<1>6. CASE \E t \in Tiers : LeakDispatch(t)
  BY <1>6, LeakDispatchStep
<1>7. CASE \E t \in Tiers : LeakEnd(t)
  BY <1>7, LeakEndStep
<1>8. QED
  BY <1>1, <1>2, <1>3, <1>4, <1>5, <1>6, <1>7, EnterLeakStep, LeakSkipStep, ConcludeStep,
     DrainStep DEF LadderStep

-----------------------------------------------------------------------------
(* The request around the ladder. *)
LEMMA FallbackIsAResult ==
  /\ Success("http", "none", "page", TRUE) \in Results
  /\ Success("http", "none", "page", TRUE).is = "ok"
  /\ Success("http", "none", "page", TRUE).from = "http"
  /\ Success("http", "none", "page", TRUE).body = "page"
  /\ Success("http", "none", "page", TRUE).tagged
BY DEF Success, Pending, Results

LEMMA FailureIsAResult ==
  ASSUME NEW e \in Errors \cup HttpErrors \cup {"none"}
  PROVE  Failure(e) \in Results /\ Failure(e).is = "err"
BY DEF Failure, Pending, Results

LEMMA LadderStill ==
  ASSUME LadderInv, UNCHANGED ladderVars
  PROVE  LadderInv'
<1>1. UNCHANGED << at, todo, pool, pinned, tracked, budget, challenge, skipped, chain, thin,
                   err, answer, sent >>
  BY DEF ladderVars
<1>2. LadderTyped'
  BY <1>1 DEF LadderInv, LadderTyped
<1>3. Tally'
  BY <1>1 DEF LadderInv, Tally
<1>4. \A t : LeftOut(t)' <=> LeftOut(t)
  BY <1>1 DEF LeftOut
<1>5. Leaking'
  BY <1>1, <1>4 DEF LadderInv, Leaking
<1>6. Concluded'
  BY <1>1, <1>4 DEF LadderInv, Concluded
<1>7. Looping'
  BY <1>1, <1>4 DEF LadderInv, Looping, Rest
<1>8. QED
  BY <1>2, <1>3, <1>5, <1>6, <1>7 DEF LadderInv

(* What fetch may hand back before it ever climbed the ladder. *)
Early(r) ==
  /\ r \in Results
  /\ \/ r.is = "err"
     \/ r.is = "ok" /\ r.from = "hop" /\ r.body # "genericWall"
     \/ /\ r.is = "ok" /\ r.from = "http" /\ r.body # "genericWall" /\ ~r.tagged
        /\ pin # "impersonated-http"

LEMMA DoneEarly ==
  ASSUME FetchInv, step \in {"limiter", "http", "judge"}, NEW r, Early(r), Done(r),
         UNCHANGED << mode, pin, page, ladderVars >>
  PROVE  FetchInv'
<1>1. /\ step' = "done" /\ result' = r /\ r \in Results
      /\ at = "idle" /\ at' = "idle" /\ sent' = sent /\ pin' = pin /\ page' = page
  BY DEF Early, Done, ladderVars, FetchInv, Staged
<1>2. LadderInv'
  BY LadderStill DEF FetchInv
<1>3. FetchTyped' /\ Staged'
  BY <1>1 DEF FetchInv, FetchTyped, Staged
<1>4. Answering'
  BY <1>1 DEF Early, Answering, FallbackTagged, WallNeverDisplacesPage, Pinned, Erred
<1>5. QED
  BY <1>2, <1>3, <1>4 DEF FetchInv

(* While the request is under way its result is pending. *)
LEMMA StillPending ==
  ASSUME FetchInv, step # "done", step' # "done", result' = result
  PROVE  Answering' /\ result' = Pending
<1>1. result' = Pending
  BY DEF FetchInv, Staged
<1>2. Pending.is # "ok"
  BY DEF Pending
<1>3. QED
  BY <1>1, <1>2 DEF Answering, FallbackTagged, WallNeverDisplacesPage, Pinned, Erred

LEMMA EarlyPages ==
  /\ Early(Success("hop", "none", "page", FALSE))
  /\ Early(Success("hop", "none", "good", FALSE))
  /\ pin # "impersonated-http" => Early(Success("http", "none", "page", FALSE))
  /\ \A e \in Errors \cup HttpErrors \cup {"none"} : Early(Failure(e))
<1>1. "good" \in TierBodies
  BY DEF TierBodies
<1>2. \A f \in {"http", "hop"}, b \in {"page", "good"} :
        /\ Success(f, "none", b, FALSE) \in Results
        /\ Success(f, "none", b, FALSE).is = "ok" /\ Success(f, "none", b, FALSE).from = f
        /\ Success(f, "none", b, FALSE).body = b
        /\ ~Success(f, "none", b, FALSE).tagged
  <2> SUFFICES ASSUME NEW f \in {"http", "hop"}, NEW b \in {"page", "good"}
               PROVE  /\ Success(f, "none", b, FALSE) \in Results
                      /\ Success(f, "none", b, FALSE).is = "ok"
                      /\ Success(f, "none", b, FALSE).from = f
                      /\ Success(f, "none", b, FALSE).body = b
                      /\ ~Success(f, "none", b, FALSE).tagged
    OBVIOUS
  <2>1. /\ f \in {"http", "hop", "ladder"} /\ b \in TierBodies \cup {"page", "none"}
        /\ "none" \in Tiers \cup {"none"}
    BY <1>1
  <2>2. QED
    BY <2>1 DEF Success, Pending, Results
<1>3. QED
  BY <1>2, FailureIsAResult DEF Early

LEMMA ClimbsUp ==
  ASSUME FetchInv, step = "judge", step' = "ladder", NEW hint \in BOOLEAN,
         Climb(pin, hint, tracked), UNCHANGED << mode, pin, page, result, budget >>
  PROVE  FetchInv'
<1>1. LadderInv'
  BY ClimbStep DEF FetchInv, LadderInv, LadderTyped
<1>2. pool' \in Pools(pin') /\ at' # "idle" /\ pin' = pin /\ page' = page /\ result' = result
  BY DEF Climb
<1>3. pin # "impersonated-http"
  BY DEF FetchInv, Staged
<1>4. Answering' /\ result' = Pending
  BY StillPending
<1>5. FetchTyped' /\ Staged'
  BY <1>2, <1>3, <1>4 DEF FetchInv, FetchTyped, Staged
<1>6. QED
  BY <1>1, <1>4, <1>5 DEF FetchInv

LEMMA LadderStays ==
  ASSUME LadderStep, at # "idle"
  PROVE  at' # "idle" /\ pool' = pool
BY DEF LadderStep, SkipSolver, Starve, BreakerSkip, BreakerGrant, Dispatch, Accept, Reject,
       TierFails, LeakDispatch, LeakEnd, EnterLeak, LeakSkip, Conclude, Drain, Onward, request

LEMMA FetchInitially == FetchInit => FetchInv
<1> SUFFICES ASSUME FetchInit PROVE FetchInv
  OBVIOUS
<1>1. /\ step = "limiter" /\ page = NoPage /\ result = Pending /\ at = "idle"
      /\ todo = << >> /\ pool = << >> /\ pinned = FALSE /\ tracked \in BOOLEAN
      /\ budget = TRUE /\ challenge = FALSE /\ skipped = {} /\ chain = << >> /\ thin = None
      /\ err = "none" /\ answer = Unanswered /\ sent = << >>
  BY DEF FetchInit
<1>2. << >> \in Seq(Tiers) /\ Len(<< >>) = 0
  OBVIOUS
<1>3. LadderTyped
  <2>1. Unanswered \in LadderAnswers /\ None \in Thins
    BY DEF Unanswered, LadderAnswers, Decisions, Thins
  <2>2. QED
    BY <1>1, <1>2, <2>1 DEF LadderTyped
<1>4. Tally
  <2>1. IsFiniteSet({}) /\ Cardinality({}) = 0
    BY FS_EmptySet
  <2>2. /\ Range(sent) = {} /\ Range(pool) = {} /\ Distinct(pool)
        /\ Len(sent) = 0 /\ Len(chain) = 0 /\ Len(pool) = 0
    BY <1>1, <1>2, NoneInEmpty
  <2>3. IsFiniteSet(Range(sent)) /\ Len(sent) = Cardinality(Range(sent))
    BY <2>1, <2>2
  <2>4. QED
    BY <1>1, <2>2, <2>3 DEF Tally
<1>5. Looping /\ Leaking /\ Concluded
  BY <1>1 DEF Looping, Leaking, Concluded, Climbed, Leaks
<1>6. FetchTyped
  BY <1>1 DEF FetchTyped, NoPage, Results, Pending
<1>7. Staged
  BY <1>1 DEF Staged
<1>8. Answering
  BY <1>1 DEF Answering, FallbackTagged, WallNeverDisplacesPage, Pinned, Erred, Pending
<1>9. QED
  BY <1>3, <1>4, <1>5, <1>6, <1>7, <1>8 DEF FetchInv, LadderInv

(* What the ladder returns is turned into the answer of the request. *)
LEMMA SettleStep ==
  ASSUME FetchInv, Settle
  PROVE  FetchInv'
<1>1. /\ step = "ladder" /\ at = "answered" /\ step' = "done"
      /\ UNCHANGED << mode, pin, page, ladderVars >>
  BY DEF Settle, Done
<1>2. LadderInv' /\ at' = "answered" /\ sent' = sent /\ pin' = pin /\ page' = page
      /\ pool' = pool /\ pool \in Pools(pin) /\ pin # "impersonated-http"
      /\ answer.is \in {"ok", "err"} /\ answer \in LadderAnswers
      /\ answer.err \in Errors \cup {"none"}
  <2>1. answer.is # "none" /\ answer \in LadderAnswers
    BY <1>1 DEF FetchInv, LadderInv, LadderTyped, Concluded
  <2>2. answer.is \in {"ok", "err"} /\ answer.err \in Errors \cup {"none"}
    BY <2>1 DEF LadderAnswers
  <2>3. QED
    BY <1>1, <2>1, <2>2, LadderStill DEF FetchInv, Staged, ladderVars
<1>3. Staged'
  BY <1>1, <1>2 DEF Staged
<1>4. CASE answer.is = "ok" /\ result' = Success("ladder", answer.tier, answer.body, FALSE)
           /\ (Erred \/ ~Demoted)
  <2>1. answer.tier \in Tiers \cup {"none"} /\ answer.body \in TierBodies \cup {"page", "none"}
    BY <1>2 DEF LadderAnswers
  <2>2. /\ result' \in Results /\ result'.is = "ok" /\ result'.from = "ladder"
        /\ result'.tier = answer.tier /\ result'.body = answer.body
    <3>1. "ladder" \in {"http", "hop", "ladder"}
      OBVIOUS
    <3>2. PICK r : r = Success("ladder", answer.tier, answer.body, FALSE)
      OBVIOUS
    <3>3. /\ r \in Results /\ r.is = "ok" /\ r.from = "ladder"
          /\ r.tier = answer.tier /\ r.body = answer.body
      BY <2>1, <3>1, <3>2 DEF Success, Pending, Results
    <3>4. QED
      BY <1>4, <3>2, <3>3
  <2>3. FetchTyped'
    BY <1>1, <1>2, <2>2 DEF FetchInv, FetchTyped
  <2>4. pin # "auto" => answer.tier = pin
    <3>1. answer.tier \in Range(pool)
      BY <1>1, <1>4 DEF FetchInv, LadderInv, Tally, Concluded
    <3>2. QED
      BY <1>2, <3>1, PoolFacts
  <2>5. Answering'
    BY <1>2, <1>4, <2>2, <2>4
       DEF Answering, FallbackTagged, WallNeverDisplacesPage, Pinned, Erred, Demoted
  <2>6. QED
    BY <1>2, <1>3, <2>3, <2>5 DEF FetchInv
<1>5. CASE \E e \in Errors \cup HttpErrors \cup {"none"} : result' = Failure(e)
  <2>1. result' \in Results /\ result'.is = "err"
    BY <1>5, FailureIsAResult
  <2>2. FetchTyped' /\ Answering'
    BY <1>1, <1>2, <2>1 DEF FetchInv, FetchTyped, Answering, FallbackTagged,
       WallNeverDisplacesPage
  <2>3. QED
    BY <1>2, <1>3, <2>2 DEF FetchInv
<1>6. CASE ~Pinned /\ result' = Success("http", "none", "page", FallbackTag)
  <2>1. /\ result' \in Results /\ result'.is = "ok" /\ result'.from = "http"
        /\ result'.body = "page" /\ result'.tagged
    BY <1>6, FallbackIsAResult DEF FallbackTag
  <2>2. FetchTyped'
    BY <1>1, <1>2, <2>1 DEF FetchInv, FetchTyped
  <2>3. Answering'
    BY <1>2, <1>6, <2>1 DEF Answering, FallbackTagged, WallNeverDisplacesPage, Pinned
  <2>4. QED
    BY <1>2, <1>3, <2>2, <2>3 DEF FetchInv
<1>7. \/ /\ answer.is = "ok" /\ (Erred \/ ~Demoted)
         /\ result' = Success("ladder", answer.tier, answer.body, FALSE)
      \/ Erred /\ result' = Failure(RootCause(answer.err))
      \/ result' = Failure(answer.err)
      \/ ~Pinned /\ result' = Success("http", "none", "page", FallbackTag)
  BY DEF Settle, Done, FailClosed
<1>8. RootCause(answer.err) \in Errors \cup HttpErrors \cup {"none"}
  BY <1>2 DEF RootCause, HttpErrors
<1>9. QED
  BY <1>2, <1>4, <1>5, <1>6, <1>7, <1>8

LEMMA FetchStepKeeps ==
  ASSUME FetchInv, [FetchNext]_requestVars
  PROVE  FetchInv'
<1>1. CASE Admit
  <2>1. CASE step' = "http" /\ result' = result
    <3>1. step = "limiter" /\ pin' = pin /\ page' = page /\ UNCHANGED ladderVars
      BY <1>1 DEF Admit
    <3>2. LadderInv'
      BY <3>1, LadderStill DEF FetchInv
    <3>3. Answering' /\ result' = Pending
      BY <2>1, <3>1, StillPending
    <3>4. FetchTyped' /\ Staged'
      BY <2>1, <3>1, <3>3 DEF FetchInv, FetchTyped, Staged, ladderVars
    <3>5. QED
      BY <3>2, <3>3, <3>4 DEF FetchInv
  <2>2. CASE Done(Failure("timeout"))
    <3>1. Early(Failure("timeout"))
      BY EarlyPages DEF Errors
    <3>2. QED
      BY <1>1, <2>2, <3>1, DoneEarly DEF Admit
  <2>3. QED
    BY <1>1, <2>1, <2>2 DEF Admit
<1>2. CASE PinnedHop
  <2>1. PICK r : /\ Done(r)
                 /\ \/ r = Success("hop", "none", "page", FALSE)
                    \/ \E e \in HttpErrors \cup {"blocked", "noTier"} : r = Failure(e)
    BY <1>2 DEF PinnedHop
  <2>2. Early(r)
    BY <2>1, EarlyPages DEF Errors
  <2>3. QED
    BY <1>2, <2>1, <2>2, DoneEarly DEF PinnedHop
<1>3. CASE HttpFetch
  <2>1. step = "http" /\ step' = "judge" /\ pin # "impersonated-http" /\ pin' = pin
        /\ result' = result /\ UNCHANGED ladderVars
    BY <1>3 DEF HttpFetch
  <2>2. page' \in [ error : HttpErrors \cup {"none"} ] \cup Pages
    <3>1. \A e \in HttpErrors : Failed(e) \in [ error : HttpErrors \cup {"none"} ]
      BY DEF Failed
    <3>2. HttpPages \subseteq Pages
      BY DEF HttpPages
    <3>3. QED
      BY <1>3, <3>1, <3>2 DEF HttpFetch
  <2>3. LadderInv'
    BY <2>1, LadderStill DEF FetchInv
  <2>4. Answering' /\ result' = Pending
    BY <2>1, StillPending
  <2>5. FetchTyped' /\ Staged'
    BY <2>1, <2>2, <2>4 DEF FetchInv, FetchTyped, Staged, ladderVars
  <2>6. QED
    BY <2>3, <2>4, <2>5 DEF FetchInv
<1>4. CASE HttpOnly
  <2>1. /\ Judging /\ UNCHANGED << mode, pin, page, ladderVars >>
        /\ \/ Erred /\ Done(Failure(page.error))
           \/ Done(Success("http", "none", "page", FALSE))
    BY <1>4 DEF HttpOnly
  <2>2. Erred => page.error \in HttpErrors \cup {"none"}
    BY DEF Erred, FetchInv, FetchTyped, Pages
  <2>3. pin # "impersonated-http"
    BY <2>1 DEF Judging, FetchInv, Staged
  <2>4. QED
    BY <2>1, <2>2, <2>3, EarlyPages, DoneEarly DEF Judging
<1>5. CASE Hop
  BY <1>5, EarlyPages, DoneEarly DEF Hop, Judging
<1>6. CASE HttpFailed
  <2>1. Judging /\ Erred /\ UNCHANGED << mode, pin, page >>
    BY <1>6 DEF HttpFailed
  <2>2. page.error \in HttpErrors \cup {"none"}
    BY <2>1 DEF Erred, FetchInv, FetchTyped, Pages
  <2>3. CASE step' = "ladder" /\ Climb(pin, FALSE, tracked) /\ UNCHANGED << result, budget >>
    BY <2>1, <2>3, ClimbsUp DEF Judging
  <2>4. CASE Done(Failure(page.error)) /\ UNCHANGED ladderVars
    BY <2>1, <2>2, <2>4, EarlyPages, DoneEarly DEF Judging
  <2>5. QED
    BY <1>6, <2>3, <2>4 DEF HttpFailed
<1>7. CASE HttpAnswered
  <2>1. Judging /\ ~Erred /\ UNCHANGED << mode, pin, page >>
    BY <1>7 DEF HttpAnswered
  <2>2. CASE step' = "ladder" /\ Climb(pin, Hint, tracked) /\ UNCHANGED << result, budget >>
    <3>1. Hint \in BOOLEAN
      <4>1. page \in Pages
        BY <2>1 DEF Erred, FetchInv, FetchTyped
      <4>2. page.wall \in BOOLEAN
        BY <4>1 DEF Pages
      <4>3. QED
        BY <4>2 DEF Hint, Blocked, CfHeaderSignal, Pinned
    <3>2. QED
      BY <2>1, <2>2, <3>1, ClimbsUp DEF Judging
  <2>3. CASE Done(Success("http", "none", "page", FALSE)) /\ UNCHANGED ladderVars
    <3>1. pin # "impersonated-http"
      BY <2>1 DEF Judging, FetchInv, Staged
    <3>2. QED
      BY <2>1, <2>3, <3>1, EarlyPages, DoneEarly DEF Judging
  <2>4. QED
    BY <1>7, <2>2, <2>3 DEF HttpAnswered
<1>8. CASE Climbing
  <2>1. step = "ladder" /\ LadderStep /\ step' = step /\ pin' = pin /\ page' = page
        /\ result' = result
    BY <1>8 DEF Climbing, fetchVars
  <2>2. LadderInv'
    BY <2>1, LadderStepKeeps DEF FetchInv
  <2>3. at # "idle" /\ at' # "idle" /\ pool' = pool
    BY <2>1, LadderStays DEF FetchInv, Staged
  <2>4. Answering' /\ result' = Pending
    BY <2>1, StillPending
  <2>5. FetchTyped' /\ Staged'
    BY <2>1, <2>3, <2>4 DEF FetchInv, FetchTyped, Staged
  <2>6. QED
    BY <2>2, <2>4, <2>5 DEF FetchInv
<1>9. CASE Settle
  BY <1>9, SettleStep
<1>10. CASE UNCHANGED requestVars
  <2>1. UNCHANGED << step, pin, page, result, at, pool, sent >> /\ UNCHANGED ladderVars
    BY <1>10 DEF requestVars, fetchVars, ladderVars
  <2>2. LadderInv'
    BY <2>1, LadderStill DEF FetchInv
  <2>3. FetchTyped' /\ Staged' /\ Answering'
    BY <2>1 DEF FetchInv, FetchTyped, Staged, Answering, FallbackTagged,
       WallNeverDisplacesPage, Pinned, Erred
  <2>4. QED
    BY <2>2, <2>3 DEF FetchInv
<1>11. QED
  BY <1>1, <1>2, <1>3, <1>4, <1>5, <1>6, <1>7, <1>8, <1>9, <1>10 DEF FetchNext

(* The request is never out of step with its ladder: the inductive invariant *)
(* of one fetch and of the tiers it climbs.                                  *)
THEOREM FetchInductive == FetchSpec => []FetchInv
<1>1. FetchInit => FetchInv
  BY FetchInitially
<1>2. FetchInv /\ [FetchNext]_requestVars => FetchInv'
  BY FetchStepKeeps
<1>3. QED
  BY <1>1, <1>2, PTL DEF FetchSpec

(* AnswerIsTrue: no starved request blames a tier, no error hides a body, no *)
(* wall displaces a page, and a plain HTTP body after a climb says so.       *)
LEMMA AnswersTrue == FetchSpec => []AnswerIsTrue
<1>1. ASSUME FetchInv PROVE AnswerIsTrue
  <2>1. FetchTypeOK
    <3>1. LadderTyped /\ Tally /\ FetchTyped
      BY <1>1 DEF FetchInv, LadderInv
    <3>2. thin # None => thin.tier \in Tiers /\ thin.body \in TierBodies \ {"good"}
      BY <3>1 DEF LadderTyped, Thins
    <3>3. answer.body \in TierBodies \cup {"none"}
      BY <3>1 DEF LadderTyped, LadderAnswers
    <3>4. /\ result.is \in {"none", "ok", "err"}
          /\ result.err \in Errors \cup HttpErrors \cup {"none"}
      BY <3>1 DEF FetchTyped, Results
    <3>5. QED
      BY <3>1, <3>2, <3>3, <3>4 DEF FetchTypeOK, LadderTyped, Tally, FetchTyped, Climbed, Leaks
  <2>2. StarvedIsTimeout
    BY <1>1 DEF FetchInv, LadderInv, Concluded, LeftOut, StarvedIsTimeout
  <2>3. ErrMeansNoBody
    BY <1>1 DEF FetchInv, LadderInv, Concluded, ErrMeansNoBody
  <2>4. QED
    BY <1>1, <2>1, <2>2, <2>3 DEF AnswerIsTrue, FetchInv, Answering
<1>2. QED
  BY <1>1, FetchInductive, PTL

(* TiersAsAsked: each tier is sent to once, and a pinned request is answered *)
(* by its pin or not at all.                                                 *)
LEMMA TiersAsked == FetchSpec => []TiersAsAsked
<1>1. ASSUME FetchInv PROVE TiersAsAsked
  <2>1. NoTierTwice
    BY <1>1 DEF FetchInv, LadderInv, Tally, NoTierTwice
  <2>2. Pinned => Range(sent) \subseteq {pin}
    <3>1. CASE at = "idle"
      BY <1>1, <3>1, NoneInEmpty DEF FetchInv, Staged
    <3>2. CASE at # "idle"
      BY <1>1, <3>2, PoolFacts DEF FetchInv, Staged, LadderInv, Tally, Pinned
    <3>3. QED
      BY <3>1, <3>2
  <2>3. PinHonoured
    BY <1>1, <2>2 DEF PinHonoured, FetchInv, Answering
  <2>4. QED
    BY <2>1, <2>3 DEF TiersAsAsked
<1>2. QED
  BY <1>1, FetchInductive, PTL

(* RequestIsSound: both of one request, for any ladder, pin and breakers.     *)
THEOREM RequestSound == FetchSpec => []RequestIsSound
BY AnswersTrue, TiersAsked, PTL DEF RequestIsSound

(* What a send needs, said as an action. *)
Due == /\ sent' # sent => budget
       /\ Solver \in Range(sent') \ Range(sent) => Challenged

(* DispatchIsDue: no tier is started on a spent budget, and the solver only  *)
(* for a page that asked for it, on the loop and on the leak arm alike.      *)
THEOREM DispatchDue == FetchSpec => DispatchIsDue
<1>1. ASSUME FetchInv, FetchNext PROVE Due
  <2>1. CASE sent' = sent
    BY <2>1 DEF Due
  <2>2. CASE \E t \in Tiers : step = "ladder" /\ Dispatch(t)
    <3>1. PICK t \in Tiers : Dispatch(t)
      BY <2>2
    <3>2. /\ at = "permitted" /\ t = Head(todo) /\ budget /\ sent' = Append(sent, t)
      BY <3>1 DEF Dispatch, WorthSending
    <3>3. sent \in Seq(Tiers)
      BY <1>1 DEF FetchInv, LadderInv, LadderTyped
    <3>4. Range(sent') = Range(sent) \cup {t}
      BY <3>2, <3>3, OneMore
    <3>5. t = Solver => challenge
      BY <1>1, <3>2 DEF FetchInv, LadderInv, Looping, Climbed
    <3>6. QED
      BY <3>2, <3>4, <3>5 DEF Due, Challenged
  <2>3. CASE \E t \in Tiers : step = "ladder" /\ LeakDispatch(t)
    <3>1. PICK t \in Tiers : LeakDispatch(t)
      BY <2>3
    <3>2. /\ t \in skipped /\ budget /\ sent' = Append(sent, t)
      BY <3>1 DEF LeakDispatch, Leakable
    <3>3. sent \in Seq(Tiers)
      BY <1>1 DEF FetchInv, LadderInv, LadderTyped
    <3>4. Range(sent') = Range(sent) \cup {t}
      BY <3>2, <3>3, OneMore
    <3>5. t = Solver => challenge
      BY <1>1, <3>2 DEF FetchInv, LadderInv, Tally
    <3>6. QED
      BY <3>2, <3>4, <3>5 DEF Due, Challenged
  <2>4. CASE step = "judge" /\ (HttpFailed \/ HttpAnswered)
    <3>1. sent = << >>
      BY <1>1, <2>4 DEF FetchInv, Staged
    <3>2. sent' = sent
      BY <2>4, <3>1 DEF HttpFailed, HttpAnswered, Climb, ladderVars
    <3>3. QED
      BY <2>1, <3>2
  <2>5. CASE Admit \/ PinnedHop \/ HttpFetch \/ HttpOnly \/ Hop \/ Settle
    <3>1. UNCHANGED ladderVars
      BY <2>5 DEF Admit, PinnedHop, HttpFetch, HttpOnly, Hop, Settle
    <3>2. QED
      BY <2>1, <3>1 DEF ladderVars
  <2>6. CASE /\ Climbing
             /\ ~\E t \in Tiers : Dispatch(t) \/ LeakDispatch(t)
    <3>1. sent' = sent
      BY <2>6 DEF Climbing, LadderStep, SkipSolver, Starve, BreakerSkip, BreakerGrant, Accept,
         Reject, TierFails, LeakEnd, EnterLeak, LeakSkip, Conclude, Drain
    <3>2. QED
      BY <2>1, <3>1
  <2>7. QED
    BY <1>1, <2>2, <2>3, <2>4, <2>5, <2>6 DEF FetchNext, Climbing, HttpFailed, HttpAnswered,
       Judging
<1>2. ASSUME FetchInv, [FetchNext]_requestVars PROVE [Due]_requestVars
  BY <1>1, <1>2
<1>3. FetchInv /\ [FetchNext]_requestVars => [Due]_requestVars
  BY <1>2
<1>4. QED
  BY <1>3, FetchInductive, PTL DEF FetchSpec, DispatchIsDue, Due

-----------------------------------------------------------------------------
(* The ladder answers only when it is through, and with a body if it answers *)
(* well; a page is there from the moment plain HTTP is judged.               *)
HandInv ==
  /\ at # "answered" => answer.is = "none"
  /\ at = "answered" /\ answer.is = "ok" => answer.body \in TierBodies
  /\ at = "idle" => thin = None
  /\ at # "idle" => mode # "http"
  /\ step \in {"limiter", "http"} => page = NoPage
  /\ step \in {"judge", "ladder"} => page # NoPage

LEMMA OkFields ==
  ASSUME NEW t, NEW b, NEW d
  PROVE  Ok(t, b, d).is = "ok" /\ Ok(t, b, d).tier = t /\ Ok(t, b, d).body = b
BY DEF Ok, Unanswered

LEMMA ErrFields == ASSUME NEW e PROVE Err(e).is = "err"
BY DEF Err, Unanswered

LEMMA SilentAnswer == Unanswered.is = "none"
BY DEF Unanswered

(* What the tail returns is the thin body, when there is one. *)
LEMMA BestFields ==
  ASSUME LadderInv
  PROVE  /\ thin # None => /\ Best.is = "ok" /\ Best.tier = thin.tier
                           /\ Best.body = thin.body /\ Best.body \in TierBodies
         /\ thin = None => Best.is = "err"
<1>1. CASE thin # None
  <2>1. thin.body \in TierBodies
    BY <1>1 DEF LadderInv, LadderTyped, Thins
  <2>2. PICK d : Best = Ok(thin.tier, thin.body, d)
    BY <1>1 DEF Best
  <2>3. QED
    BY <1>1, <2>1, <2>2, OkFields
<1>2. CASE thin = None
  <2>1. PICK e : Best = Err(e)
    BY <1>2 DEF Best
  <2>2. QED
    BY <1>2, <2>1, ErrFields
<1>3. QED
  BY <1>1, <1>2

(* A step of the ladder answers well with a body in hand, or not at all.     *)
LEMMA LadderAnswering ==
  ASSUME LadderInv, HandInv, LadderStep, at # "idle"
  PROVE  /\ at' # "answered" => answer'.is = "none"
         /\ at' = "answered" /\ answer'.is = "ok" => answer'.body \in TierBodies
<1>1. CASE answer' = answer /\ at' # "answered" /\ at # "answered"
  BY <1>1 DEF HandInv
<1>2. CASE at' = "answered" /\ \E t, d : answer' = Ok(t, "good", d)
  BY <1>2, OkFields DEF TierBodies
<1>3. CASE at' = "answered" /\ answer' = Best
  BY <1>3, BestFields
<1>4. CASE \E t \in Tiers :
             \/ SkipSolver(t) \/ Starve(t) \/ BreakerSkip(t) \/ BreakerGrant(t)
             \/ Dispatch(t) \/ Reject(t) \/ TierFails(t) \/ LeakDispatch(t)
  <2>1. answer' = answer /\ at' # "answered" /\ at # "answered"
    BY <1>4 DEF SkipSolver, Starve, BreakerSkip, BreakerGrant, Dispatch, Reject, TierFails,
       LeakDispatch, Onward, Visit
  <2>2. QED
    BY <1>1, <2>1
<1>5. CASE \E t \in Tiers : Accept(t)
  BY <1>2, <1>5 DEF Accept
<1>6. CASE \E t \in Tiers : LeakEnd(t)
  <2>1. PICK t \in Tiers : LeakEnd(t)
    BY <1>6
  <2>2. \/ at' = "answered" /\ answer' = Ok(t, "good", "AutoDefault")
        \/ at' = "tail" /\ answer' = answer /\ at = "leaking"
    BY <2>1 DEF LeakEnd
  <2>3. QED
    BY <1>1, <1>2, <2>2
<1>7. CASE EnterLeak \/ LeakSkip \/ Drain
  <2>1. answer' = answer /\ at' # "answered" /\ at # "answered"
    BY <1>7 DEF EnterLeak, LeakSkip, Drain
  <2>2. QED
    BY <1>1, <2>1
<1>8. CASE Conclude
  BY <1>3, <1>8 DEF Conclude
<1>9. QED
  BY <1>4, <1>5, <1>6, <1>7, <1>8 DEF LadderStep

LEMMA HandInitially == FetchInit => HandInv
BY SilentAnswer DEF FetchInit, HandInv

(* A step that leaves the ladder alone and goes no further than a page.      *)
LEMMA HandStill ==
  ASSUME HandInv, UNCHANGED << mode, ladderVars >>,
         step' \in {"limiter", "http"} => page' = NoPage,
         step' \in {"judge", "ladder"} => page' # NoPage
  PROVE  HandInv'
<1>1. UNCHANGED << mode, at, thin, answer >>
  BY DEF ladderVars
<1>2. QED
  BY <1>1 DEF HandInv

LEMMA HandClimb ==
  ASSUME HandInv, step = "judge", step' = "ladder", mode # "http", NEW hint,
         Climb(pin, hint, tracked), UNCHANGED << mode, page >>
  PROVE  HandInv'
<1>1. page' # NoPage /\ mode' # "http" /\ thin' = None
  BY DEF HandInv, Climb
<1>2. \/ at' = "answered" /\ answer' = Err("noTier")
      \/ at' = "loop" /\ answer' = Unanswered
  BY DEF Climb
<1>3. Err("noTier").is # "ok" /\ Unanswered.is = "none"
  BY ErrFields, SilentAnswer
<1>4. QED
  BY <1>1, <1>2, <1>3 DEF HandInv

LEMMA FetchedSomething ==
  ASSUME HttpFetch
  PROVE  page' # NoPage
<1>1. CASE \E e \in HttpErrors : page' = Failed(e)
  BY <1>1 DEF HttpErrors, Failed, NoPage
<1>2. CASE \E p \in HttpPages : page' = p
  <2>1. page' \in Pages
    BY <1>2 DEF HttpPages
  <2>2. DOMAIN page' # {"error"}
    BY <2>1 DEF Pages
  <2>3. DOMAIN NoPage = {"error"}
    BY DEF NoPage
  <2>4. QED
    BY <2>2, <2>3
<1>3. QED
  BY <1>1, <1>2 DEF HttpFetch

LEMMA HandStepKeeps ==
  ASSUME FetchInv, HandInv, [FetchNext]_requestVars
  PROVE  HandInv'
<1>1. CASE Admit \/ PinnedHop \/ HttpOnly \/ Hop \/ Settle
  <2>1. /\ UNCHANGED << mode, page, ladderVars >>
        /\ step' \in {"http", "done"}
        /\ step' = "http" => step = "limiter"
    BY <1>1 DEF Admit, PinnedHop, HttpOnly, Hop, Settle, Done
  <2>2. QED
    BY <2>1, HandStill DEF HandInv
<1>2. CASE HttpFetch
  <2>1. step' = "judge" /\ UNCHANGED << mode, ladderVars >>
    BY <1>2 DEF HttpFetch
  <2>2. QED
    BY <1>2, <2>1, FetchedSomething, HandStill
<1>3. CASE HttpFailed \/ HttpAnswered
  <2>1. step = "judge" /\ mode # "http" /\ UNCHANGED << mode, page >>
    BY <1>3 DEF HttpFailed, HttpAnswered, Judging
  <2>2. CASE step' = "ladder" /\ \E hint : Climb(pin, hint, tracked)
    BY <2>1, <2>2, HandClimb
  <2>3. CASE step' = "done" /\ UNCHANGED ladderVars
    BY <2>1, <2>3, HandStill
  <2>4. QED
    BY <1>3, <2>2, <2>3 DEF HttpFailed, HttpAnswered, Done
<1>4. CASE Climbing
  <2>1. step = "ladder" /\ LadderStep /\ UNCHANGED << step, mode, page >>
    BY <1>4 DEF Climbing, fetchVars
  <2>2. at # "idle"
    BY <2>1 DEF FetchInv, Staged
  <2>3. at' # "idle"
    BY <2>1, <2>2, LadderStays
  <2>4. QED
    BY <2>1, <2>2, <2>3, LadderAnswering DEF FetchInv, HandInv
<1>5. CASE UNCHANGED requestVars
  BY <1>5, HandStill DEF requestVars, fetchVars, HandInv
<1>6. QED
  BY <1>1, <1>2, <1>3, <1>4, <1>5 DEF FetchNext

(* The request as FetchPromise sees it.                                      *)
LEMMA HttpSideFacts ==
  /\ page = NoPage => HttpSide = "awaited"
  /\ page # NoPage /\ Erred => HttpSide = "failed"
  /\ page # NoPage /\ ~Erred /\ page.wall => HttpSide = "wall"
  /\ page # NoPage /\ ~Erred /\ ~page.wall => HttpSide = "page"
BY DEF HttpSide

LEMMA SameView ==
  ASSUME UNCHANGED << mode, pin, page, result >>, Range(sent)' = Range(sent), Kept' = Kept
  PROVE  UNCHANGED Promise!promiseVars
<1>1. HttpSide' = HttpSide
  BY DEF HttpSide, Erred
<1>2. Told' = Told
  BY DEF Told
<1>3. QED
  BY <1>1, <1>2 DEF Promise!promiseVars

LEMMA SilentTold == result = Pending => Told = Promise!Silence
BY DEF Told, Pending, Promise!Silence, Promise!Reply

LEMMA ToldSuccess ==
  ASSUME NEW f, NEW t, NEW b, NEW g, result' = Success(f, t, b, g)
  PROVE  Told' = Promise!Reply("ok", f, t, b, g)
BY DEF Told, Success, Pending, Promise!Reply

LEMMA ToldFailure ==
  ASSUME NEW e, result' = Failure(e)
  PROVE  Told' = Promise!Reply("err", "none", "none", "none", FALSE)
BY DEF Told, Failure, Pending, Promise!Reply

(* A reply changes nothing but what the caller was told.                     *)
LEMMA SayingIt ==
  ASSUME FetchInv, step # "done", UNCHANGED << mode, pin, page, ladderVars >>,
         NEW r, Told' = r
  PROVE  Promise!Says(r)
<1>1. Told = Promise!Silence
  BY SilentTold DEF FetchInv, Staged
<1>2. HttpSide' = HttpSide
  BY DEF HttpSide, Erred
<1>3. Range(sent)' = Range(sent) /\ Kept' = Kept
  BY DEF Kept, ladderVars
<1>4. QED
  BY <1>1, <1>2, <1>3 DEF Promise!Says

(* Before the ladder no tier was sent to and nothing of a tier is in hand.   *)
LEMMA NothingYet ==
  ASSUME FetchInv, HandInv, at = "idle"
  PROVE  Range(sent) = {} /\ Kept = Promise!Nothing
<1>1. sent = << >> /\ thin = None /\ answer.is = "none"
  BY DEF FetchInv, Staged, HandInv
<1>2. Kept = None
  BY <1>1 DEF Kept
<1>3. QED
  BY <1>1, <1>2, NoneInEmpty DEF None, Promise!Nothing

LEMMA EarlyHop ==
  ASSUME FetchInv, HandInv, at = "idle", step # "done",
         UNCHANGED << mode, pin, page, ladderVars >>,
         \/ pin = "impersonated-http" /\ result' = Success("hop", "none", "page", FALSE)
         \/ /\ pin # "impersonated-http" /\ page # NoPage
            /\ result' = Success("hop", "none", "good", FALSE)
  PROVE  Promise!HandHop
<1>1. CASE pin = "impersonated-http" /\ result' = Success("hop", "none", "page", FALSE)
  BY <1>1, ToldSuccess, SayingIt, NothingYet DEF Promise!HandHop, Promise!Hopping
<1>2. CASE /\ pin # "impersonated-http" /\ page # NoPage
           /\ result' = Success("hop", "none", "good", FALSE)
  <2>1. HttpSide # "awaited"
    BY <1>2, HttpSideFacts
  <2>2. QED
    BY <1>2, <2>1, ToldSuccess, SayingIt, NothingYet DEF Promise!HandHop, Promise!Hopping
<1>3. QED
  BY <1>1, <1>2

LEMMA EarlyPage ==
  ASSUME FetchInv, HandInv, at = "idle", step # "done", page # NoPage, ~Erred,
         UNCHANGED << mode, pin, page, ladderVars >>,
         result' = Success("http", "none", "page", FALSE)
  PROVE  Promise!PassOn
<1>1. HttpSide \in {"wall", "page"}
  BY HttpSideFacts
<1>2. QED
  BY <1>1, ToldSuccess, SayingIt, NothingYet DEF Promise!PassOn

LEMMA EarlyFailure ==
  ASSUME FetchInv, HandInv, at = "idle", step # "done", page = NoPage \/ Erred,
         UNCHANGED << mode, pin, page, ladderVars >>,
         NEW e, result' = Failure(e)
  PROVE  Promise!GiveUp
<1>1. HttpSide \in {"awaited", "failed"}
  BY HttpSideFacts
<1>2. QED
  BY <1>1, ToldFailure, SayingIt, NothingYet DEF Promise!GiveUp

LEMMA HttpPromised ==
  ASSUME FetchInv, HandInv, HttpFetch
  PROVE  Promise!Http
<1>1. /\ step = "http" /\ pin # "impersonated-http" /\ UNCHANGED << mode, pin, result, ladderVars >>
      /\ page = NoPage /\ page' # NoPage
  BY FetchedSomething DEF HttpFetch, HandInv
<1>2. HttpSide = "awaited"
  BY <1>1, HttpSideFacts
<1>3. HttpSide' \in {"failed", "wall", "page"}
  BY <1>1 DEF HttpSide, Erred
<1>4. Told = Promise!Silence
  BY <1>1, SilentTold DEF FetchInv, Staged
<1>5. Told' = Told
  BY <1>1 DEF Told
<1>6. Range(sent)' = Range(sent) /\ Kept' = Kept
  BY <1>1 DEF Kept, ladderVars
<1>7. QED
  BY <1>1, <1>2, <1>3, <1>4, <1>5, <1>6 DEF Promise!Http, Promise!Hopping

(* Climbing begins with empty hands.                                         *)
LEMMA ClimbPromised ==
  ASSUME FetchInv, HandInv, step = "judge", NEW hint, Climb(pin, hint, tracked),
         UNCHANGED << mode, pin, page, result >>
  PROVE  UNCHANGED Promise!promiseVars
<1>1. at = "idle"
  BY DEF FetchInv, Staged
<1>2. sent = << >> /\ sent' = sent /\ thin' = None
  BY <1>1 DEF FetchInv, Staged, Climb
<1>3. answer'.is # "ok"
  BY ErrFields, SilentAnswer DEF Climb
<1>4. Kept' = None
  BY <1>2, <1>3 DEF Kept
<1>5. Kept = None
  BY <1>1, NothingYet DEF None, Promise!Nothing
<1>6. QED
  BY <1>2, <1>4, <1>5, SameView

(* What stands while the ladder is climbed.                                  *)
LEMMA Underway ==
  ASSUME FetchInv, HandInv, step = "ladder", at # "answered"
  PROVE  /\ Told = Promise!Silence /\ HttpSide # "awaited" /\ mode # "http"
         /\ Kept = thin /\ Kept.body # "good"
<1>1. result = Pending /\ at # "idle" /\ page # NoPage
  BY DEF FetchInv, Staged, HandInv
<1>2. Kept = thin
  BY DEF HandInv, Kept
<1>3. thin.body # "good"
  BY DEF FetchInv, LadderInv, LadderTyped, Thins, None
<1>4. QED
  BY <1>1, <1>2, <1>3, SilentTold, HttpSideFacts DEF HandInv

(* A send, by the loop or by the leak arm, tries a tier for the first time.  *)
LEMMA TryPromised ==
  ASSUME FetchInv, HandInv, step = "ladder", NEW t \in Tiers, at # "answered",
         t \in Range(pool), t \notin Range(sent), sent' = Append(sent, t),
         UNCHANGED << mode, pin, page, result, thin, answer >>
  PROVE  Promise!Try(t)
<1>1. Range(sent)' = Range(sent) \cup {t}
  BY OneMore DEF FetchInv, LadderInv, LadderTyped
<1>2. pin \in {"auto", t}
  BY PoolFacts DEF FetchInv, Staged
<1>3. HttpSide' = HttpSide /\ Told' = Told /\ Kept' = Kept
  BY DEF HttpSide, Erred, Told, Kept
<1>4. QED
  BY <1>1, <1>2, <1>3, Underway DEF Promise!Try

(* A body of a tier that was sent to comes into hand.                        *)
LEMMA BringPromised ==
  ASSUME FetchInv, HandInv, step = "ladder", NEW t \in Range(sent), at # "answered",
         NEW b \in TierBodies, Kept' = [ tier |-> t, body |-> b ],
         UNCHANGED << mode, pin, page, result, sent >>
  PROVE  Promise!Bring(t)
<1>1. HttpSide' = HttpSide /\ Told' = Told /\ Range(sent)' = Range(sent)
  BY DEF HttpSide, Erred, Told
<1>2. QED
  BY <1>1, Underway DEF Promise!Bring

LEMMA DispatchPromised ==
  ASSUME FetchInv, HandInv, step = "ladder", NEW t \in Tiers,
         Dispatch(t) \/ LeakDispatch(t), UNCHANGED << mode, pin, page, result >>
  PROVE  Promise!Try(t)
<1>1. /\ at # "answered" /\ t = Head(todo) /\ sent' = Append(sent, t)
      /\ thin' = thin /\ answer' = answer
  BY DEF Dispatch, LeakDispatch
<1>2. LadderInv /\ todo \in Seq(Tiers)
  BY DEF FetchInv, LadderInv, LadderTyped
<1>3. CASE Dispatch(t)
  <2>1. at = "permitted"
    BY <1>3 DEF Dispatch
  <2>2. /\ todo # << >> /\ Range(todo) \subseteq Range(pool)
        /\ Range(todo) \cap Range(sent) = {}
    BY <1>2, <2>1 DEF LadderInv, Looping, Climbed, Rest
  <2>3. Head(todo) \in Range(todo)
    BY <1>2, <2>2, HeadInRange
  <2>4. QED
    BY <1>1, <2>2, <2>3, TryPromised
<1>4. CASE LeakDispatch(t)
  <2>1. at = "leak" /\ todo # << >> /\ t \in skipped
    BY <1>4 DEF LeakDispatch, Leakable
  <2>2. Range(todo) \subseteq Range(pool) /\ Range(sent) \cap skipped = {}
    BY <1>2, <2>1 DEF LadderInv, Leaking, Leaks
  <2>3. Head(todo) \in Range(todo)
    BY <1>2, <2>1, HeadInRange
  <2>4. QED
    BY <1>1, <2>1, <2>2, <2>3, TryPromised
<1>5. QED
  BY <1>3, <1>4

LEMMA AcceptPromised ==
  ASSUME FetchInv, HandInv, step = "ladder", NEW t \in Tiers, Accept(t),
         UNCHANGED << mode, pin, page, result >>
  PROVE  Promise!Bring(t)
<1>1. at = "rendering" /\ t = Head(todo) /\ sent' = sent
      /\ answer' = Ok(t, "good", Decision(t))
  BY DEF Accept
<1>2. t \in Range(sent)
  BY <1>1 DEF FetchInv, LadderInv, Looping, Climbed
<1>3. Kept' = [ tier |-> t, body |-> "good" ]
  BY <1>1, OkFields DEF Kept
<1>4. QED
  BY <1>1, <1>2, <1>3, BringPromised DEF TierBodies

LEMMA RejectPromised ==
  ASSUME FetchInv, HandInv, step = "ladder", NEW t \in Tiers, Reject(t),
         UNCHANGED << mode, pin, page, result >>
  PROVE  Promise!Bring(t) \/ UNCHANGED Promise!promiseVars
<1>1. at = "rendering" /\ t = Head(todo) /\ sent' = sent /\ answer' = answer
  BY DEF Reject
<1>2. PICK b \in TierBodies : thin' \in Keep(t, b)
  BY DEF Reject
<1>3. t \in Range(sent)
  BY <1>1 DEF FetchInv, LadderInv, Looping, Climbed
<1>4. Kept = thin /\ Kept' = thin'
  BY <1>1 DEF HandInv, Kept
<1>5. CASE thin' = thin
  BY <1>1, <1>4, <1>5, SameView
<1>6. CASE thin' = [ tier |-> t, body |-> b ]
  BY <1>1, <1>3, <1>4, <1>6, BringPromised
<1>7. QED
  BY <1>2, <1>5, <1>6 DEF Keep

LEMMA LeakPromised ==
  ASSUME FetchInv, HandInv, step = "ladder", NEW t \in Tiers, LeakEnd(t),
         UNCHANGED << mode, pin, page, result >>
  PROVE  Promise!Bring(t) \/ UNCHANGED Promise!promiseVars
<1>1. at = "leaking" /\ t = Head(todo) /\ sent' = sent
  BY DEF LeakEnd
<1>2. t \in Range(sent)
  BY <1>1 DEF FetchInv, LadderInv, Leaking, Leaks
<1>3. CASE answer' = Ok(t, "good", "AutoDefault")
  <2>1. Kept' = [ tier |-> t, body |-> "good" ]
    BY <1>3, OkFields DEF Kept
  <2>2. QED
    BY <1>1, <1>2, <2>1, BringPromised DEF TierBodies
<1>4. CASE answer' = answer /\ \E b \in TierBodies : thin' = [ tier |-> t, body |-> b ]
  <2>1. PICK b \in TierBodies : thin' = [ tier |-> t, body |-> b ]
    BY <1>4
  <2>2. Kept' = [ tier |-> t, body |-> b ]
    BY <1>1, <1>4, <2>1 DEF HandInv, Kept
  <2>3. QED
    BY <1>1, <1>2, <2>2, BringPromised
<1>5. CASE answer' = answer /\ thin' = thin
  <2>1. Kept' = Kept
    BY <1>5 DEF Kept
  <2>2. QED
    BY <1>1, <2>1, SameView
<1>6. QED
  BY <1>3, <1>4, <1>5 DEF LeakEnd

(* The tail hands on what was in hand already.                               *)
LEMMA ConcludePromised ==
  ASSUME FetchInv, HandInv, step = "ladder", Conclude,
         UNCHANGED << mode, pin, page, result >>
  PROVE  UNCHANGED Promise!promiseVars
<1>1. at # "answered" /\ answer' = Best /\ sent' = sent /\ thin' = thin
  BY DEF Conclude
<1>2. Kept = thin
  BY <1>1 DEF HandInv, Kept
<1>3. LadderInv /\ thin \in Thins
  BY DEF FetchInv, LadderInv, LadderTyped
<1>4. CASE thin # None
  <2>1. thin = [ tier |-> thin.tier, body |-> thin.body ]
    BY <1>3, <1>4 DEF Thins
  <2>2. Kept' = [ tier |-> thin.tier, body |-> thin.body ]
    BY <1>1, <1>3, <1>4, BestFields DEF Kept
  <2>3. QED
    BY <1>1, <1>2, <2>1, <2>2, SameView
<1>5. CASE thin = None
  <2>1. Kept' = thin
    BY <1>1, <1>3, <1>5, BestFields DEF Kept
  <2>2. QED
    BY <1>1, <1>2, <2>1, SameView
<1>6. QED
  BY <1>4, <1>5

LEMMA ClimbingPromised ==
  ASSUME FetchInv, HandInv, Climbing
  PROVE  [Promise!PromiseNext]_(Promise!promiseVars)
<1>1. step = "ladder" /\ LadderStep /\ UNCHANGED << mode, pin, page, result >>
  BY DEF Climbing, fetchVars
<1>2. CASE \/ \E t \in Tiers : SkipSolver(t) \/ Starve(t) \/ BreakerSkip(t) \/ BreakerGrant(t)
                               \/ TierFails(t)
           \/ EnterLeak \/ LeakSkip \/ Drain
  <2>1. sent' = sent /\ thin' = thin /\ answer' = answer
    BY <1>2 DEF SkipSolver, Starve, BreakerSkip, BreakerGrant, TierFails, EnterLeak, LeakSkip,
       Drain
  <2>2. Kept' = Kept
    BY <2>1 DEF Kept
  <2>3. QED
    BY <1>1, <2>1, <2>2, SameView
<1>3. CASE \E t \in Tiers : Dispatch(t) \/ LeakDispatch(t)
  BY <1>1, <1>3, DispatchPromised DEF Promise!PromiseNext
<1>4. CASE \E t \in Tiers : Accept(t)
  BY <1>1, <1>4, AcceptPromised DEF Promise!PromiseNext
<1>5. CASE \E t \in Tiers : Reject(t) \/ LeakEnd(t)
  BY <1>1, <1>5, RejectPromised, LeakPromised DEF Promise!PromiseNext
<1>6. CASE Conclude
  BY <1>1, <1>6, ConcludePromised
<1>7. QED
  BY <1>1, <1>2, <1>3, <1>4, <1>5, <1>6 DEF LadderStep

(* What the ladder came to is handed over, replaced by the page, or an error. *)
LEMMA SettlePromised ==
  ASSUME FetchInv, HandInv, Settle
  PROVE  Promise!PromiseNext
<1>1. /\ step = "ladder" /\ at = "answered" /\ UNCHANGED << mode, pin, page, ladderVars >>
  BY DEF Settle
<1>2. page # NoPage /\ mode # "http" /\ answer.is \in {"ok", "err"}
  BY <1>1 DEF HandInv, FetchInv, LadderInv, LadderTyped, LadderAnswers, Concluded
<1>3. answer.is = "err" => Kept = Promise!Nothing
  BY <1>1 DEF Kept, FetchInv, LadderInv, Concluded, None, Promise!Nothing
<1>4. answer.is = "ok" => /\ Kept.tier = answer.tier /\ Kept.body = answer.body
                          /\ Kept # Promise!Nothing
  <2>1. answer.is = "ok" => answer.body # "none"
    BY <1>1 DEF HandInv, TierBodies
  <2>2. answer.is = "ok" => Kept = [ tier |-> answer.tier, body |-> answer.body ]
    BY DEF Kept
  <2>3. QED
    BY <2>1, <2>2 DEF Promise!Nothing
<1>5. CASE /\ answer.is = "ok" /\ (Erred \/ ~Demoted)
           /\ result' = Success("ladder", answer.tier, answer.body, FALSE)
  <2>1. ~Promise!Worthless
    BY <1>2, <1>4, <1>5, HttpSideFacts DEF Promise!Worthless, Demoted, Pinned
  <2>2. Told' = Promise!Reply("ok", "ladder", Kept.tier, Kept.body, FALSE)
    BY <1>4, <1>5, ToldSuccess
  <2>3. Promise!HandOver
    BY <1>1, <1>4, <1>5, <2>1, <2>2, SayingIt DEF Promise!HandOver
  <2>4. QED
    BY <2>3 DEF Promise!PromiseNext
<1>6. CASE /\ answer.is = "err" /\ (Erred \/ FailClosed)
           /\ \E e : result' = Failure(e)
  <2>1. HttpSide = "page" => pin # "auto"
    BY <1>2, <1>6, HttpSideFacts DEF FailClosed, Pinned
  <2>2. Promise!GiveUp
    BY <1>1, <1>2, <1>3, <1>6, <2>1, ToldFailure, SayingIt DEF Promise!GiveUp
  <2>3. QED
    BY <2>2 DEF Promise!PromiseNext
<1>7. CASE /\ ~Erred /\ ~FailClosed /\ (answer.is = "err" \/ Demoted)
           /\ result' = Success("http", "none", "page", TRUE)
  <2>1. HttpSide = "page" /\ pin = "auto"
    BY <1>2, <1>7, HttpSideFacts DEF FailClosed, Pinned
  <2>2. Kept = Promise!Nothing \/ Promise!Worthless
    BY <1>2, <1>3, <1>4, <1>7, <2>1 DEF Promise!Worthless, Demoted
  <2>3. Promise!FallBack
    BY <1>1, <1>2, <1>7, <2>1, <2>2, ToldSuccess, SayingIt DEF Promise!FallBack
  <2>4. QED
    BY <2>3 DEF Promise!PromiseNext
<1>8. ~(FailClosed /\ Demoted)
  BY DEF FailClosed, Demoted
<1>9. QED
  BY <1>2, <1>5, <1>6, <1>7, <1>8 DEF Settle, Done, FallbackTag

LEMMA StepPromised ==
  ASSUME FetchInv, HandInv, [FetchNext]_requestVars
  PROVE  [Promise!PromiseNext]_(Promise!promiseVars)
<1>1. CASE Admit
  <2>1. step = "limiter" /\ UNCHANGED << mode, pin, page, ladderVars >>
        /\ (result' = result \/ result' = Failure("timeout"))
    BY <1>1 DEF Admit, Done
  <2>2. CASE result' = result
    <3>1. Kept' = Kept /\ sent' = sent
      BY <2>1 DEF Kept, ladderVars
    <3>2. QED
      BY <2>1, <2>2, <3>1, SameView
  <2>3. CASE result' = Failure("timeout")
    <3>1. page = NoPage /\ at = "idle"
      BY <2>1 DEF HandInv, FetchInv, Staged
    <3>2. QED
      BY <2>1, <2>3, <3>1, EarlyFailure DEF Promise!PromiseNext
  <2>4. QED
    BY <2>1, <2>2, <2>3
<1>2. CASE PinnedHop
  <2>1. /\ step = "http" /\ pin = "impersonated-http" /\ UNCHANGED << mode, pin, page, ladderVars >>
        /\ \/ result' = Success("hop", "none", "page", FALSE)
           \/ \E e : result' = Failure(e)
    BY <1>2 DEF PinnedHop, Done
  <2>2. page = NoPage /\ at = "idle"
    BY <2>1 DEF HandInv, FetchInv, Staged
  <2>3. QED
    BY <2>1, <2>2, EarlyHop, EarlyFailure DEF Promise!PromiseNext
<1>3. CASE HttpFetch
  BY <1>3, HttpPromised DEF Promise!PromiseNext
<1>4. ASSUME Judging
      PROVE  /\ page # NoPage /\ at = "idle" /\ step # "done" /\ step = "judge"
             /\ pin # "impersonated-http"
  BY <1>4 DEF Judging, HandInv, FetchInv, Staged
<1>5. CASE HttpOnly
  <2>1. /\ Judging /\ UNCHANGED << mode, pin, page, ladderVars >>
        /\ \/ Erred /\ \E e : result' = Failure(e)
           \/ ~Erred /\ result' = Success("http", "none", "page", FALSE)
    BY <1>5 DEF HttpOnly, Done
  <2>2. QED
    BY <1>4, <2>1, EarlyFailure, EarlyPage DEF Promise!PromiseNext
<1>6. CASE Hop
  <2>1. /\ Judging /\ UNCHANGED << mode, pin, page, ladderVars >>
        /\ result' = Success("hop", "none", "good", FALSE)
    BY <1>6 DEF Hop, Done
  <2>2. QED
    BY <1>4, <2>1, EarlyHop DEF Promise!PromiseNext
<1>7. CASE HttpFailed
  <2>1. /\ Judging /\ Erred /\ UNCHANGED << mode, pin, page >>
        /\ \/ Climb(pin, FALSE, tracked) /\ result' = result
           \/ (\E e : result' = Failure(e)) /\ UNCHANGED ladderVars
    BY <1>7 DEF HttpFailed, Done
  <2>2. QED
    BY <1>4, <2>1, ClimbPromised, EarlyFailure DEF Promise!PromiseNext
<1>8. CASE HttpAnswered
  <2>1. /\ Judging /\ ~Erred /\ UNCHANGED << mode, pin, page >>
        /\ \/ Climb(pin, Hint, tracked) /\ result' = result
           \/ result' = Success("http", "none", "page", FALSE) /\ UNCHANGED ladderVars
    BY <1>8 DEF HttpAnswered, Done
  <2>2. QED
    BY <1>4, <2>1, ClimbPromised, EarlyPage DEF Promise!PromiseNext
<1>9. CASE Climbing
  BY <1>9, ClimbingPromised
<1>10. CASE Settle
  BY <1>10, SettlePromised
<1>11. CASE UNCHANGED requestVars
  <2>1. Kept' = Kept /\ sent' = sent /\ UNCHANGED << mode, pin, page, result >>
    BY <1>11 DEF requestVars, fetchVars, ladderVars, Kept
  <2>2. QED
    BY <2>1, SameView
<1>12. QED
  BY <1>1, <1>2, <1>3, <1>5, <1>6, <1>7, <1>8, <1>9, <1>10, <1>11 DEF FetchNext

LEMMA PromiseInitially == FetchInit => Promise!PromiseInit
<1> SUFFICES ASSUME FetchInit PROVE Promise!PromiseInit
  OBVIOUS
<1>1. page = NoPage /\ result = Pending /\ sent = << >> /\ thin = None /\ answer = Unanswered
  BY DEF FetchInit
<1>2. HttpSide = "awaited" /\ Told = Promise!Silence
  BY <1>1, HttpSideFacts, SilentTold
<1>3. Kept = None
  BY <1>1, SilentAnswer DEF Kept
<1>4. Range(sent) = {}
  BY <1>1, NoneInEmpty
<1>5. QED
  BY <1>2, <1>3, <1>4 DEF Promise!PromiseInit, None, Promise!Nothing

(* KeepsFetchPromise: whatever ladder is climbed, under whatever breakers and *)
(* budget, a request is answered once, by what a tier it was sent to really   *)
(* brought, by plain HTTP's page or the hop's, and by an error only when no   *)
(* tier brought a body and no page may stand in.                              *)
THEOREM ImplementsPromise == FetchSpec => KeepsFetchPromise
<1>1. FetchInit => HandInv /\ Promise!PromiseInit
  BY HandInitially, PromiseInitially
<1>2. FetchInv /\ HandInv /\ [FetchNext]_requestVars => HandInv'
  BY HandStepKeeps
<1>3. FetchInv /\ HandInv /\ [FetchNext]_requestVars => [Promise!PromiseNext]_(Promise!promiseVars)
  BY StepPromised
<1>4. QED
  BY <1>1, <1>2, <1>3, FetchInductive, PTL DEF FetchSpec, KeepsFetchPromise, Promise!PromiseSpec
=============================================================================
