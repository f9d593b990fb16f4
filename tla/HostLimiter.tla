----------------------------- MODULE HostLimiter -----------------------------
(***************************************************************************)
(* host_limiter.rs and its one caller, the head of FallbackRenderer::fetch: *)
(* per host a semaphore of Cap permits and a pacer that spaces the starts   *)
(* of requests, both behind an entry that is dropped once it was not asked  *)
(* for in Ttl.                                                              *)
(*                                                                          *)
(* Instants are kept relative to now, so that no run needs a bound on time: *)
(* lim[l].due is last_request - now, entry[h].idle is now - last_used.      *)
(***************************************************************************)
EXTENDS Integers, Sequences, FiniteSets, SequencesExt

CONSTANTS
  Requests,   \* fetches in flight at the same time
  Hosts,      \* normalised host keys (eTLD+1)
  Limiters,   \* identities of the (pacer, semaphore) pairs
  Cap,        \* per_host_max_concurrent, at least 1
  Interval,   \* min_interval, in ticks: 1 / requests_per_second
  Deadline,   \* longest time a fetch may take, in ticks
  Ttl,        \* RATE_LIMITER_TTL, in ticks
  GcEvery,    \* every GcEvery-th call collects (64)
  None        \* no limiter, no host

ASSUME CapAssumption == Cap \in Nat \ {0}

ASSUME TimesAssumption ==
  /\ Interval \in Nat
  /\ Deadline \in Nat
  /\ GcEvery \in Nat \ {0}

(* An hour against a deadline of minutes at most and an interval of a fraction *)
(* of a second: an entry outlives its holders and what its pacer remembers.    *)
ASSUME TtlAssumption == Ttl \in Nat /\ Ttl > Deadline /\ Ttl >= Deadline + Interval

(* Enough identities for one pair per host and one per request in flight. *)
ASSUME LimitersAssumption ==
  /\ IsFiniteSet(Requests)
  /\ IsFiniteSet(Hosts)
  /\ IsFiniteSet(Limiters)
  /\ Cardinality(Limiters) > Cardinality(Requests) + Cardinality(Hosts)
  /\ None \notin Limiters \cup Hosts

VARIABLES
  entry,      \* DOMAIN_RATE_LIMITERS: the pair of each host and its idle time
  lim,        \* each pair: when its pacer is due, who waits for its semaphore
  calls,      \* LIMITER_CALL_COUNT, modulo GcEvery
  req,        \* where each request stands
  since       \* history: time since the last start on each host

vars == << entry, lim, calls, req, since >>

Least(a, b) == IF a < b THEN a ELSE b
Greatest(a, b) == IF a < b THEN b ELSE a

(* Unused fetches.  left: what remains of the deadline.  nap: how long it   *)
(* still sleeps before it starts.                                           *)
Away == [ at |-> "away", lim |-> None, left |-> 0, nap |-> 0 ]

(* Has a permit of its pair: the permit lives until the fetch returns. *)
Holding(r) == req[r].at \in {"pacing", "fetching"}

HoldersOf(l) == { r \in Requests : req[r].lim = l /\ Holding(r) }

HostOf(l) == lim[l].host

(* RateLimiter::new backdates last_request by one interval. *)
NewPair(h) == [ host |-> h, due |-> -Interval, queue |-> << >> ]

Unused(l) ==
  /\ \A h \in Hosts : entry[h].lim # l
  /\ \A r \in Requests : req[r].lim # l

-----------------------------------------------------------------------------

Init ==
  /\ entry = [ h \in Hosts |-> [ lim |-> None, idle |-> Ttl ] ]
  /\ lim = [ l \in Limiters |-> NewPair(None) ]
  /\ calls = 0
  /\ req = [ r \in Requests |-> Away ]
  /\ since = [ h \in Hosts |-> Interval ]

(* Mutant: whatever was not asked for since the last tick is dropped. *)
MutExpired(e) == e.lim # None /\ e.idle > 0

(* The retain of the collection drops it. *)
Expired(e) == e.idle >= Ttl

(* and_modify sets last_used, or_insert_with creates it. *)
Touched(e, l) == [ lim |-> l, idle |-> 0 ]

(* get_host_limiter: every GcEvery-th call collects, then the entry of h is *)
(* used or created; acquire then joins the queue of its semaphore.          *)
Ask(r, h) ==
  LET swept == [ k \in Hosts |->
        IF calls = 0 /\ Expired(entry[k]) THEN [ lim |-> None, idle |-> Ttl ] ELSE entry[k] ]
      fresh == CHOOSE l \in Limiters : Unused(l)
      l     == IF swept[h].lim = None THEN fresh ELSE swept[h].lim
      pair  == IF swept[h].lim = None THEN NewPair(h) ELSE lim[l]
  IN  /\ req[r].at = "away"
      /\ calls' = (calls + 1) % GcEvery
      /\ entry' = [ swept EXCEPT ![h] = Touched(@, l) ]
      /\ lim' = [ lim EXCEPT ![l] = [ pair EXCEPT !.queue = Append(@, r) ] ]
      /\ \E d \in 1 .. Deadline :
           req' = [ req EXCEPT ![r] = [ at |-> "queued", lim |-> l, left |-> d, nap |-> 0 ] ]
      /\ UNCHANGED since

(* Mutant: it waits for the reserved start and not an interval more. *)
MutNextSleep(due) == Greatest(due, 0)

(* Mutant: reservations queue up one interval after the other. *)
MutQueued(due) == Greatest(due + Interval, 0)

(* RateLimiter::next_sleep: elapsed() is zero for an instant still to come. *)
NextSleep(due) ==
  LET elapsed == Greatest(-due, 0)
  IN  IF elapsed < Interval THEN Interval - elapsed ELSE 0

(* Mutant: a permit too many. *)
MutPermitFree(l) == Cardinality(HoldersOf(l)) <= Cap

PermitFree(l) == Cardinality(HoldersOf(l)) < Cap

(* The semaphore serves its queue in order.  With the permit the request     *)
(* reserves its start; a nap longer than its budget makes it give the permit *)
(* back, and the reservation stays.                                          *)
Admit(r) ==
  LET l   == req[r].lim
      nap == NextSleep(lim[l].due)
  IN  /\ req[r].at = "queued"
      /\ Head(lim[l].queue) = r
      /\ PermitFree(l)
      /\ lim' = [ lim EXCEPT ![l].queue = Tail(@), ![l].due = nap ]
      /\ req' = [ req EXCEPT ![r] =
           IF nap > @.left THEN Away ELSE [ @ EXCEPT !.at = "pacing", !.nap = nap ] ]
      /\ UNCHANGED << entry, calls, since >>

(* The nap is over and the fetch goes out. *)
Start(r) ==
  /\ req[r].at = "pacing"
  /\ req[r].nap = 0
  /\ req' = [ req EXCEPT ![r].at = "fetching" ]
  /\ since' = [ since EXCEPT ![HostOf(req[r].lim)] = 0 ]
  /\ UNCHANGED << entry, lim, calls >>

(* The fetch returns, times out in the queue, or its future is dropped at    *)
(* any await: the permit or the place in the queue goes with it.             *)
Leave(r) ==
  /\ req[r].at # "away"
  /\ lim' = [ lim EXCEPT ![req[r].lim].queue = RemoveFirst(@, r) ]
  /\ req' = [ req EXCEPT ![r] = Away ]
  /\ UNCHANGED << entry, calls, since >>

(* Time passes.  Every phase of a fetch is cut at its deadline and a nap ends *)
(* on time, so time waits for both: timers are exact to the tick.             *)
Tick ==
  /\ \A r \in Requests : req[r].at # "away" => req[r].left > 0
  /\ \A r \in Requests : req[r].at = "pacing" => req[r].nap > 0
  /\ entry' = [ h \in Hosts |-> [ entry[h] EXCEPT !.idle = Least(@ + 1, Ttl) ] ]
  /\ lim' = [ l \in Limiters |-> [ lim[l] EXCEPT !.due = Greatest(@ - 1, -Interval) ] ]
  /\ req' = [ r \in Requests |->
       [ req[r] EXCEPT !.left = Greatest(@ - 1, 0), !.nap = Greatest(@ - 1, 0) ] ]
  /\ since' = [ h \in Hosts |-> Least(since[h] + 1, Interval) ]
  /\ UNCHANGED calls

Next ==
  \/ \E r \in Requests, h \in Hosts : Ask(r, h)
  \/ \E r \in Requests : Admit(r) \/ Start(r) \/ Leave(r)
  \/ Tick

Spec == Init /\ [][Next]_vars

-----------------------------------------------------------------------------

(* Every variable keeps its type.  A pacer is never due later than one       *)
(* interval from now: an abandoned reservation delays the next request by    *)
(* one interval at most (host_limiter.rs next_sleep).                        *)
TypeOK ==
  /\ entry \in [ Hosts -> [ lim : Limiters \cup {None}, idle : 0 .. Ttl ] ]
  /\ lim \in [ Limiters ->
       [ host : Hosts \cup {None}, due : -Interval .. Interval, queue : Seq(Requests) ] ]
  /\ calls \in 0 .. GcEvery - 1
  /\ req \in [ Requests ->
       [ at   : {"away", "queued", "pacing", "fetching"},
         lim  : Limiters \cup {None},
         left : 0 .. Deadline,
         nap  : 0 .. Interval ] ]
  /\ since \in [ Hosts -> 0 .. Interval ]

(* Never more than Cap fetches of one host hold a permit, although the entry *)
(* that owns the semaphore is dropped and created again behind the backs of  *)
(* the requests that hold its permits (host_limiter.rs get_host_limiter).    *)
HostCap ==
  \A h \in Hosts :
    Cardinality({ r \in Requests : Holding(r) /\ HostOf(req[r].lim) = h }) <= Cap

(* The types, and the cap that outlives the entries (get_host_limiter).      *)
LimiterIsSound == TypeOK /\ HostCap

(* The pair a request waits for or holds is the one its host's entry names:  *)
(* nobody is served by a limiter the map has forgotten.                      *)
OneLimiter ==
  \A r \in Requests : req[r].at # "away" =>
    /\ req[r].lim \in Limiters
    /\ entry[HostOf(req[r].lim)].lim = req[r].lim

(* Two fetches of one host start at least Interval apart: host_limiter.rs:5  *)
(* calls the pacer "interval enforcement".                                   *)
Spacing ==
  [][ \A r \in Requests :
        (req[r].at = "pacing" /\ req'[r].at = "fetching")
          => since[HostOf(req[r].lim)] >= Interval ]_vars

(* The line of a host is the queue of the pair its entry names. *)
LineOf(h) == IF entry[h].lim = None THEN << >> ELSE lim[entry[h].lim].queue

ServedAt(h) == { r \in Requests : Holding(r) /\ HostOf(req[r].lim) = h }

Lines == INSTANCE HostLines
  WITH line <- [ h \in Hosts |-> LineOf(h) ], served <- [ h \in Hosts |-> ServedAt(h) ]

(* The entries that come and go never show: each host has one line, nobody   *)
(* in it is overtaken, and nobody vanishes from it, although the entry that  *)
(* owns its semaphore is collected while others queue (get_host_limiter).    *)
KeepsLines == Lines!LinesSpec
=============================================================================
