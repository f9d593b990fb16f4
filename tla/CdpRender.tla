------------------------------ MODULE CdpRender ------------------------------
(***************************************************************************)
(* cdp.rs, the renders that own their connection: fetch_with_ws, fetch_inner *)
(* and its pumps, and the guard that reaps the target.  The render drives a   *)
(* browser target through a fixed sequence of commands; from Page.navigate    *)
(* on, a pump answers every request the browser pauses and takes in every     *)
(* child target that attaches; the caller's timeout may drop it all at any    *)
(* await.  The browser is modelled by what the code relies on: a session      *)
(* with Fetch on pauses its requests, a session with auto-attach on starts    *)
(* its children frozen.  A command may fail with or without its effect.        *)
(***************************************************************************)
EXTENDS Integers, Sequences, FiniteSets

CONSTANTS
  Kids,         \* child targets: out-of-process frames, workers
  Reqs,         \* requests of the page and of its children
  ParentOf,     \* session a child is attached under
  SessionOf,    \* session a request belongs to
  HostOf,       \* host a request goes to
  Page,         \* session of the render's own target
  Doc,          \* host of the navigated url
  RingCap,      \* EVENT_CHANNEL_CAPACITY
  MaxRetries    \* CHALLENGE_MAX_RETRIES

ASSUME RenderAssumption ==
  /\ Page \notin Kids
  /\ ParentOf \in [ Kids -> Kids \cup {Page} ]
  /\ SessionOf \in [ Reqs -> Kids \cup {Page} ]
  /\ RingCap \in Nat \ {0}
  /\ MaxRetries \in Nat

VARIABLES
  main,      \* the render: its step, the page it has, its outcome
  target,    \* the render's target in the browser
  recorded,  \* target_recorder has the target's id
  reaper,    \* the task that closes target and socket
  session,   \* each session in the browser: is it running, Fetch, auto-attach
  net,       \* each request in the browser
  pump,      \* the intercept pump: its events, its sessions, its handlers
  check,     \* OutboundCtx and `outstanding`
  hist       \* what checks came to, for the properties

vars == << main, target, recorded, reaper, session, net, pump, check, hist >>

Sessions == Kids \cup {Page}
Hosts == { HostOf[r] : r \in Reqs } \cup {Doc}

(* What the page reads: "fault" is the browser's own page about a failed        *)
(* navigation.                                                                   *)
Kinds == {"empty", "placeholder", "challenge", "page", "fault"}

(* The commands before navigation.  Those in Optional may fail; a browser     *)
(* that does not know setAutoAttach may reject it.                             *)
Setup == << "create", "attach", "page", "network", "runtime", "stealth",
            "agent", "headers", "intercept", "children", "navigate" >>
Optional == {"agent", "headers"}
Phase == {"consent", "settle", "eval", "stabilise", "scroll", "reveal", "challenge"}
Working == {"navigate", "ready"} \cup Phase \cup {"stop", "snapshot"}

InSetup(pc) == \E i \in 1..(Len(Setup) - 1) : Setup[i] = pc
After(pc) == Setup[(CHOOSE i \in 1..Len(Setup) : Setup[i] = pc) + 1]

NoPump == [ ring |-> << >>, ours |-> {}, kid |-> [ k \in Kids |-> "none" ],
            req |-> [ r \in Reqs |-> "none" ] ]

Init ==
  /\ \E p \in BOOLEAN :
       main = [ pc |-> "connect", html |-> "empty", cut |-> FALSE, tries |-> 0,
                res |-> "none", pinned |-> p, sent |-> FALSE ]
  /\ target = "none"
  /\ recorded = FALSE
  /\ reaper = "none"
  /\ session = [ s \in Sessions |-> [ st |-> "none", fetch |-> FALSE, auto |-> FALSE ] ]
  /\ net = [ r \in Reqs |-> "idle" ]
  /\ pump = NoPump
  /\ check = [ memo |-> {}, unresolved |-> FALSE, auth |-> FALSE, outstanding |-> {} ]
  /\ hist = [ made |-> FALSE, taken |-> {}, allowed |-> {}, undecided |-> {}, read |-> FALSE ]

Go(pc) == main' = [ main EXCEPT !.pc = pc ]
Advance(pc) ==
  main' = [ main EXCEPT !.pc = After(pc), !.sent = After(pc) = "navigate" ]
Fail(pc, why) == main' = [ main EXCEPT !.pc = pc, !.res = why ]

PumpRuns == main.pc \in Working

-----------------------------------------------------------------------------
(* fetch_with_ws and the commands before navigation *)

(* connect_with_retry: on failure the cached url is dropped, once. *)
Connect ==
  /\ main.pc = "connect"
  /\ main' \in { [ main EXCEPT !.pc = "create" ], [ main EXCEPT !.pc = "reconnect" ] }
  /\ UNCHANGED << target, recorded, reaper, session, net, pump, check, hist >>

Reconnect ==
  /\ main.pc = "reconnect"
  /\ \/ Go("create")
     \/ Fail("over", "error")
  /\ UNCHANGED << target, recorded, reaper, session, net, pump, check, hist >>

(* Mutant: the id is recorded only by a render that gets to the end. *)
MutCreateTarget ==
  /\ main.pc = "create"
  /\ target' = "open"
  /\ hist' = [ hist EXCEPT !.made = TRUE ]
  /\ Go("attach")
  /\ UNCHANGED << recorded, reaper, session, net, pump, check >>

(* createTarget; its answer is recorded in the same poll. *)
CreateTarget ==
  /\ main.pc = "create"
  /\ target' = "open"
  /\ recorded' = TRUE
  /\ hist' = [ hist EXCEPT !.made = TRUE ]
  /\ Go("attach")
  /\ UNCHANGED << reaper, session, net, pump, check >>

CreateTargetFails ==
  /\ main.pc = "create"
  /\ target' \in {"none", "open"}
  /\ Fail("finish", "error")
  /\ UNCHANGED << recorded, reaper, session, net, pump, check, hist >>

Does(pc) ==
  CASE pc = "attach"    -> [ session EXCEPT ![Page].st = "run" ]
    [] pc = "intercept" -> [ session EXCEPT ![Page].fetch = TRUE ]
    [] pc = "children"  -> [ session EXCEPT ![Page].auto = TRUE ]
    [] OTHER            -> session

(* attachToTarget up to setAutoAttach *)
SetUp ==
  /\ InSetup(main.pc) /\ main.pc # "create"
  /\ session' = Does(main.pc)
  /\ Advance(main.pc)
  /\ UNCHANGED << target, recorded, reaper, net, pump, check, hist >>

Tolerated(pc) == pc \in Optional

SetUpFails ==
  /\ InSetup(main.pc) /\ main.pc # "create"
  /\ session' \in {session, Does(main.pc)}
  /\ IF Tolerated(main.pc) THEN Advance(main.pc) ELSE Fail("finish", "error")
  /\ UNCHANGED << target, recorded, reaper, net, pump, check, hist >>

(* A browser without auto-attach answers with a protocol error. *)
AutoAttachRejected ==
  /\ main.pc = "children"
  /\ Advance(main.pc)
  /\ UNCHANGED << target, recorded, reaper, session, net, pump, check, hist >>

-----------------------------------------------------------------------------
(* navigation and what follows it, in a race with the pumps *)

(* Work is over: the pumps and their handlers are dropped where they stand. *)
Stop(next) == main' = next /\ pump' = NoPump

(* An error of the work, blamed on the check or on the proxy's credentials. *)
Blamed(why) ==
  IF check.unresolved THEN "unchecked"
  ELSE IF why = "timeout" /\ check.auth THEN "auth"
  ELSE why

WorkFails(why) == Stop([ main EXCEPT !.pc = "leftover", !.res = Blamed(why) ])

Navigate ==
  /\ main.pc = "navigate"
  /\ \/ Go("ready") /\ UNCHANGED pump
     \/ WorkFails("error") \/ WorkFails("timeout")
  /\ UNCHANGED << target, recorded, reaper, session, net, check, hist >>

(* wait_for_page_ready: the load event, a crash, or page_timeout. *)
Ready ==
  /\ main.pc = "ready"
  /\ \/ Go("consent") /\ UNCHANGED pump
     \/ WorkFails("error") \/ WorkFails("timeout")
  /\ UNCHANGED << target, recorded, reaper, session, net, check, hist >>

(* dismiss_consent and the wait before the first look are best effort. *)
Settle ==
  /\ main.pc \in {"consent", "settle"}
  /\ Go(IF main.pc = "consent" /\ ~main.pinned THEN "settle" ELSE "eval")
  /\ UNCHANGED << target, recorded, reaper, session, net, pump, check, hist >>

(* eval_html, then the next step. *)
Look(next) ==
  \/ \E h \in Kinds : main' = [ main EXCEPT !.pc = next, !.html = h ] /\ UNCHANGED pump
  \/ WorkFails("error") \/ WorkFails("timeout")

Snapshot ==
  /\ main.pc = "eval"
  /\ Look("stabilise")
  /\ UNCHANGED << target, recorded, reaper, session, net, check, hist >>

(* poll_until_content_stable, whose own failure is only logged. *)
Stabilise ==
  /\ main.pc = "stabilise"
  /\ IF main.html = "placeholder" /\ ~main.pinned
     THEN \E h \in Kinds : main' = [ main EXCEPT !.pc = "scroll", !.html = h ]
     ELSE Go("scroll")
  /\ UNCHANGED << target, recorded, reaper, session, net, pump, check, hist >>

(* auto_scroll and auto_click_reveal, for pages that show the marks of it. *)
NextStep(pc) == IF pc = "scroll" THEN "reveal" ELSE "challenge"

Unfold ==
  /\ main.pc \in {"scroll", "reveal"}
  /\ \/ Go(NextStep(main.pc)) /\ UNCHANGED pump
     \/ /\ ~main.pinned /\ main.html = "page"
        /\ Look(NextStep(main.pc))
  /\ UNCHANGED << target, recorded, reaper, session, net, check, hist >>

(* A challenge page is looked at again until it clears or the retries end. *)
Retrying == main.html = "challenge" /\ main.tries < MaxRetries

Challenge ==
  /\ main.pc = "challenge"
  /\ IF Retrying
     THEN \/ /\ \E h \in Kinds :
                  main' = [ main EXCEPT !.tries = @ + 1, !.html = h ]
             /\ UNCHANGED pump
          \/ WorkFails("error") \/ WorkFails("timeout")
     ELSE Stop([ main EXCEPT !.pc = "leftover" ])
  /\ UNCHANGED << target, recorded, reaper, session, net, check, hist >>

(* nav_budget runs out inside post_navigate_phase: a last look at the page. *)
BudgetEnds ==
  /\ main.pc \in Phase
  /\ Go("stop")
  /\ UNCHANGED << target, recorded, reaper, session, net, pump, check, hist >>

StopLoading ==
  /\ main.pc = "stop"
  /\ Go("snapshot")
  /\ UNCHANGED << target, recorded, reaper, session, net, pump, check, hist >>

LastLook ==
  /\ main.pc = "snapshot"
  /\ \E h \in Kinds :
       Stop([ main EXCEPT !.pc = "leftover", !.html = h, !.cut = TRUE ])
  /\ UNCHANGED << target, recorded, reaper, session, net, check, hist >>

(* Requests whose check was under way are failed, as far as that gets.  There *)
(* is no Fetch.disable.                                                        *)
(* Mutant: interception is turned off first, which lets paused requests go. *)
MutLeftover ==
  /\ main.pc = "leftover"
  /\ net' = [ r \in Reqs |-> IF net[r] = "paused" /\ SessionOf[r] = Page THEN "out" ELSE net[r] ]
  /\ Go("href")
  /\ UNCHANGED << target, recorded, reaper, session, pump, check, hist >>

Leftover ==
  /\ main.pc = "leftover"
  /\ \E F \in SUBSET check.outstanding :
       net' = [ r \in Reqs |-> IF r \in F /\ net[r] = "paused" THEN "failed" ELSE net[r] ]
  /\ Go(IF main.res = "none" THEN "href" ELSE "finish")
  /\ UNCHANGED << target, recorded, reaper, session, pump, check, hist >>

(* eval_href, and what becomes of an empty page or the browser's own error page. *)
Verdict ==
  CASE main.html = "fault" -> "error"
    [] main.html = "empty" /\ ~main.cut -> "error"
    [] main.html = "empty" /\ main.cut -> IF check.auth THEN "auth" ELSE "timeout"
    [] OTHER -> "page"

FinalUrl ==
  /\ main.pc = "href"
  /\ Fail("finish", Verdict)
  /\ hist' = [ hist EXCEPT !.read = TRUE ]
  /\ UNCHANGED << target, recorded, reaper, session, net, pump, check >>

-----------------------------------------------------------------------------
(* WsFetchGuard *)

(* finish() spawns the reap and waits for it. *)
Finish ==
  /\ main.pc = "finish"
  /\ reaper' = "close"
  /\ Go("reap")
  /\ UNCHANGED << target, recorded, session, net, pump, check, hist >>

Reaped ==
  /\ main.pc = "reap" /\ reaper = "done"
  /\ Go("over")
  /\ UNCHANGED << target, recorded, reaper, session, net, pump, check, hist >>

(* The caller's timeout drops the render, which has no report then: the caller  *)
(* makes a Timeout of it.  createTarget may be on its way.                       *)
Guarded == main.pc \notin {"connect", "reconnect", "reap"}

Cancel ==
  /\ main.pc # "over"
  /\ main' = [ main EXCEPT !.pc = "over", !.res = "dropped" ]
  /\ pump' = NoPump
  /\ target' \in IF main.pc = "create" THEN {"none", "open"} ELSE {target}
  /\ reaper' = IF Guarded THEN "close" ELSE reaper
  /\ UNCHANGED << recorded, session, net, check, hist >>

Reap ==
  /\ reaper = "close"
  /\ reaper' = "done"
  /\ IF recorded THEN target' \in {"closed", "leaked"} ELSE UNCHANGED target
  /\ UNCHANGED << main, recorded, session, net, pump, check, hist >>

-----------------------------------------------------------------------------
(* the browser *)

Alive == target \in {"open", "leaked"} /\ reaper # "done"
Lives(s) == Alive /\ session[s].st = "run"
Loading == main.sent

(* The pump's share of the broadcast: one that is full drops its oldest. *)
Posted(e) ==
  IF ~PumpRuns THEN pump
  ELSE [ pump EXCEPT !.ring = IF Len(@) < RingCap THEN Append(@, e) ELSE Append(Tail(@), e) ]

KidStarts(k) ==
  LET p == ParentOf[k] IN
  /\ Loading /\ Lives(p) /\ session[k].st = "none"
  /\ p = Page => session[Page].auto
  /\ IF session[p].auto
     THEN session' = [ session EXCEPT ![k].st = "frozen" ] /\ pump' = Posted(<< "kid", k >>)
     ELSE session' = [ session EXCEPT ![k].st = "run" ] /\ UNCHANGED pump
  /\ UNCHANGED << main, target, recorded, reaper, net, check, hist >>

RequestStarts(r) ==
  LET s == SessionOf[r] IN
  /\ Loading /\ Lives(s) /\ net[r] = "idle"
  /\ IF session[s].fetch
     THEN net' = [ net EXCEPT ![r] = "paused" ] /\ pump' = Posted(<< "request", r >>)
     ELSE net' = [ net EXCEPT ![r] = "out" ] /\ UNCHANGED pump
  /\ UNCHANGED << main, target, recorded, reaper, session, check, hist >>

-----------------------------------------------------------------------------
(* run_intercept_pump *)

Ours(s) == s = Page \/ s \in pump.ours

TakeKid ==
  /\ PumpRuns /\ pump.ring # << >> /\ Head(pump.ring)[1] = "kid"
  /\ LET k == Head(pump.ring)[2] IN
       pump' = IF Ours(ParentOf[k])
               THEN [ pump EXCEPT !.ring = Tail(@), !.ours = @ \cup {k}, !.kid[k] = "enable" ]
               ELSE [ pump EXCEPT !.ring = Tail(@) ]
  /\ UNCHANGED << main, target, recorded, reaper, session, net, check, hist >>

(* A request on the blocklist is failed without a check. *)
TakeRequest ==
  /\ PumpRuns /\ pump.ring # << >> /\ Head(pump.ring)[1] = "request"
  /\ LET r == Head(pump.ring)[2] IN
       IF Ours(SessionOf[r])
       THEN /\ \E pc \in {"judge", "fail"} :
                 pump' = [ pump EXCEPT !.ring = Tail(@), !.req[r] = pc ]
            /\ check' = [ check EXCEPT !.outstanding = @ \cup {r} ]
            /\ hist' = [ hist EXCEPT !.taken = @ \cup {r} ]
       ELSE pump' = [ pump EXCEPT !.ring = Tail(@) ] /\ UNCHANGED << check, hist >>
  /\ UNCHANGED << main, target, recorded, reaper, session, net >>

(* The handler of a child: Fetch.enable, setAutoAttach, then resume.  If      *)
(* either fails, the child is closed instead.                                  *)
Enabled(k, pc, next, on) ==
  /\ pump.kid[k] = pc
  /\ \/ session' = on /\ pump' = [ pump EXCEPT !.kid[k] = next ]
     \/ session' \in {session, on} /\ pump' = [ pump EXCEPT !.kid[k] = "close" ]
  /\ UNCHANGED << main, target, recorded, reaper, net, check, hist >>

EnableFetch(k) == Enabled(k, "enable", "auto", [ session EXCEPT ![k].fetch = TRUE ])

(* Mutant: a child that cannot attach its own children runs all the same. *)
MutEnableAuto(k) ==
  /\ pump.kid[k] = "auto"
  /\ session' \in {session, [ session EXCEPT ![k].auto = TRUE ]}
  /\ pump' = [ pump EXCEPT !.kid[k] = "resume" ]
  /\ UNCHANGED << main, target, recorded, reaper, net, check, hist >>

EnableAuto(k) == Enabled(k, "auto", "resume", [ session EXCEPT ![k].auto = TRUE ])

Changed(k, pc, to) ==
  /\ pump.kid[k] = pc
  /\ session' \in {session, [ session EXCEPT ![k].st = to ]}
  /\ pump' = [ pump EXCEPT !.kid[k] = "none" ]
  /\ UNCHANGED << main, target, recorded, reaper, net, check, hist >>

Resume(k) == Changed(k, "resume", "run")
CloseUnguarded(k) == Changed(k, "close", "gone")

(* outbound_block_label: only leave to go is remembered. *)
Remembered(r) == HostOf[r] \in check.memo

(* Mutant: any host that cannot be resolved turns the blame. *)
MutNoted(h) == TRUE

Noted(h) == h = Doc

Judge(r) ==
  LET h == HostOf[r] IN
  /\ pump.req[r] = "judge"
  /\ \/ /\ pump' = [ pump EXCEPT !.req[r] = "continue" ]
        /\ check' = [ check EXCEPT !.memo = @ \cup {h} ]
        /\ hist' = [ hist EXCEPT !.allowed = @ \cup {h} ]
     \/ /\ ~Remembered(r)
        /\ pump' = [ pump EXCEPT !.req[r] = "fail" ]
        /\ UNCHANGED << check, hist >>
     \/ /\ ~Remembered(r)
        /\ pump' = [ pump EXCEPT !.req[r] = "fail" ]
        /\ check' = [ check EXCEPT !.unresolved = @ \/ Noted(h) ]
        /\ hist' = [ hist EXCEPT !.undecided = @ \cup {h} ]
  /\ UNCHANGED << main, target, recorded, reaper, session, net >>

(* The answer to the browser: taken, taken but not confirmed, or lost.  Only   *)
(* a confirmed one is no longer outstanding.                                   *)
Kept(r, confirmed) == IF confirmed THEN check.outstanding \ {r} ELSE check.outstanding

Answer(r) ==
  LET to == IF pump.req[r] = "continue" THEN "out" ELSE "failed" IN
  /\ pump.req[r] \in {"continue", "fail"}
  /\ \E done, confirmed \in BOOLEAN :
       /\ confirmed => done
       /\ net' = IF done THEN [ net EXCEPT ![r] = to ] ELSE net
       /\ check' = [ check EXCEPT !.outstanding = Kept(r, confirmed) ]
  /\ pump' = [ pump EXCEPT !.req[r] = "none" ]
  /\ UNCHANGED << main, target, recorded, reaper, session, hist >>

(* run_auth_pump: a challenge of the proxy that could not be answered. *)
AuthFails ==
  /\ PumpRuns
  /\ check' = [ check EXCEPT !.auth = TRUE ]
  /\ UNCHANGED << main, target, recorded, reaper, session, net, pump, hist >>

-----------------------------------------------------------------------------

Fetch ==
  \/ Connect \/ Reconnect \/ CreateTarget \/ CreateTargetFails \/ SetUp \/ SetUpFails
  \/ AutoAttachRejected \/ Navigate \/ Ready \/ Settle \/ Snapshot \/ Stabilise
  \/ Unfold \/ Challenge \/ BudgetEnds \/ StopLoading \/ LastLook \/ Leftover
  \/ FinalUrl \/ Finish \/ Reaped \/ Cancel

Pump ==
  \/ TakeKid \/ TakeRequest \/ AuthFails
  \/ \E k \in Kids : EnableFetch(k) \/ EnableAuto(k) \/ Resume(k) \/ CloseUnguarded(k)
  \/ \E r \in Reqs : Judge(r) \/ Answer(r)

Browser == (\E k \in Kids : KidStarts(k)) \/ (\E r \in Reqs : RequestStarts(r))

Next == Fetch \/ Pump \/ Reap \/ Browser

Spec == Init /\ [][Next]_vars

-----------------------------------------------------------------------------

(* The type of every variable. *)
TypeOK ==
  /\ main \in [ pc : {"connect", "reconnect", "leftover", "href", "finish", "reap", "over"}
                       \cup { Setup[i] : i \in 1..Len(Setup) } \cup Working,
                html : Kinds, cut : BOOLEAN, tries : 0..MaxRetries, pinned : BOOLEAN,
                sent : BOOLEAN,
                res : {"none", "page", "error", "timeout", "unchecked", "auth", "dropped"} ]
  /\ target \in {"none", "open", "closed", "leaked"}
  /\ recorded \in BOOLEAN
  /\ reaper \in {"none", "close", "done"}
  /\ session \in [ Sessions ->
       [ st : {"none", "frozen", "run", "gone"}, fetch : BOOLEAN, auto : BOOLEAN ] ]
  /\ net \in [ Reqs -> {"idle", "paused", "out", "failed"} ]
  /\ Len(pump.ring) <= RingCap /\ pump.ours \subseteq Kids
  /\ pump.kid \in [ Kids -> {"none", "enable", "auto", "resume", "close"} ]
  /\ pump.req \in [ Reqs -> {"none", "judge", "continue", "fail"} ]
  /\ check.memo \subseteq Hosts /\ check.outstanding \subseteq Reqs
  /\ check.unresolved \in BOOLEAN /\ check.auth \in BOOLEAN

(* A request leaves the browser only to a host that a check of this render    *)
(* let through: not one that was paused when the pump was dropped, not one    *)
(* whose event was lost, and not one of a child.                               *)
OnlyCheckedLeave == \A r \in Reqs : net[r] = "out" => HostOf[r] \in hist.allowed

(* No child runs before its requests are paused and its own children start    *)
(* frozen, however deep it is nested and whatever fails on the way.            *)
NoUnguardedChild ==
  \A k \in Kids : session[k].st = "run" => session[k].fetch /\ session[k].auto

(* A request the pump has taken on stays on the list that teardown fails for  *)
(* as long as the browser holds it, whatever becomes of its answer.            *)
NothingForgotten == \A r \in hist.taken : net[r] = "paused" => r \in check.outstanding

(* A target the render knows it has made is closed, or reported as leaked, by  *)
(* the time its connection goes, wherever the render was cut off.              *)
TargetIsReaped ==
  main.pc = "over" /\ hist.made => reaper # "none" /\ (reaper = "done" => target # "open")

(* The render blames the destination check only when the document's own host  *)
(* could not be resolved.  With such a check behind it, it blames the site or   *)
(* the proxy only for a page it has read: an empty one, or the browser's own    *)
(* error page.  Work that failed is our fault then.                              *)
BlameIsOurs ==
  /\ main.res = "unchecked" => Doc \in hist.undecided
  /\ Doc \in hist.undecided =>
       /\ main.res = "error" => hist.read /\ main.html \in {"empty", "fault"}
       /\ main.res \in {"timeout", "auth"} => hist.read /\ main.html = "empty" /\ main.cut

(* Not so: with an undecided check of the document behind it, the render never *)
(* blames the site.  A browser that shows its own error page for the denied      *)
(* request, or nothing at all, ends the work without an error.                   *)
UndecidedIsOurs == Doc \in hist.undecided => main.res \notin {"error", "timeout", "auth"}

(* A page that is empty or the browser's own is never delivered, and a         *)
(* challenge page only when the retries are used up or the budget cut the       *)
(* render short.                                                                 *)
PageIsFinal ==
  main.res = "page" =>
    /\ main.html \notin {"empty", "fault"}
    /\ main.html = "challenge" => main.cut \/ main.tries = MaxRetries

(* Nothing the pump has taken on is forgotten and nothing unchecked leaves.    *)
RequestsAreChecked == OnlyCheckedLeave /\ NothingForgotten

(* Whom the render blames, and what it delivers, follow from what its checks    *)
(* and its pages came to.                                                        *)
VerdictIsTrue == TypeOK /\ BlameIsOurs /\ PageIsFinal

=============================================================================
