----------------------------- MODULE FetchPromise -----------------------------
(***************************************************************************)
(* What a fetch promises its caller.  Plain HTTP is asked first, at most   *)
(* once; tiers may be tried after it, each at most once, a pinned request's *)
(* pin only; what a tier brought stays in hand until something a tier      *)
(* brought replaces it; and there is one reply, which hands over what is   *)
(* in hand, or an error when nothing is.  It knows no order of the tiers,  *)
(* no breakers, no budget and no signals: whether to try a tier at all is  *)
(* left open.                                                              *)
(***************************************************************************)

CONSTANTS
  Tiers,      \* the browsers and the solver
  Bodies      \* what a tier's body may be, "good" and "genericWall" among them

VARIABLES
  mode,       \* "auto", "js" or "http"
  pin,        \* the renderer that is pinned, or "auto"
  http,       \* what plain HTTP brought: awaited, failed, wall or page
  tried,      \* the tiers the request was sent to
  hand,       \* the tier's body in hand, and the tier it is from
  reply       \* what the caller was told

promiseVars == << mode, pin, http, tried, hand, reply >>

Nothing == [ tier |-> "none", body |-> "none" ]

Reply(is, from, tier, body, tagged) ==
  [ is |-> is, from |-> from, tier |-> tier, body |-> body, tagged |-> tagged ]

Silence == Reply("none", "none", "none", "none", FALSE)

PromiseInit ==
  /\ http = "awaited"
  /\ tried = {}
  /\ hand = Nothing
  /\ reply = Silence

Hopping == pin = "impersonated-http"

(* Plain HTTP comes back, with a page or without. *)
Http ==
  /\ reply = Silence /\ http = "awaited" /\ ~Hopping
  /\ http' \in {"failed", "wall", "page"}
  /\ UNCHANGED << mode, pin, tried, hand, reply >>

(* A tier is tried, while nothing good is in hand. *)
Try(t) ==
  /\ reply = Silence /\ http # "awaited" /\ mode # "http"
  /\ t \notin tried /\ pin \in {"auto", t} /\ hand.body # "good"
  /\ tried' = tried \cup {t}
  /\ UNCHANGED << mode, pin, http, hand, reply >>

(* A tier that was tried brings a body, which may replace a poorer one. *)
Bring(t) ==
  /\ reply = Silence /\ t \in tried /\ hand.body # "good"
  /\ \E b \in Bodies : hand' = [ tier |-> t, body |-> b ]
  /\ UNCHANGED << mode, pin, http, tried, reply >>

(* Nobody's page: a generic wall, when plain HTTP brought something better *)
(* and no tier was asked for by name.                                      *)
Worthless == hand.body = "genericWall" /\ http = "page" /\ pin = "auto"

Says(r) == reply = Silence /\ reply' = r /\ UNCHANGED << mode, pin, http, tried, hand >>

(* The body in hand, under the name of the tier that brought it. *)
HandOver ==
  /\ hand # Nothing /\ ~Worthless
  /\ Says(Reply("ok", "ladder", hand.tier, hand.body, FALSE))

(* Plain HTTP's page, as it came, when no tier was tried. *)
PassOn ==
  /\ http \in {"wall", "page"} /\ tried = {}
  /\ Says(Reply("ok", "http", "none", "page", FALSE))

(* The same page for want of anything better, marked as such. *)
FallBack ==
  /\ http = "page" /\ pin = "auto" /\ mode # "http"
  /\ hand = Nothing \/ Worthless
  /\ Says(Reply("ok", "http", "none", "page", TRUE))

(* The impersonated hop's page, ahead of every tier. *)
HandHop ==
  /\ tried = {}
  /\ \/ Hopping /\ Says(Reply("ok", "hop", "none", "page", FALSE))
     \/ ~Hopping /\ http # "awaited" /\ Says(Reply("ok", "hop", "none", "good", FALSE))

(* An error: no tier brought a body, and plain HTTP none that may stand in. *)
GiveUp ==
  /\ hand = Nothing
  /\ http \in {"wall", "page"} => mode # "http"
  /\ http = "page" => pin # "auto"
  /\ Says(Reply("err", "none", "none", "none", FALSE))

PromiseNext ==
  \/ Http
  \/ \E t \in Tiers : Try(t) \/ Bring(t)
  \/ HandOver \/ PassOn \/ FallBack \/ HandHop \/ GiveUp

PromiseSpec == PromiseInit /\ [][PromiseNext]_promiseVars
=============================================================================
