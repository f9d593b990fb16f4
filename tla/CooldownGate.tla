----------------------------- MODULE CooldownGate -----------------------------
(***************************************************************************)
(* What a circuit breaker promises the renderer behind it, with nothing    *)
(* said of windows, probes or rates: the gate is either passable or        *)
(* cooling; while it cools nobody starts a call; every trip costs at least *)
(* MinRest and at most MaxRest ticks of rest.  An operator reset is the    *)
(* only way to cut a rest short.                                           *)
(***************************************************************************)
EXTENDS Naturals

CONSTANTS
  Callers,      \* requests that want to use the renderer
  MinRest,      \* the shortest rest a trip imposes, in ticks
  MaxRest       \* the longest

VARIABLES
  rest,         \* ticks of rest left, 0 when the gate is passable
  inflight      \* callers that were let through and have not come back

gateVars == << rest, inflight >>

GateInit == rest = 0 /\ inflight = {}

Enter(c) ==
  /\ rest = 0
  /\ c \notin inflight
  /\ inflight' = inflight \cup {c}
  /\ UNCHANGED rest

Trip == rest = 0 /\ rest' \in MinRest..MaxRest

(* A caller that comes back may be the one whose outcome trips the gate. *)
Leave(c) ==
  /\ c \in inflight
  /\ inflight' = inflight \ {c}
  /\ UNCHANGED rest \/ Trip

(* Looking at the gate may also find the probes inconclusive. *)
Lapse == Trip /\ UNCHANGED inflight

Rest == rest > 0 /\ rest' = rest - 1 /\ UNCHANGED inflight

Override == rest' = 0 /\ UNCHANGED inflight

GateNext ==
  \/ \E c \in Callers : Enter(c) \/ Leave(c)
  \/ Lapse
  \/ Rest
  \/ Override

GateSpec == GateInit /\ [][GateNext]_gateVars
=============================================================================
