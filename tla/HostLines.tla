------------------------------ MODULE HostLines ------------------------------
(***************************************************************************)
(* What the host limiter promises a fetch: each host has one line, served  *)
(* in the order of arrival, and at most Cap of its fetches are served at   *)
(* the same time.  It knows no entries and no semaphores: a host's entry   *)
(* that is dropped and created again is not seen here.                     *)
(***************************************************************************)
EXTENDS Integers, Sequences, FiniteSets, SequencesExt

CONSTANTS
  Requests,   \* fetches in flight at the same time
  Hosts,      \* normalised host keys
  Cap         \* most fetches of a host served at the same time

VARIABLES
  line,       \* of each host: who waits, in the order of arrival
  served      \* of each host: who holds a permit

lvars == << line, served >>

Here(r, h) == Contains(line[h], r) \/ r \in served[h]

LinesInit ==
  /\ line = [ h \in Hosts |-> << >> ]
  /\ served = [ h \in Hosts |-> {} ]

(* A fetch joins the line of its host, at the end. *)
Join(r, h) ==
  /\ \A k \in Hosts : ~Here(r, k)
  /\ line' = [ line EXCEPT ![h] = Append(@, r) ]
  /\ UNCHANGED served

(* The first in line gets a permit, or gives it back at once. *)
Serve(h) ==
  /\ line[h] # << >>
  /\ Cardinality(served[h]) < Cap
  /\ line' = [ line EXCEPT ![h] = Tail(@) ]
  /\ \/ served' = [ served EXCEPT ![h] = @ \cup {Head(line[h])} ]
     \/ UNCHANGED served

(* A fetch leaves the line, or gives its permit back; the others keep their  *)
(* places.                                                                   *)
Quit(r, h) ==
  /\ Here(r, h)
  /\ line' = [ line EXCEPT ![h] = RemoveFirst(@, r) ]
  /\ served' = [ served EXCEPT ![h] = @ \ {r} ]

LinesNext ==
  \/ \E r \in Requests, h \in Hosts : Join(r, h) \/ Quit(r, h)
  \/ \E h \in Hosts : Serve(h)

LinesSpec == LinesInit /\ [][LinesNext]_lvars
=============================================================================
