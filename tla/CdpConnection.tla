---------------------------- MODULE CdpConnection ----------------------------
(***************************************************************************)
(* cdp_conn.rs: one WebSocket to a browser, shared by the tasks that send   *)
(* commands over it.  send_recv enters the command in the pending table,     *)
(* writes it under a mutex and waits; the event loop reads answers in any    *)
(* order and, when the socket ends, marks the connection closed and fails    *)
(* what the table still holds.  Each action is what one task does between    *)
(* two awaits, or one access to a shared table.                              *)
(***************************************************************************)
EXTENDS Integers, Sequences, FiniteSets

CONSTANTS
  Callers,   \* tasks that call send_recv
  MaxId,     \* bound: ids given out
  Drain,     \* what the drain sends: "WS closed"
  None       \* no caller, no answer

ASSUME ConnectionAssumption ==
  /\ MaxId \in Nat
  /\ None \notin Callers
  /\ Drain # None /\ None \notin [ id : 1..MaxId, from : Callers ]

VARIABLES
  closed,    \* the flag is_closed
  reader,    \* the event loop: reading, marking, draining, ended
  keys,      \* what is left of the keys the loop drains
  pending,   \* the table: id -> the caller that waits for it
  next,      \* next_id
  writer,    \* who holds the mutex of the sink, or None
  wire,      \* commands the browser has, each with its caller
  call       \* where each caller stands

connVars == << closed, reader, keys, pending, next, writer, wire, call >>

(* got: the answer in the caller's oneshot channel.  asked, entered: the      *)
(* caller looked at is_closed, and entered the table, before the keys that     *)
(* are drained were listed.                                                    *)
NoCall == [ pc |-> "idle", id |-> 0, got |-> None, asked |-> FALSE, entered |-> FALSE ]

Message(id, c) == [ id |-> id, from |-> c ]

ConnInit ==
  /\ closed = FALSE
  /\ reader = "reading"
  /\ keys = {}
  /\ pending = << >>
  /\ next = 1
  /\ writer = None
  /\ wire = {}
  /\ call = [ c \in Callers |-> NoCall ]

Without(ids) == [ i \in DOMAIN pending \ ids |-> pending[i] ]

Draining == reader \in {"draining", "ended"}

-----------------------------------------------------------------------------
(* send_recv *)

(* A caller that finds the connection closed fails without a trace. *)
Check(c) ==
  /\ call[c].pc = "idle" /\ ~closed
  /\ call' = [ call EXCEPT ![c].pc = "number", ![c].asked = ~Draining ]
  /\ UNCHANGED << closed, reader, keys, pending, next, writer, wire >>

(* Mutant: the counter is read here and advanced by whoever inserts. *)
MutNumber(c) ==
  /\ call[c].pc = "number" /\ next <= MaxId
  /\ call' = [ call EXCEPT ![c].pc = "insert", ![c].id = next ]
  /\ next' \in {next, next + 1}
  /\ UNCHANGED << closed, reader, keys, pending, writer, wire >>

Number(c) ==
  /\ call[c].pc = "number" /\ next <= MaxId
  /\ call' = [ call EXCEPT ![c].pc = "insert", ![c].id = next ]
  /\ next' = next + 1
  /\ UNCHANGED << closed, reader, keys, pending, writer, wire >>

Insert(c) ==
  /\ call[c].pc = "insert"
  /\ pending' = [ i \in DOMAIN pending \cup {call[c].id} |->
                    IF i = call[c].id THEN c ELSE pending[i] ]
  /\ call' = [ call EXCEPT ![c].pc = "lock", ![c].entered = ~Draining ]
  /\ UNCHANGED << closed, reader, keys, next, writer, wire >>

Lock(c) ==
  /\ call[c].pc = "lock" /\ writer = None
  /\ writer' = c
  /\ call' = [ call EXCEPT ![c].pc = "write" ]
  /\ UNCHANGED << closed, reader, keys, pending, next, wire >>

Written(c) ==
  /\ call[c].pc = "write"
  /\ wire' = wire \cup {Message(call[c].id, c)}
  /\ writer' = None
  /\ call' = [ call EXCEPT ![c].pc = "wait" ]
  /\ UNCHANGED << closed, reader, keys, pending, next >>

(* The call is over: PendingCleanup takes its entry out of the table, and a   *)
(* mutex it held is free.                                                      *)
Over(c) ==
  /\ call' = [ call EXCEPT ![c] = NoCall ]
  /\ pending' = Without({call[c].id})
  /\ writer' = IF writer = c THEN None ELSE writer
  /\ UNCHANGED << closed, reader, keys, next, wire >>

WriteFails(c) == call[c].pc = "write" /\ Over(c)

(* An answer, a CDP error or the error of a drain is in the channel. *)
Receive(c) == call[c].pc = "wait" /\ call[c].got # None /\ Over(c)

TimesOut(c) == call[c].pc = "wait" /\ call[c].got = None /\ Over(c)

(* The caller's own future is dropped at an await of send_recv. *)
CallDropped(c) == call[c].pc \in {"lock", "write", "wait"} /\ Over(c)

-----------------------------------------------------------------------------
(* the event loop *)

(* Whoever takes an entry out of the table sends on its channel. *)
Deliver(id, what) ==
  call' = [ call EXCEPT ![pending[id]].got = what ]

Dispatch(m) ==
  /\ reader = "reading" /\ m \in wire
  /\ wire' = wire \ {m}
  /\ IF m.id \in DOMAIN pending
     THEN Deliver(m.id, m) /\ pending' = Without({m.id})
     ELSE UNCHANGED << call, pending >>
  /\ UNCHANGED << closed, reader, keys, next, writer >>

(* Mutant: one way out of the loop drains the table and leaves the flag down. *)
MutStreamEnds ==
  /\ reader = "reading"
  /\ reader' \in {"marking", "listing"}
  /\ UNCHANGED << closed, keys, pending, next, writer, wire, call >>

(* A close frame, an error or the end of the stream. *)
StreamEnds ==
  /\ reader = "reading"
  /\ reader' = "marking"
  /\ UNCHANGED << closed, keys, pending, next, writer, wire, call >>

MarkClosed ==
  /\ reader = "marking"
  /\ closed' = TRUE
  /\ reader' = "listing"
  /\ UNCHANGED << keys, pending, next, writer, wire, call >>

ListKeys ==
  /\ reader = "listing"
  /\ keys' = DOMAIN pending
  /\ reader' = "draining"
  /\ UNCHANGED << closed, pending, next, writer, wire, call >>

(* Mutant: the drain ends at the first key whose call has gone meanwhile. *)
MutDrainOne(id) ==
  /\ reader = "draining" /\ id \in keys
  /\ IF id \in DOMAIN pending
     THEN Deliver(id, Drain) /\ pending' = Without({id}) /\ keys' = keys \ {id}
     ELSE UNCHANGED << call, pending >> /\ keys' = {}
  /\ UNCHANGED << closed, reader, next, writer, wire >>

DrainOne(id) ==
  /\ reader = "draining" /\ id \in keys
  /\ keys' = keys \ {id}
  /\ IF id \in DOMAIN pending
     THEN Deliver(id, Drain) /\ pending' = Without({id})
     ELSE UNCHANGED << call, pending >>
  /\ UNCHANGED << closed, reader, next, writer, wire >>

Drained ==
  /\ reader = "draining" /\ keys = {}
  /\ reader' = "ended"
  /\ UNCHANGED << closed, keys, pending, next, writer, wire, call >>

(* close(): the flag first, then the close frame, which ends the stream. *)
Close ==
  /\ ~closed
  /\ closed' = TRUE
  /\ UNCHANGED << reader, keys, pending, next, writer, wire, call >>

-----------------------------------------------------------------------------

Call(c) ==
  \/ Check(c) \/ Number(c) \/ Insert(c) \/ Lock(c) \/ Written(c)
  \/ WriteFails(c) \/ Receive(c) \/ TimesOut(c) \/ CallDropped(c)

Loop ==
  \/ \E m \in wire : Dispatch(m)
  \/ StreamEnds \/ MarkClosed \/ ListKeys \/ Drained
  \/ \E id \in keys : DrainOne(id)

ConnNext == (\E c \in Callers : Call(c)) \/ Loop \/ Close

(* The task of the event loop goes on once the stream has ended, and a caller   *)
(* whose channel holds something takes it.  Neither timers nor the socket nor    *)
(* the browser are fair.                                                         *)
Drains == MarkClosed \/ ListKeys \/ Drained \/ \E id \in keys : DrainOne(id)

Fairness == WF_connVars(Drains) /\ \A c \in Callers : WF_connVars(Receive(c))

ConnSpec == ConnInit /\ [][ConnNext]_connVars /\ Fairness

-----------------------------------------------------------------------------

(* The type of every variable. *)
ConnTypeOK ==
  /\ closed \in BOOLEAN
  /\ reader \in {"reading", "marking", "listing", "draining", "ended"}
  /\ keys \subseteq 1..MaxId
  /\ DOMAIN pending \subseteq 1..MaxId
  /\ \A i \in DOMAIN pending : pending[i] \in Callers
  /\ next \in 1..(MaxId + 1)
  /\ writer \in Callers \cup {None}
  /\ wire \subseteq [ id : 1..MaxId, from : Callers ]
  /\ call \in [ Callers ->
       [ pc : {"idle", "number", "insert", "lock", "write", "wait"},
         id : 0..MaxId, asked : BOOLEAN, entered : BOOLEAN,
         got : [ id : 1..MaxId, from : Callers ] \cup {None, Drain} ] ]

(* What is in a caller's channel is the answer to its own command, however   *)
(* late answers to calls that gave up are, or the error of the drain.          *)
OwnAnswer ==
  \A c \in Callers : call[c].got \notin {None, Drain} =>
    call[c].got = Message(call[c].id, c)

(* An entry of the table belongs to a call that is still under way: calls     *)
(* that time out, fail or are cancelled leave nothing behind.                  *)
NothingLeaks ==
  \A i \in DOMAIN pending :
    /\ call[pending[i]].id = i
    /\ call[pending[i]].pc \in {"lock", "write", "wait"}
    /\ call[pending[i]].got = None

(* A call that looked at is_closed before the drain and entered the table after. *)
Racer(c) == call[c].asked /\ ~call[c].entered

(* When the loop has drained the table, the only calls that wait for nobody   *)
(* are racers: every other call was answered, failed, or never let in.         *)
OnlyRacersAreStranded ==
  reader = "ended" =>
    \A c \in Callers :
      call[c].pc \in {"lock", "write", "wait"} /\ call[c].got = None => Racer(c)

(* When the stream ends, every command that has been written comes back        *)
(* without its timer, racers excepted: the drain reaches it whichever calls     *)
(* time out, fail or enter the table meanwhile.                                  *)
EndWakesEveryWait ==
  \A c \in Callers :
    (reader # "reading" /\ call[c].pc = "wait" /\ ~Racer(c)) ~> (call[c].pc = "idle")

=============================================================================
