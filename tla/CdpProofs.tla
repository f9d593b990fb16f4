------------------------------ MODULE CdpProofs ------------------------------
(***************************************************************************)
(* The safety properties of the browser side: of CdpConnection for any       *)
(* number of callers and ids, and of CdpRender for any tree of children, any *)
(* requests and hosts, any size of the pump's ring and any number of retries. *)
(***************************************************************************)
EXTENDS CdpConnection, CdpRender, TLAPS

(***************************************************************************)
(* The connection.  Each call has an id of its own, and a call that waits     *)
(* for nobody's answer is in the table; what the drain misses is what entered *)
(* the table after its keys were listed.                                      *)
(***************************************************************************)

Positions == {"idle", "number", "insert", "lock", "write", "wait"}
CallRecord ==
  [ pc : Positions, id : 0..MaxId, asked : BOOLEAN, entered : BOOLEAN,
    got : [ id : 1..MaxId, from : Callers ] \cup {None, Drain} ]

Numbered(c) == call[c].pc \in {"insert", "lock", "write", "wait"}
InTable(c) == call[c].pc \in {"lock", "write", "wait"}

(* An id is given out once, and an answer bears the name of who asked. *)
IdsApart ==
  /\ \A c \in Callers : Numbered(c) => call[c].id \in 1..(next - 1)
  /\ \A c \in Callers : ~Numbered(c) => call[c].id = 0
  /\ \A c, d \in Callers : Numbered(c) /\ Numbered(d) /\ call[c].id = call[d].id => c = d
  /\ \A m \in wire : m.id < next
  /\ \A m \in wire, c \in Callers : Numbered(c) /\ call[c].id = m.id => m.from = c

(* A call in the table is in it under its own id until it is answered. *)
WaitsInTable ==
  \A c \in Callers : InTable(c) /\ call[c].got = None =>
    call[c].id \in DOMAIN pending /\ pending[call[c].id] = c

Quiet == \A c \in Callers : ~InTable(c) => call[c].got = None

(* The loop lowers the flag before it lists the table, and loses no key. *)
DrainsAll ==
  /\ reader \in {"listing", "draining", "ended"} => closed
  /\ reader = "ended" => keys = {}
  /\ \A c \in Callers : call[c].pc # "idle" => call[c].asked
  /\ Draining => \A c \in Callers :
       InTable(c) /\ call[c].entered /\ call[c].got = None => call[c].id \in keys

(* The inductive invariant. *)
ConnInv == ConnTypeOK /\ IdsApart /\ NothingLeaks /\ WaitsInTable /\ Quiet /\ OwnAnswer /\ DrainsAll

-----------------------------------------------------------------------------

LEMMA Constants ==
  /\ MaxId \in Nat /\ None \notin Callers
  /\ Drain # None /\ None \notin [ id : 1..MaxId, from : Callers ]
BY ConnectionAssumption

LEMMA InitConnInv == ConnInit => ConnInv
<1> SUFFICES ASSUME ConnInit PROVE ConnInv
  OBVIOUS
<1>1. /\ DOMAIN pending = {} /\ wire = {} /\ keys = {} /\ next = 1 /\ reader = "reading"
      /\ writer = None
  BY DEF ConnInit
<1>2. \A c \in Callers :
        /\ call[c] = NoCall
        /\ call[c].pc = "idle" /\ call[c].id = 0 /\ call[c].got = None
        /\ ~call[c].asked /\ ~call[c].entered
  BY DEF ConnInit, NoCall
<1>3. call \in [ Callers -> CallRecord ]
  <2>1. NoCall \in CallRecord
    BY Constants DEF NoCall, CallRecord, Positions
  <2> QED
    BY <2>1 DEF ConnInit
<1> closed \in BOOLEAN
  BY Zenon DEF ConnInit
<1>4. ConnTypeOK
  BY <1>1, <1>3, Constants DEF ConnTypeOK, CallRecord, Positions
<1>5. IdsApart /\ NothingLeaks /\ WaitsInTable /\ Quiet /\ OwnAnswer /\ DrainsAll
  BY <1>1, <1>2 DEF IdsApart, NothingLeaks, WaitsInTable, Quiet, OwnAnswer,
     DrainsAll, Numbered, InTable, Draining
<1> QED
  BY <1>4, <1>5 DEF ConnInv

(* What is known of one call. *)
LEMMA CallFields ==
  ASSUME ConnInv, NEW c \in Callers
  PROVE  /\ call[c].pc \in Positions /\ call[c].id \in 0..MaxId
         /\ call[c].asked \in BOOLEAN /\ call[c].entered \in BOOLEAN
         /\ call[c].got \in [ id : 1..MaxId, from : Callers ] \cup {None, Drain}
         /\ call[c] \in CallRecord
BY DEF ConnInv, ConnTypeOK, Positions, CallRecord

LEMMA CallType ==
  ASSUME ConnInv
  PROVE  call \in [ Callers -> CallRecord ]
BY DEF ConnInv, ConnTypeOK, CallRecord, Positions

LEMMA CheckKeeps ==
  ASSUME ConnInv, NEW c \in Callers, Check(c)
  PROVE  ConnInv'
<1>1. /\ call'[c].pc = "number" /\ call'[c].id = call[c].id /\ call'[c].got = call[c].got
      /\ call'[c].entered = call[c].entered /\ call'[c].asked = ~Draining
      /\ \A d \in Callers \ {c} : call'[d] = call[d]
      /\ call' \in [ Callers -> CallRecord ]
  <2>1. call'[c] = [ call[c] EXCEPT !.pc = "number", !.asked = ~Draining ] /\ call[c] \in CallRecord
    BY CallType DEF Check
  <2>2. call'[c] \in CallRecord
    BY <2>1, Zenon DEF CallRecord, Positions, Draining
  <2>3. \A d \in Callers \ {c} : call'[d] = call[d]
    BY CallType DEF Check
  <2> QED
    BY <2>1, <2>2, <2>3, CallType DEF Check, CallRecord
<1>2. call[c].pc = "idle" /\ ~closed
  BY DEF Check
<1>3. ConnTypeOK'
  BY <1>1 DEF Check, ConnInv, ConnTypeOK, CallRecord, Positions
<1>4. IdsApart' /\ NothingLeaks' /\ WaitsInTable' /\ Quiet' /\ OwnAnswer'
  BY <1>1, <1>2 DEF Check, ConnInv, ConnTypeOK, IdsApart, NothingLeaks, WaitsInTable, Quiet, OwnAnswer, Numbered, InTable
<1>5. DrainsAll'
  BY <1>1, <1>2 DEF Check, ConnInv, DrainsAll, Draining, InTable
<1> QED
  BY <1>3, <1>4, <1>5 DEF ConnInv

LEMMA NumberKeeps ==
  ASSUME ConnInv, NEW c \in Callers, Number(c)
  PROVE  ConnInv'
<1>1. /\ call'[c].pc = "insert" /\ call'[c].id = next /\ call'[c].got = call[c].got
      /\ call'[c].entered = call[c].entered /\ call'[c].asked = call[c].asked
      /\ \A d \in Callers \ {c} : call'[d] = call[d]
      /\ call' \in [ Callers -> CallRecord ]
      /\ next' = next + 1 /\ next \in 1..MaxId
  <2>1. next' = next + 1 /\ next \in 1..MaxId /\ next \in 0..MaxId
    BY Constants DEF Number, ConnInv, ConnTypeOK
  <2>2. call'[c] = [ call[c] EXCEPT !.pc = "insert", !.id = next ] /\ call[c] \in CallRecord
    BY CallType DEF Number
  <2>3. \A d \in Callers \ {c} : call'[d] = call[d]
    BY CallType DEF Number
  <2> QED
    BY <2>1, <2>2, <2>3, CallType DEF Number, CallRecord, Positions
<1>2. call[c].pc = "number"
  BY DEF Number
<1>3. ConnTypeOK'
  BY <1>1, Constants DEF Number, ConnInv, ConnTypeOK, CallRecord, Positions
<1>4. IdsApart'
  BY <1>1, <1>2, CallFields DEF Number, ConnInv, IdsApart, Numbered, ConnTypeOK
<1>5. NothingLeaks' /\ WaitsInTable' /\ Quiet' /\ OwnAnswer'
  BY <1>1, <1>2, Constants DEF Number, ConnInv, NothingLeaks, WaitsInTable, Quiet, OwnAnswer, InTable, ConnTypeOK
<1>6. DrainsAll'
  BY <1>1, <1>2 DEF Number, ConnInv, DrainsAll, Draining, InTable
<1> QED
  BY <1>3, <1>4, <1>5, <1>6 DEF ConnInv

LEMMA InsertKeeps ==
  ASSUME ConnInv, NEW c \in Callers, Insert(c)
  PROVE  ConnInv'
<1>1. /\ call'[c].pc = "lock" /\ call'[c].id = call[c].id /\ call'[c].got = call[c].got
      /\ call'[c].entered = ~Draining /\ call'[c].asked = call[c].asked
      /\ \A d \in Callers \ {c} : call'[d] = call[d]
      /\ call' \in [ Callers -> CallRecord ]
  <2>1. call'[c] = [ call[c] EXCEPT !.pc = "lock", !.entered = ~Draining ] /\ call[c] \in CallRecord
    BY CallType DEF Insert
  <2>2. call'[c] \in CallRecord
    BY <2>1, Zenon DEF CallRecord, Positions, Draining
  <2>3. \A d \in Callers \ {c} : call'[d] = call[d]
    BY CallType DEF Insert
  <2> QED
    BY <2>1, <2>2, <2>3, CallType DEF Insert, CallRecord
<1>2. call[c].pc = "insert" /\ call[c].id \in 1..MaxId /\ call[c].got = None
  BY DEF Insert, ConnInv, Quiet, InTable, IdsApart, Numbered, ConnTypeOK
<1>3. /\ DOMAIN pending' = DOMAIN pending \cup {call[c].id}
      /\ pending'[call[c].id] = c
      /\ \A i \in DOMAIN pending : i # call[c].id => pending'[i] = pending[i]
  BY DEF Insert
<1>4. ConnTypeOK'
  BY <1>1, <1>2, <1>3 DEF Insert, ConnInv, ConnTypeOK, CallRecord, Positions
<1>5. IdsApart' /\ Quiet' /\ OwnAnswer'
  BY <1>1, <1>2 DEF Insert, ConnInv, IdsApart, Quiet, OwnAnswer, Numbered, InTable
<1>6. \A d \in Callers \ {c} : Numbered(d) => call[d].id # call[c].id
  BY <1>2 DEF ConnInv, IdsApart, Numbered
<1>7. WaitsInTable'
  BY <1>1, <1>2, <1>3, <1>6 DEF ConnInv, WaitsInTable, InTable, Numbered
<1>8. NothingLeaks'
  <2> SUFFICES ASSUME NEW i \in DOMAIN pending'
               PROVE  /\ call'[pending'[i]].id = i
                      /\ call'[pending'[i]].pc \in {"lock", "write", "wait"}
                      /\ call'[pending'[i]].got = None
    BY DEF NothingLeaks
  <2>1. CASE i = call[c].id
    BY <2>1, <1>1, <1>2, <1>3
  <2>2. CASE i # call[c].id
    <3>1. i \in DOMAIN pending /\ pending'[i] = pending[i] /\ pending[i] \in Callers
      BY <2>2, <1>3 DEF ConnInv, ConnTypeOK
    <3>2. pending[i] # c
      BY <3>1, <1>2 DEF ConnInv, NothingLeaks
    <3> QED
      BY <3>1, <3>2, <1>1 DEF ConnInv, NothingLeaks
  <2> QED
    BY <2>1, <2>2
<1>9. DrainsAll'
  BY <1>1, <1>2 DEF Insert, ConnInv, DrainsAll, Draining, InTable
<1> QED
  BY <1>4, <1>5, <1>7, <1>8, <1>9 DEF ConnInv

(* A call in the table goes on: nothing else changes that matters. *)
LEMMA LockKeeps ==
  ASSUME ConnInv, NEW c \in Callers, Lock(c)
  PROVE  ConnInv'
<1>1. /\ call'[c].pc = "write" /\ call'[c].id = call[c].id /\ call'[c].got = call[c].got
      /\ call'[c].entered = call[c].entered /\ call'[c].asked = call[c].asked
      /\ \A d \in Callers \ {c} : call'[d] = call[d]
      /\ call' \in [ Callers -> CallRecord ]
  BY CallType DEF Lock, CallRecord, Positions
<1>2. call[c].pc = "lock"
  BY DEF Lock
<1>3. ConnTypeOK'
  BY <1>1 DEF Lock, ConnInv, ConnTypeOK, CallRecord, Positions
<1>4. IdsApart' /\ WaitsInTable' /\ Quiet' /\ OwnAnswer'
  BY <1>1, <1>2 DEF Lock, ConnInv, IdsApart, WaitsInTable, Quiet, OwnAnswer, Numbered, InTable
<1>5. NothingLeaks'
  BY <1>1, <1>2 DEF Lock, ConnInv, NothingLeaks, ConnTypeOK
<1>6. DrainsAll'
  BY <1>1, <1>2 DEF Lock, ConnInv, DrainsAll, Draining, InTable
<1> QED
  BY <1>3, <1>4, <1>5, <1>6 DEF ConnInv

LEMMA WrittenKeeps ==
  ASSUME ConnInv, NEW c \in Callers, Written(c)
  PROVE  ConnInv'
<1>1. /\ call'[c].pc = "wait" /\ call'[c].id = call[c].id /\ call'[c].got = call[c].got
      /\ call'[c].entered = call[c].entered /\ call'[c].asked = call[c].asked
      /\ \A d \in Callers \ {c} : call'[d] = call[d]
      /\ call' \in [ Callers -> CallRecord ]
  BY CallType DEF Written, CallRecord, Positions
<1>2. call[c].pc = "write" /\ call[c].id \in 1..MaxId /\ call[c].id < next
  BY CallFields DEF Written, ConnInv, IdsApart, Numbered, ConnTypeOK
<1>3. /\ wire' = wire \cup {Message(call[c].id, c)}
      /\ Message(call[c].id, c).id = call[c].id /\ Message(call[c].id, c).from = c
      /\ Message(call[c].id, c) \in [ id : 1..MaxId, from : Callers ]
  BY <1>2 DEF Written, Message
<1>4. ConnTypeOK'
  BY <1>1, <1>3 DEF Written, ConnInv, ConnTypeOK, CallRecord, Positions
<1>5. IdsApart'
  BY <1>1, <1>2, <1>3 DEF Written, ConnInv, IdsApart, Numbered
<1>6. WaitsInTable' /\ Quiet' /\ OwnAnswer'
  BY <1>1, <1>2 DEF Written, ConnInv, WaitsInTable, Quiet, OwnAnswer, InTable
<1>7. NothingLeaks'
  BY <1>1, <1>2 DEF Written, ConnInv, NothingLeaks, ConnTypeOK
<1>8. DrainsAll'
  BY <1>1, <1>2 DEF Written, ConnInv, DrainsAll, Draining, InTable
<1> QED
  BY <1>4, <1>5, <1>6, <1>7, <1>8 DEF ConnInv

(* However a call ends, its entry goes and no other. *)
LEMMA OverKeeps ==
  ASSUME ConnInv, NEW c \in Callers, InTable(c), Over(c)
  PROVE  ConnInv'
<1>1. /\ call'[c] = NoCall
      /\ \A d \in Callers \ {c} : call'[d] = call[d]
      /\ call' \in [ Callers -> CallRecord ]
  BY CallType, Constants DEF Over, NoCall, CallRecord, Positions
<1>2. /\ DOMAIN pending' = DOMAIN pending \ {call[c].id}
      /\ \A i \in DOMAIN pending' : pending'[i] = pending[i]
      /\ writer' \in {writer, None}
  BY DEF Over, Without
<1>3. NoCall.pc = "idle" /\ NoCall.id = 0 /\ NoCall.got = None
  BY DEF NoCall
<1>4. ConnTypeOK'
  BY <1>1, <1>2 DEF Over, ConnInv, ConnTypeOK, CallRecord, Positions
<1>5. IdsApart' /\ Quiet' /\ OwnAnswer'
  BY <1>1, <1>3 DEF Over, ConnInv, IdsApart, Quiet, OwnAnswer, Numbered, InTable
<1>6. \A d \in Callers \ {c} : Numbered(d) => call[d].id # call[c].id
  BY DEF ConnInv, IdsApart, Numbered, InTable
<1>7. WaitsInTable'
  BY <1>1, <1>2, <1>3, <1>6 DEF ConnInv, WaitsInTable, InTable, Numbered
<1>8. NothingLeaks'
  <2> SUFFICES ASSUME NEW i \in DOMAIN pending'
               PROVE  /\ call'[pending'[i]].id = i
                      /\ call'[pending'[i]].pc \in {"lock", "write", "wait"}
                      /\ call'[pending'[i]].got = None
    BY DEF NothingLeaks
  <2>1. i \in DOMAIN pending /\ i # call[c].id /\ pending'[i] = pending[i] /\ pending[i] \in Callers
    BY <1>2 DEF ConnInv, ConnTypeOK
  <2>2. pending[i] # c
    BY <2>1 DEF ConnInv, NothingLeaks
  <2> QED
    BY <2>1, <2>2, <1>1 DEF ConnInv, NothingLeaks
<1>9. DrainsAll'
  BY <1>1, <1>3 DEF Over, ConnInv, DrainsAll, Draining, InTable
<1> QED
  BY <1>4, <1>5, <1>7, <1>8, <1>9 DEF ConnInv

(* An entry that is taken out of the table is answered: with what its caller *)
(* asked for, or with the error of the drain.                                 *)
LEMMA DeliverKeeps ==
  ASSUME ConnInv, NEW id \in DOMAIN pending, NEW what, Deliver(id, what), pending' = Without({id}),
         \/ what = Drain
         \/ what = Message(id, pending[id]) /\ what \in [ id : 1..MaxId, from : Callers ],
         UNCHANGED << closed, next, writer, reader >>, wire' \subseteq wire, keys' \subseteq 1..MaxId,
         \/ keys' = keys
         \/ keys' = keys \ {id}
  PROVE  ConnInv'
<1> DEFINE c == pending[id]
<1>1. c \in Callers /\ call[c].id = id /\ InTable(c) /\ call[c].got = None /\ id \in 1..MaxId
  BY DEF ConnInv, ConnTypeOK, NothingLeaks, InTable
<1>2. /\ call'[c].pc = call[c].pc /\ call'[c].id = id /\ call'[c].got = what
      /\ call'[c].entered = call[c].entered /\ call'[c].asked = call[c].asked
      /\ \A d \in Callers \ {c} : call'[d] = call[d]
      /\ call' \in [ Callers -> CallRecord ]
  BY <1>1, CallType DEF Deliver, CallRecord, Positions
<1>3. /\ DOMAIN pending' = DOMAIN pending \ {id}
      /\ \A i \in DOMAIN pending' : pending'[i] = pending[i]
  BY DEF Without
<1>4. ConnTypeOK'
  BY <1>2, <1>3 DEF ConnInv, ConnTypeOK, CallRecord, Positions
<1>5. IdsApart' /\ Quiet'
  BY <1>1, <1>2 DEF ConnInv, IdsApart, Quiet, Numbered, InTable
<1>6. OwnAnswer'
  BY <1>1, <1>2 DEF ConnInv, OwnAnswer
<1>7. what # None
  BY Constants
<1>8. \A d \in Callers \ {c} : Numbered(d) => call[d].id # id
  BY <1>1 DEF ConnInv, IdsApart, Numbered, InTable
<1>9. WaitsInTable'
  <2> SUFFICES ASSUME NEW d \in Callers, InTable(d)', call'[d].got = None
               PROVE  call'[d].id \in DOMAIN pending' /\ pending'[call'[d].id] = d
    BY DEF WaitsInTable
  <2>1. d # c /\ call'[d] = call[d]
    BY <1>2, <1>7
  <2>2. call[d].id \in DOMAIN pending /\ pending[call[d].id] = d /\ call[d].id # id
    BY <2>1, <1>8 DEF ConnInv, WaitsInTable, InTable, Numbered
  <2> QED
    BY <2>1, <2>2, <1>3
<1>10. NothingLeaks'
  <2> SUFFICES ASSUME NEW i \in DOMAIN pending'
               PROVE  /\ call'[pending'[i]].id = i
                      /\ call'[pending'[i]].pc \in {"lock", "write", "wait"}
                      /\ call'[pending'[i]].got = None
    BY DEF NothingLeaks
  <2>1. i \in DOMAIN pending /\ i # id /\ pending'[i] = pending[i] /\ pending[i] \in Callers
    BY <1>3 DEF ConnInv, ConnTypeOK
  <2>2. pending[i] # c
    BY <2>1, <1>1 DEF ConnInv, NothingLeaks
  <2> QED
    BY <2>1, <2>2, <1>2 DEF ConnInv, NothingLeaks
<1>11. DrainsAll'
  BY <1>1, <1>2, <1>7, <1>8 DEF ConnInv, DrainsAll, Draining, InTable, Numbered
<1> QED
  BY <1>4, <1>5, <1>6, <1>9, <1>10, <1>11 DEF ConnInv

LEMMA DispatchKeeps ==
  ASSUME ConnInv, NEW m \in wire, Dispatch(m)
  PROVE  ConnInv'
<1>1. CASE m.id \in DOMAIN pending
  <2>1. /\ m \in [ id : 1..MaxId, from : Callers ] /\ pending[m.id] \in Callers
        /\ m = [ id |-> m.id, from |-> m.from ]
    BY <1>1 DEF ConnInv, ConnTypeOK
  <2>2. m.from = pending[m.id]
    BY <1>1, <2>1 DEF ConnInv, NothingLeaks, IdsApart, Numbered
  <2>3. m = Message(m.id, pending[m.id])
    BY <2>1, <2>2 DEF Message
  <2>4. /\ Deliver(m.id, m) /\ pending' = Without({m.id})
        /\ UNCHANGED << closed, next, writer, reader, keys >> /\ wire' \subseteq wire
        /\ keys' \subseteq 1..MaxId
    BY <1>1 DEF Dispatch, ConnInv, ConnTypeOK
  <2> QED
    BY <1>1, <2>1, <2>3, <2>4, DeliverKeeps
<1>2. CASE m.id \notin DOMAIN pending
  <2>1. wire' \subseteq wire /\ UNCHANGED << closed, next, writer, reader, keys, call, pending >>
    BY <1>2 DEF Dispatch
  <2> QED
    BY <2>1 DEF ConnInv, ConnTypeOK, IdsApart, NothingLeaks, WaitsInTable, Quiet, OwnAnswer, DrainsAll,
       Draining, InTable, Numbered
<1> QED
  BY <1>1, <1>2

LEMMA DrainOneKeeps ==
  ASSUME ConnInv, NEW id \in keys, DrainOne(id)
  PROVE  ConnInv'
<1>1. CASE id \in DOMAIN pending
  <2>1. /\ Deliver(id, Drain) /\ pending' = Without({id})
        /\ UNCHANGED << closed, next, writer, reader >> /\ wire' \subseteq wire
        /\ keys' = keys \ {id} /\ keys' \subseteq 1..MaxId
    BY <1>1 DEF DrainOne, ConnInv, ConnTypeOK
  <2> QED
    BY <1>1, <2>1, DeliverKeeps
<1>2. CASE id \notin DOMAIN pending
  <2>1. keys' = keys \ {id} /\ UNCHANGED << closed, next, writer, reader, wire, call, pending >>
    BY <1>2 DEF DrainOne
  <2>2. \A c \in Callers : InTable(c) /\ call[c].got = None => call[c].id # id
    BY <1>2 DEF ConnInv, WaitsInTable
  <2>3. DrainsAll'
    BY <2>1, <2>2 DEF ConnInv, DrainsAll, Draining, InTable
  <2> QED
    BY <2>1, <2>3 DEF ConnInv, ConnTypeOK, IdsApart, NothingLeaks, WaitsInTable, Quiet, OwnAnswer,
       InTable, Numbered
<1> QED
  BY <1>1, <1>2

(* The steps of the loop and of close() that touch no call. *)
LEMMA LoopKeeps ==
  ASSUME ConnInv, StreamEnds \/ MarkClosed \/ ListKeys \/ Drained \/ Close
  PROVE  ConnInv'
<1>1. UNCHANGED << pending, next, writer, wire, call >>
  BY DEF StreamEnds, MarkClosed, ListKeys, Drained, Close
<1>2. ConnTypeOK'
  BY <1>1 DEF ConnInv, ConnTypeOK, StreamEnds, MarkClosed, ListKeys, Drained, Close
<1>3. DrainsAll'
  <2>1. CASE StreamEnds
    BY <2>1, <1>1 DEF StreamEnds, ConnInv, DrainsAll, Draining, InTable
  <2>2. CASE MarkClosed
    BY <2>2, <1>1 DEF MarkClosed, ConnInv, DrainsAll, Draining, InTable
  <2>3. CASE ListKeys
    BY <2>3, <1>1 DEF ListKeys, ConnInv, DrainsAll, Draining, InTable, WaitsInTable
  <2>4. CASE Drained
    BY <2>4, <1>1 DEF Drained, ConnInv, DrainsAll, Draining, InTable
  <2>5. CASE Close
    BY <2>5, <1>1 DEF Close, ConnInv, DrainsAll, Draining, InTable
  <2> QED
    BY <2>1, <2>2, <2>3, <2>4, <2>5
<1>4. IdsApart' /\ NothingLeaks' /\ WaitsInTable' /\ Quiet' /\ OwnAnswer'
  BY <1>1 DEF ConnInv, IdsApart, NothingLeaks, WaitsInTable, Quiet, OwnAnswer, InTable, Numbered
<1> QED
  BY <1>2, <1>3, <1>4 DEF ConnInv

LEMMA StutterKeeps ==
  ASSUME ConnInv, UNCHANGED connVars
  PROVE  ConnInv'
BY DEF connVars, ConnInv, ConnTypeOK, IdsApart, NothingLeaks, WaitsInTable, Quiet, OwnAnswer, DrainsAll,
   Draining, InTable, Numbered

(* IInv is an invariant of the connection. *)
THEOREM ConnInductive == ConnSpec => []ConnInv
<1>1. ConnInv /\ [ConnNext]_connVars => ConnInv'
  <2> SUFFICES ASSUME ConnInv, [ConnNext]_connVars PROVE ConnInv'
    OBVIOUS
  <2>1. ASSUME NEW c \in Callers, Call(c) PROVE ConnInv'
    <3>1. CASE WriteFails(c) \/ Receive(c) \/ TimesOut(c) \/ CallDropped(c)
      <4>1. InTable(c) /\ Over(c)
        BY <3>1 DEF WriteFails, Receive, TimesOut, CallDropped, InTable
      <4> QED
        BY <4>1, OverKeeps
    <3> QED
      BY <2>1, <3>1, CheckKeeps, NumberKeeps, InsertKeeps, LockKeeps, WrittenKeeps DEF Call
  <2>2. ASSUME Loop PROVE ConnInv'
    BY <2>2, DispatchKeeps, DrainOneKeeps, LoopKeeps DEF Loop
  <2> QED
    BY <2>1, <2>2, LoopKeeps, StutterKeeps DEF ConnNext
<1> QED
  BY InitConnInv, <1>1, PTL DEF ConnSpec

(* Every variable keeps its type: no id beyond those given out, no entry of  *)
(* nobody's.                                                                  *)
THEOREM ConnTypeCorrect == ConnSpec => []ConnTypeOK
BY ConnInductive, PTL DEF ConnInv

(* What a caller is handed is the answer to its own command, however late    *)
(* the answers to calls that gave up are.                                      *)
THEOREM AnswersAreOwn == ConnSpec => []OwnAnswer
BY ConnInductive, PTL DEF ConnInv

(* No call that ended, in whatever way, leaves an entry in the table. *)
THEOREM TableIsClean == ConnSpec => []NothingLeaks
BY ConnInductive, PTL DEF ConnInv

(* The drain misses only calls that looked before it and entered after it. *)
THEOREM StrandedAreRacers == ConnSpec => []OnlyRacersAreStranded
<1>1. ConnInv => OnlyRacersAreStranded
  BY DEF ConnInv, DrainsAll, OnlyRacersAreStranded, Draining, InTable, Racer
<1> QED
  BY <1>1, ConnInductive, PTL

-----------------------------------------------------------------------------
(***************************************************************************)
(* The render.  What it does to its own record and what the pump does to      *)
(* requests and children are kept apart: a step moves one of the two, and     *)
(* each part of the invariant looks at one of them, but for the teardown that *)
(* drops the pump and the check whose outcome the render reports.             *)
(***************************************************************************)

Pcs == {"connect", "reconnect", "create", "attach", "page", "network", "runtime", "stealth",
        "agent", "headers", "intercept", "children", "navigate", "ready", "consent", "settle",
        "eval", "stabilise", "scroll", "reveal", "challenge", "stop", "snapshot",
        "leftover", "href", "finish", "reap", "over"}
Outcomes == {"none", "page", "error", "timeout", "unchecked", "auth", "dropped"}

MainRecs ==
  [ pc : Pcs, html : Kinds, cut : BOOLEAN, tries : 0..MaxRetries, pinned : BOOLEAN,
    sent : BOOLEAN, res : Outcomes ]

SessionRecs == [ st : {"none", "frozen", "run", "gone"}, fetch : BOOLEAN, auto : BOOLEAN ]

KidEvents == {"kid"} \X Kids
RequestEvents == {"request"} \X Reqs

PumpRecs ==
  [ ring : Seq(KidEvents \cup RequestEvents), ours : SUBSET Kids,
    kid : [ Kids -> {"none", "enable", "auto", "resume", "close"} ],
    req : [ Reqs -> {"none", "judge", "continue", "fail"} ] ]

CheckRecs ==
  [ memo : SUBSET Hosts, unresolved : BOOLEAN, auth : BOOLEAN, outstanding : SUBSET Reqs ]

HistRecs ==
  [ made : BOOLEAN, taken : SUBSET Reqs, allowed : SUBSET Hosts, undecided : SUBSET Hosts,
    read : BOOLEAN ]

Typed ==
  /\ main \in MainRecs
  /\ target \in {"none", "open", "closed", "leaked"}
  /\ recorded \in BOOLEAN
  /\ reaper \in {"none", "close", "done"}
  /\ session \in [ Sessions -> SessionRecs ]
  /\ net \in [ Reqs -> {"idle", "paused", "out", "failed"} ]
  /\ pump \in PumpRecs /\ Len(pump.ring) <= RingCap
  /\ check \in CheckRecs
  /\ hist \in HistRecs

(* A child runs, or is about to be resumed, with both guards on. *)
KidsGuarded ==
  \A k \in Kids :
    /\ session[k].st = "run" => session[k].fetch /\ session[k].auto
    /\ pump.kid[k] = "auto" => session[k].fetch
    /\ pump.kid[k] = "resume" => session[k].fetch /\ session[k].auto

(* The page's requests are paused before the navigation is sent. *)
PageGuarded == main.pc = "children" \/ main.sent => session[Page].fetch

(* What the pump has seen of a request the browser has begun. *)
Requests ==
  \A r \in Reqs :
    /\ net[r] = "out" => HostOf[r] \in hist.allowed
    /\ pump.req[r] = "continue" => HostOf[r] \in hist.allowed
    /\ r \in hist.taken /\ net[r] = "paused" => r \in check.outstanding
    /\ r \in hist.taken \/ (\E i \in 1..Len(pump.ring) : pump.ring[i] = << "request", r >>)
         => net[r] # "idle"

(* Outside the race with the render no handler is left. *)
PumpStands ==
  ~PumpRuns => \A r \in Reqs : pump.req[r] = "none"

(* The reaper comes when the render is over, and knows a target it has made. *)
Reaping ==
  /\ hist.made => recorded /\ main.pc \notin {"connect", "reconnect", "create"}
  /\ reaper # "none" => main.pc \in {"reap", "over"}
  /\ main.pc = "reap" => reaper # "none"
  /\ main.pc = "over" /\ hist.made => reaper # "none"
  /\ reaper = "done" /\ recorded => target # "open"

(* The flag is up when a check of the document was not decided, and nothing is *)
(* checked before the navigation.                                               *)
Blaming ==
  /\ check.unresolved <=> Doc \in hist.undecided
  /\ main.pc \notin Working \cup {"leftover", "href", "finish", "reap", "over"} =>
       Doc \notin hist.undecided
  /\ BlameIsOurs

Settled == main.html = "challenge" => main.cut \/ main.tries = MaxRetries

Final ==
  /\ main.res # "none" => main.pc \in {"leftover", "finish", "reap", "over"}
  /\ main.pc = "href" \/ (main.pc = "leftover" /\ main.res = "none") => Settled
  /\ main.res = "page" => main.pc \in {"finish", "reap", "over"} /\ Settled /\ main.html \notin {"empty", "fault"}

IInv ==
  /\ Typed /\ KidsGuarded /\ PageGuarded /\ Requests /\ PumpStands
  /\ Reaping /\ Blaming /\ Final

-----------------------------------------------------------------------------
(* The order of the commands before navigation. *)

Before == {"create", "attach", "page", "network", "runtime", "stealth",
           "agent", "headers", "intercept", "children"}

LEMMA SetupIs ==
  /\ Len(Setup) = 11
  /\ Setup[1] = "create" /\ Setup[2] = "attach" /\ Setup[3] = "page" /\ Setup[4] = "network"
  /\ Setup[5] = "runtime" /\ Setup[6] = "stealth" /\ Setup[7] = "agent"
  /\ Setup[8] = "headers" /\ Setup[9] = "intercept" /\ Setup[10] = "children"
  /\ Setup[11] = "navigate"
BY DEF Setup

LEMMA SetupSteps ==
  \A i \in 1..11 : i \in {1, 2, 3, 4, 5, 6, 7, 8, 9, 10, 11}
OBVIOUS

LEMMA AfterIs ==
  ASSUME NEW pc, InSetup(pc)
  PROVE  /\ pc \in Before
         /\ After(pc) \in (Before \ {"create"}) \cup {"navigate"}
         /\ After(pc) = "navigate" => pc = "children"
         /\ After(pc) = "children" => pc = "intercept"
<1> DEFINE i == CHOOSE i \in 1..Len(Setup) : Setup[i] = pc
<1>1. PICK j \in 1..10 : Setup[j] = pc
  BY SetupIs DEF InSetup
<1>2. i \in 1..11 /\ Setup[i] = pc
  BY <1>1, SetupIs
<1>3. After(pc) = Setup[i + 1]
  BY DEF After
<1> HIDE DEF i
<1>4. j \in {1, 2, 3, 4, 5, 6, 7, 8, 9, 10} /\ i \in {1, 2, 3, 4, 5, 6, 7, 8, 9, 10, 11}
  BY <1>1, <1>2, SetupSteps
<1>5. i \in {1, 2, 3, 4, 5, 6, 7, 8, 9, 10}
  BY <1>1, <1>2, <1>4, SetupIs
<1>6. pc \in Before
  BY <1>2, <1>5, SetupIs DEF Before
<1>7. /\ i + 1 \in {2, 3, 4, 5, 6, 7, 8, 9, 10, 11}
      /\ i + 1 = 11 => i = 10
      /\ i + 1 = 10 => i = 9
  BY <1>5
<1> DEFINE n == i + 1
<1>8. n \in {2, 3, 4, 5, 6, 7, 8, 9, 10, 11} /\ (n = 11 => pc = "children")
      /\ (n = 10 => pc = "intercept") /\ After(pc) = Setup[n]
  BY <1>2, <1>3, <1>7, SetupIs
<1> HIDE DEF n
<1> QED
  BY <1>6, <1>8, SetupIs DEF Before

-----------------------------------------------------------------------------
(* The record of the render after a step. *)

Moved(pc, html, cut, tries, sent, res) ==
  /\ main' \in MainRecs
  /\ main'.pc = pc /\ main'.html = html /\ main'.cut = cut /\ main'.tries = tries
  /\ main'.sent = sent /\ main'.res = res

LEMMA GoMoves ==
  ASSUME Typed, NEW pc \in Pcs, Go(pc)
  PROVE  Moved(pc, main.html, main.cut, main.tries, main.sent, main.res)
BY DEF Typed, MainRecs, Go, Moved

LEMMA FailMoves ==
  ASSUME Typed, NEW pc \in Pcs, NEW why \in Outcomes, main' = [ main EXCEPT !.pc = pc, !.res = why ]
  PROVE  Moved(pc, main.html, main.cut, main.tries, main.sent, why)
BY DEF Typed, MainRecs, Moved

LEMMA AdvanceMoves ==
  ASSUME Typed, NEW pc, InSetup(pc), Advance(pc)
  PROVE  Moved(After(pc), main.html, main.cut, main.tries, After(pc) = "navigate", main.res)
<1>1. After(pc) \in Pcs
  BY AfterIs DEF Before, Pcs
<1> QED
  BY <1>1 DEF Typed, MainRecs, Advance, Moved

LEMMA LookMoves ==
  ASSUME Typed, NEW pc \in Pcs, NEW h \in Kinds, main' = [ main EXCEPT !.pc = pc, !.html = h ]
  PROVE  Moved(pc, h, main.cut, main.tries, main.sent, main.res)
BY DEF Typed, MainRecs, Moved

LEMMA RetryMoves ==
  ASSUME Typed, NEW h \in Kinds, main.tries < MaxRetries,
         main' = [ main EXCEPT !.tries = @ + 1, !.html = h ]
  PROVE  Moved(main.pc, h, main.cut, main.tries + 1, main.sent, main.res)
<1> DEFINE n == main.tries + 1
<1>1. n \in 0..MaxRetries
  BY RenderAssumption DEF Typed, MainRecs
<1>2. main' = [ main EXCEPT !.tries = n, !.html = h ]
  OBVIOUS
<1> HIDE DEF n
<1>3. Moved(main.pc, h, main.cut, n, main.sent, main.res)
  BY <1>1, <1>2 DEF Typed, MainRecs, Moved
<1> QED
  BY <1>3 DEF n

LEMMA LastMoves ==
  ASSUME Typed, NEW h \in Kinds,
         main' = [ main EXCEPT !.pc = "leftover", !.html = h, !.cut = TRUE ]
  PROVE  Moved("leftover", h, TRUE, main.tries, main.sent, main.res)
BY DEF Typed, MainRecs, Moved, Pcs

LEMMA NoPumpTyped == NoPump \in PumpRecs /\ Len(NoPump.ring) = 0
<1>1. << >> \in Seq(KidEvents \cup RequestEvents) /\ {} \in SUBSET Kids
  OBVIOUS
<1> QED
  BY <1>1 DEF NoPump, PumpRecs

-----------------------------------------------------------------------------
(* The race of the render with its pumps.  A step of the render goes on to     *)
(* another step of the work, or ends it and drops the pumps.                   *)

WorkStep ==
  \/ Navigate \/ Ready \/ Settle \/ Snapshot \/ Stabilise \/ Unfold \/ Challenge
  \/ BudgetEnds \/ StopLoading \/ LastLook

GoesOn ==
  /\ main' \in MainRecs /\ main'.pc \in Working \ {"navigate"}
  /\ main'.sent = main.sent /\ main'.res = main.res
  /\ pump' = pump

Fails ==
  /\ main' \in MainRecs /\ main'.pc = "leftover" /\ main'.sent = main.sent
  /\ \E why \in {"error", "timeout"} : main'.res = Blamed(why)
  /\ pump' = NoPump

Ends ==
  /\ main' \in MainRecs /\ main'.pc = "leftover" /\ main'.sent = main.sent
  /\ main'.res = main.res /\ Settled'
  /\ pump' = NoPump

LEMMA WorkingPcs ==
  /\ Working \subseteq Pcs
  /\ \A pc \in Working : pc \notin {"connect", "reconnect", "create", "children", "leftover",
                                  "href", "finish", "reap", "over"}
BY DEF Working, Phase, Pcs

LEMMA GoGoesOn ==
  ASSUME Typed, NEW pc \in Working \ {"navigate"}, Go(pc), pump' = pump
  PROVE  GoesOn
BY WorkingPcs, GoMoves DEF GoesOn, Moved

LEMMA LookGoesOn ==
  ASSUME Typed, NEW pc \in Working \ {"navigate"}, NEW h \in Kinds,
         main' = [ main EXCEPT !.pc = pc, !.html = h ], pump' = pump
  PROVE  GoesOn
BY WorkingPcs, LookMoves DEF GoesOn, Moved

LEMMA WorkFailsFails ==
  ASSUME Typed, NEW why \in {"error", "timeout"}, WorkFails(why)
  PROVE  Fails
<1> DEFINE b == Blamed(why)
<1>1. b \in Outcomes
  BY DEF Blamed, Outcomes
<1>2. main' = [ main EXCEPT !.pc = "leftover", !.res = b ] /\ pump' = NoPump
  BY DEF WorkFails, Stop
<1> HIDE DEF b
<1>3. Moved("leftover", main.html, main.cut, main.tries, main.sent, b)
  BY <1>1, <1>2, FailMoves DEF Pcs
<1> QED
  BY <1>2, <1>3 DEF Moved, Fails, b

LEMMA LookKinds ==
  ASSUME Typed, NEW pc \in Working \ {"navigate"}, Look(pc)
  PROVE  GoesOn \/ Fails
BY LookGoesOn, WorkFailsFails DEF Look

LEMMA WorkKinds ==
  ASSUME Typed, WorkStep
  PROVE  /\ main.pc \in Working
         /\ GoesOn \/ Fails \/ Ends
         /\ UNCHANGED << target, recorded, reaper, session, net, check, hist >>
<1>0. /\ main.pc \in Working
      /\ UNCHANGED << target, recorded, reaper, session, net, check, hist >>
  BY DEF WorkStep, Navigate, Ready, Settle, Snapshot, Stabilise, Unfold, Challenge,
         BudgetEnds, StopLoading, LastLook, Working, Phase
<1>00. /\ \A pc \in {"ready", "stop", "snapshot"} \cup Phase : pc \in Working \ {"navigate"}
       /\ \A pc \in {"ready", "consent", "settle", "eval", "stabilise", "scroll", "reveal",
                     "challenge", "stop", "snapshot"} : pc \in Working \ {"navigate"}
  BY DEF Working, Phase
<1>000. ASSUME NEW pc \in Working \ {"navigate"},
               (Go(pc) /\ pump' = pump) \/ WorkFails("error") \/ WorkFails("timeout")
        PROVE  GoesOn \/ Fails
  BY <1>000, GoGoesOn, WorkFailsFails
<1>1. CASE Navigate
  <2>1. (Go("ready") /\ pump' = pump) \/ WorkFails("error") \/ WorkFails("timeout")
    BY <1>1 DEF Navigate
  <2> QED
    BY <2>1, <1>00, <1>000, <1>0
<1>2. CASE Ready
  <2>1. (Go("consent") /\ pump' = pump) \/ WorkFails("error") \/ WorkFails("timeout")
    BY <1>2 DEF Ready
  <2> QED
    BY <2>1, <1>00, <1>000, <1>0
<1>3. CASE Settle
  <2>1. pump' = pump /\ (Go("settle") \/ Go("eval"))
    BY <1>3 DEF Settle
  <2> QED
    BY <2>1, <1>0, <1>00, GoGoesOn
<1>4. CASE Snapshot
  BY <1>4, <1>00, LookKinds DEF Snapshot, Phase
<1>5. CASE Stabilise
  <2>1. pump' = pump /\ (\/ Go("scroll")
                        \/ \E h \in Kinds : main' = [ main EXCEPT !.pc = "scroll", !.html = h ])
    BY <1>5 DEF Stabilise
  <2> QED
    BY <2>1, <1>0, <1>00, GoGoesOn, LookGoesOn
<1>6. CASE Unfold
  <2>1. NextStep(main.pc) \in Phase
    BY DEF NextStep, Phase
  <2>2. (Go(NextStep(main.pc)) /\ pump' = pump) \/ Look(NextStep(main.pc))
    BY <1>6 DEF Unfold
  <2> QED
    BY <2>1, <2>2, <1>0, <1>00, GoGoesOn, LookKinds
<1>7. CASE Challenge
  <2>1. CASE Retrying
    <3>1. CASE \E h \in Kinds : main' = [ main EXCEPT !.tries = @ + 1, !.html = h ] /\ pump' = pump
      <4>1. PICK h \in Kinds : main' = [ main EXCEPT !.tries = @ + 1, !.html = h ] /\ pump' = pump
        BY <3>1
      <4>2. Moved(main.pc, h, main.cut, main.tries + 1, main.sent, main.res)
        BY <2>1, <4>1, RetryMoves DEF Retrying
      <4>3. main.pc \in Working \ {"navigate"}
        BY <1>7, <1>00 DEF Challenge, Phase
      <4> QED
        BY <1>0, <4>1, <4>2, <4>3 DEF Moved, GoesOn
    <3>2. CASE WorkFails("error") \/ WorkFails("timeout")
      BY <3>2, <1>0, WorkFailsFails
    <3> QED
      BY <1>7, <2>1, <3>1, <3>2, <1>0 DEF Challenge
  <2>2. CASE ~Retrying
    <3>1. main' = [ main EXCEPT !.pc = "leftover" ] /\ pump' = NoPump
      BY <1>7, <2>2 DEF Challenge, Stop
    <3>2. Moved("leftover", main.html, main.cut, main.tries, main.sent, main.res)
      BY <3>1, GoMoves DEF Go, Pcs
    <3>3. main.html = "challenge" => main.tries = MaxRetries
      BY <2>2, RenderAssumption DEF Retrying, Typed, MainRecs
    <3> QED
      BY <1>0, <3>1, <3>2, <3>3 DEF Moved, Ends, Settled
  <2> QED
    BY <2>1, <2>2
<1>8. CASE BudgetEnds
  BY <1>8, <1>0, <1>00, GoGoesOn DEF BudgetEnds
<1>9. CASE StopLoading
  BY <1>9, <1>0, <1>00, GoGoesOn DEF StopLoading
<1>10. CASE LastLook
  <2>1. PICK h \in Kinds : /\ main' = [ main EXCEPT !.pc = "leftover", !.html = h, !.cut = TRUE ]
                           /\ pump' = NoPump
    BY <1>10 DEF LastLook, Stop
  <2>2. Moved("leftover", h, TRUE, main.tries, main.sent, main.res)
    BY <2>1, LastMoves
  <2> QED
    BY <1>0, <2>1, <2>2 DEF Moved, Ends, Settled
<1> QED
  BY <1>0, <1>1, <1>2, <1>3, <1>4, <1>5, <1>6, <1>7, <1>8, <1>9, <1>10 DEF WorkStep

-----------------------------------------------------------------------------
(* Steps that leave the children, or the requests, alone. *)

PumpStays == pump' = pump \/ pump' = NoPump

LEMMA PumpTyped ==
  ASSUME Typed, PumpStays
  PROVE  pump' \in PumpRecs /\ Len(pump'.ring) <= RingCap
BY NoPumpTyped, RenderAssumption DEF Typed, PumpStays

LEMMA KidsStay ==
  ASSUME KidsGuarded, PumpStays, \A k \in Kids : session'[k] = session[k]
  PROVE  KidsGuarded'
BY DEF KidsGuarded, PumpStays, NoPump

LEMMA RequestsStay ==
  ASSUME Requests, PumpStays, UNCHANGED << net, check >>,
         hist'.allowed = hist.allowed, hist'.taken = hist.taken
  PROVE  Requests'
<1>1. CASE pump' = pump
  BY <1>1 DEF Requests
<1>2. CASE pump' = NoPump
  <2>1. Len(pump'.ring) = 0 /\ \A r \in Reqs : pump'.req[r] = "none"
    BY <1>2 DEF NoPump
  <2> QED
    BY <2>1 DEF Requests
<1> QED
  BY <1>1, <1>2 DEF PumpStays

LEMMA DoesFacts ==
  ASSUME Typed, NEW pc
  PROVE  /\ Does(pc) \in [ Sessions -> SessionRecs ]
         /\ \A k \in Kids : Does(pc)[k] = session[k]
         /\ session[Page].fetch \/ pc = "intercept" => Does(pc)[Page].fetch
<1>1. Page \in Sessions /\ session[Page] \in SessionRecs /\ Page \notin Kids /\ Kids \subseteq Sessions
  BY RenderAssumption DEF Typed, Sessions
<1> DEFINE On(x) == [ session EXCEPT ![Page] = x ]
<1>2. ASSUME NEW x \in SessionRecs, session[Page].fetch => x.fetch
      PROVE  /\ On(x) \in [ Sessions -> SessionRecs ]
             /\ \A k \in Kids : On(x)[k] = session[k]
             /\ session[Page].fetch => On(x)[Page].fetch
             /\ On(x)[Page] = x
  BY <1>1, <1>2 DEF Typed
<1> HIDE DEF On
<1>3. CASE pc = "attach"
  <2> DEFINE x == [ session[Page] EXCEPT !.st = "run" ]
  <2>1. x \in SessionRecs /\ x.fetch = session[Page].fetch
    BY <1>1 DEF SessionRecs
  <2>2. Does(pc) = On(x)
    BY <1>3 DEF Does, On
  <2> HIDE DEF x
  <2> QED
    BY <1>2, <1>3, <2>1, <2>2
<1>4. CASE pc = "intercept"
  <2> DEFINE x == [ session[Page] EXCEPT !.fetch = TRUE ]
  <2>1. x \in SessionRecs /\ x.fetch
    BY <1>1 DEF SessionRecs
  <2>2. Does(pc) = On(x)
    BY <1>4 DEF Does, On
  <2> HIDE DEF x
  <2> QED
    BY <1>2, <1>4, <2>1, <2>2
<1>5. CASE pc = "children"
  <2> DEFINE x == [ session[Page] EXCEPT !.auto = TRUE ]
  <2>1. x \in SessionRecs /\ x.fetch = session[Page].fetch
    BY <1>1 DEF SessionRecs
  <2>2. Does(pc) = On(x)
    BY <1>5 DEF Does, On
  <2> HIDE DEF x
  <2> QED
    BY <1>2, <1>5, <2>1, <2>2
<1>6. CASE pc \notin {"attach", "intercept", "children"}
  <2>1. Does(pc) = session
    BY <1>6 DEF Does
  <2> QED
    BY <1>1, <1>6, <2>1 DEF Typed
<1> QED
  BY <1>3, <1>4, <1>5, <1>6

-----------------------------------------------------------------------------
(* The steps of the render. *)

LEMMA WorkKeepsInv ==
  ASSUME IInv, WorkStep
  PROVE  IInv'
<1>1. /\ main.pc \in Working
      /\ GoesOn \/ Fails \/ Ends
      /\ UNCHANGED << target, recorded, reaper, session, net, check, hist >>
  BY WorkKinds DEF IInv
<1>2. /\ main' \in MainRecs /\ main'.sent = main.sent /\ PumpStays
      /\ main'.pc \in Working \cup {"leftover"}
  BY <1>1 DEF GoesOn, Fails, Ends, PumpStays
<1>3. main.res = "none"
  BY <1>1, WorkingPcs DEF IInv, Final
<1>4. Typed'
  BY <1>1, <1>2, PumpTyped DEF IInv, Typed
<1>5. KidsGuarded' /\ Requests'
  BY <1>1, <1>2, KidsStay, RequestsStay DEF IInv
<1>6. PageGuarded'
  BY <1>1, <1>2, WorkingPcs DEF IInv, PageGuarded
<1>7. PumpStands'
  <2>1. GoesOn => main'.pc \in Working
    BY DEF GoesOn
  <2>2. ~GoesOn => \A r \in Reqs : pump'.req[r] = "none"
    BY <1>1 DEF Fails, Ends, NoPump
  <2> QED
    BY <2>1, <2>2 DEF PumpStands, PumpRuns
<1>8. Reaping'
  BY <1>1, <1>2, WorkingPcs DEF IInv, Reaping
<1>9. Blaming'
  <2>1. CASE GoesOn
    BY <1>1, <1>3, <2>1, WorkingPcs DEF GoesOn, IInv, Blaming, BlameIsOurs
  <2>2. CASE Fails
    BY <1>1, <2>2 DEF Fails, Blamed, IInv, Blaming, BlameIsOurs
  <2>3. CASE Ends
    BY <1>1, <1>3, <2>3 DEF Ends, IInv, Blaming, BlameIsOurs
  <2> QED
    BY <1>1, <2>1, <2>2, <2>3
<1>10. Final'
  <2>1. CASE GoesOn
    BY <1>3, <2>1, WorkingPcs DEF GoesOn, Final
  <2>2. CASE Fails
    BY <2>2 DEF Fails, Blamed, Final
  <2>3. CASE Ends
    BY <1>3, <2>3 DEF Ends, Final
  <2> QED
    BY <1>1, <2>1, <2>2, <2>3
<1> QED
  BY <1>4, <1>5, <1>6, <1>7, <1>8, <1>9, <1>10 DEF IInv

(* The commands before navigation. *)
SetupStep ==
  \/ Connect \/ Reconnect \/ CreateTarget \/ CreateTargetFails \/ SetUp \/ SetUpFails
  \/ AutoAttachRejected

LEMMA SetupKinds ==
  ASSUME Typed, PageGuarded, Reaping, SetupStep
  PROVE  /\ main.pc \in {"connect", "reconnect"} \cup Before
         /\ main' \in MainRecs /\ UNCHANGED << reaper, net, pump, check >>
         /\ \/ main'.pc \in Before \cup {"navigate", "reconnect"} /\ main'.res = main.res
            \/ main'.pc \in {"finish", "over"} /\ main'.res = "error"
         /\ session' \in [ Sessions -> SessionRecs ] /\ \A k \in Kids : session'[k] = session[k]
         /\ PageGuarded'
         /\ target' \in {"none", "open"} \cup {target} /\ recorded' \in BOOLEAN
         /\ hist' = hist \/ hist' = [ hist EXCEPT !.made = TRUE ]
         /\ hist'.made => recorded' /\ main'.pc \notin {"connect", "reconnect", "create", "over"}
<1> DEFINE Setting ==
             /\ main.pc \in {"connect", "reconnect"} \cup Before
             /\ main' \in MainRecs
             /\ \/ main'.pc \in Before \cup {"navigate", "reconnect"} /\ main'.res = main.res
                \/ main'.pc \in {"finish", "over"} /\ main'.res = "error"
           Sessioned ==
             /\ session' \in [ Sessions -> SessionRecs ] /\ \A k \in Kids : session'[k] = session[k]
           Made ==
             /\ target' \in {"none", "open"} \cup {target} /\ recorded' \in BOOLEAN
             /\ hist' = hist \/ hist' = [ hist EXCEPT !.made = TRUE ]
             /\ hist'.made => recorded' /\ main'.pc \notin {"connect", "reconnect", "create", "over"}
<1>0. /\ main \in MainRecs /\ recorded \in BOOLEAN /\ session \in [ Sessions -> SessionRecs ]
      /\ Kids \subseteq Sessions
      /\ hist \in HistRecs /\ [ hist EXCEPT !.made = TRUE ].made
  BY DEF Typed, Sessions, HistRecs
<1>1. CASE Connect
  <2>1. Go("create") \/ Go("reconnect")
    BY <1>1 DEF Connect, Go
  <2>2. Moved("create", main.html, main.cut, main.tries, main.sent, main.res)
        \/ Moved("reconnect", main.html, main.cut, main.tries, main.sent, main.res)
    BY <2>1, GoMoves DEF Pcs
  <2>3. main.pc = "connect" /\ UNCHANGED << target, recorded, reaper, session, net, pump, check, hist >>
    BY <1>1 DEF Connect
  <2>4. ~hist.made
    BY <2>3 DEF Reaping
  <2>5. PageGuarded'
    BY <2>2, <2>3 DEF PageGuarded, Moved
  <2> QED
    BY <1>0, <2>2, <2>3, <2>4, <2>5 DEF Moved, Before
<1>2. CASE Reconnect
  <2>1. Go("create") \/ Fail("over", "error")
    BY <1>2 DEF Reconnect
  <2>2. Moved("create", main.html, main.cut, main.tries, main.sent, main.res)
        \/ Moved("over", main.html, main.cut, main.tries, main.sent, "error")
    BY <2>1, GoMoves, FailMoves DEF Fail, Pcs, Outcomes
  <2>3. main.pc = "reconnect" /\ UNCHANGED << target, recorded, reaper, session, net, pump, check, hist >>
    BY <1>2 DEF Reconnect
  <2>4. ~hist.made
    BY <2>3 DEF Reaping
  <2>5. PageGuarded'
    BY <2>2, <2>3 DEF PageGuarded, Moved
  <2> QED
    BY <1>0, <2>2, <2>3, <2>4, <2>5 DEF Moved, Before
<1>3. CASE CreateTarget
  <2>1. /\ main.pc = "create" /\ target' = "open" /\ recorded' = TRUE
        /\ hist' = [ hist EXCEPT !.made = TRUE ]
        /\ UNCHANGED << reaper, session, net, pump, check >>
    BY <1>3 DEF CreateTarget
  <2>2. Moved("attach", main.html, main.cut, main.tries, main.sent, main.res)
    BY <1>3, GoMoves DEF CreateTarget, Pcs
  <2>3. PageGuarded'
    BY <2>1, <2>2 DEF PageGuarded, Moved
  <2> QED
    BY <1>0, <2>1, <2>2, <2>3 DEF Moved, Before
<1>4. CASE CreateTargetFails
  <2>1. /\ main.pc = "create" /\ target' \in {"none", "open"}
        /\ UNCHANGED << recorded, reaper, session, net, pump, check, hist >>
    BY <1>4 DEF CreateTargetFails
  <2>2. Moved("finish", main.html, main.cut, main.tries, main.sent, "error")
    BY <1>4, FailMoves DEF CreateTargetFails, Fail, Pcs, Outcomes
  <2>3. ~hist.made
    BY <2>1 DEF Reaping
  <2>4. PageGuarded'
    BY <2>1, <2>2 DEF PageGuarded, Moved
  <2> QED
    BY <1>0, <2>1, <2>2, <2>3, <2>4 DEF Moved, Before
<1>5. ASSUME InSetup(main.pc), main.pc # "create",
             session' \in {session, Does(main.pc)},
             \/ Advance(main.pc) /\ (session' = Does(main.pc) \/ main.pc # "intercept")
             \/ Fail("finish", "error"),
             UNCHANGED << target, recorded, reaper, net, pump, check, hist >>
      PROVE  Setting /\ Sessioned /\ PageGuarded' /\ Made
  <2>1. main.pc \in Before
    BY <1>5, AfterIs
  <2>2. Sessioned /\ (session[Page].fetch => session'[Page].fetch)
        /\ (session' = Does(main.pc) /\ main.pc = "intercept" => session'[Page].fetch)
    BY <1>0, <1>5, DoesFacts
  <2>3. CASE Advance(main.pc) /\ (session' = Does(main.pc) \/ main.pc # "intercept")
    <3> DEFINE a == After(main.pc)
    <3>1. /\ a \in (Before \ {"create"}) \cup {"navigate"}
          /\ a = "navigate" => main.pc = "children"
          /\ a = "children" => main.pc = "intercept"
      BY <1>5, AfterIs
    <3>2. Moved(a, main.html, main.cut, main.tries, a = "navigate", main.res)
      BY <1>5, <2>3, AdvanceMoves
    <3> HIDE DEF a
    <3>3. Setting
      BY <2>1, <3>1, <3>2 DEF Moved
    <3>4. PageGuarded'
      BY <2>2, <2>3, <3>1, <3>2 DEF PageGuarded, Moved
    <3>5. Made
      BY <1>0, <1>5, <3>1, <3>2 DEF Moved, Reaping, Before
    <3> QED
      BY <2>2, <3>3, <3>4, <3>5
  <2>4. CASE Fail("finish", "error")
    <3>1. Moved("finish", main.html, main.cut, main.tries, main.sent, "error")
      BY <2>4, FailMoves DEF Fail, Pcs, Outcomes
    <3>2. Setting
      BY <2>1, <3>1 DEF Moved
    <3>3. PageGuarded'
      BY <2>2, <3>1 DEF PageGuarded, Moved
    <3>4. Made
      BY <1>0, <1>5, <3>1 DEF Moved, Reaping
    <3> QED
      BY <2>2, <3>2, <3>3, <3>4
  <2> QED
    BY <1>5, <2>3, <2>4
<1>6. CASE SetUp
  <2>1. Setting /\ Sessioned /\ PageGuarded' /\ Made
    BY <1>5, <1>6 DEF SetUp
  <2> QED
    BY <1>6, <2>1 DEF SetUp
<1>7. CASE SetUpFails
  <2>1. Setting /\ Sessioned /\ PageGuarded' /\ Made
    <3>1. Tolerated(main.pc) => main.pc # "intercept"
      BY DEF Tolerated, Optional
    <3> QED
      BY <1>5, <1>7, <3>1 DEF SetUpFails
  <2> QED
    BY <1>7, <2>1 DEF SetUpFails
<1>8. CASE AutoAttachRejected
  <2>1. InSetup(main.pc) /\ main.pc = "children"
    BY <1>8, SetupIs DEF AutoAttachRejected, InSetup
  <2>2. Setting /\ Sessioned /\ PageGuarded' /\ Made
    BY <1>5, <1>8, <2>1 DEF AutoAttachRejected
  <2> QED
    BY <1>8, <2>2 DEF AutoAttachRejected
<1> QED
  BY <1>1, <1>2, <1>3, <1>4, <1>6, <1>7, <1>8 DEF SetupStep

LEMMA SetupKeepsInv ==
  ASSUME IInv, SetupStep
  PROVE  IInv'
<1>1. /\ main.pc \in {"connect", "reconnect"} \cup Before
      /\ main' \in MainRecs /\ UNCHANGED << reaper, net, pump, check >>
      /\ \/ main'.pc \in Before \cup {"navigate", "reconnect"} /\ main'.res = main.res
         \/ main'.pc \in {"finish", "over"} /\ main'.res = "error"
      /\ session' \in [ Sessions -> SessionRecs ] /\ \A k \in Kids : session'[k] = session[k]
      /\ PageGuarded'
      /\ target' \in {"none", "open"} \cup {target} /\ recorded' \in BOOLEAN
      /\ hist' = hist \/ hist' = [ hist EXCEPT !.made = TRUE ]
      /\ hist'.made => recorded' /\ main'.pc \notin {"connect", "reconnect", "create", "over"}
  BY SetupKinds DEF IInv
<1>2. /\ main.pc \notin Working \cup {"leftover", "href", "finish", "reap", "over"}
      /\ main'.pc \notin {"leftover", "href", "reap"}
  BY <1>1 DEF Before, Working, Phase
<1>3. main.res = "none" /\ reaper = "none"
  BY <1>2 DEF IInv, Final, Reaping, Typed
<1>4. /\ hist' \in HistRecs /\ hist'.taken = hist.taken /\ hist'.allowed = hist.allowed
      /\ hist'.undecided = hist.undecided /\ hist'.read = hist.read
  <2>1. hist \in HistRecs
    BY DEF IInv, Typed
  <2>2. CASE hist' = hist
    BY <2>1, <2>2
  <2>3. CASE hist' = [ hist EXCEPT !.made = TRUE ]
    BY <2>1, <2>3 DEF HistRecs
  <2> QED
    BY <1>1, <2>2, <2>3
<1>5. Typed'
  BY <1>1, <1>4 DEF IInv, Typed
<1>6. KidsGuarded' /\ Requests'
  BY <1>1, <1>4, KidsStay, RequestsStay DEF IInv, PumpStays
<1>7. PumpStands'
  BY <1>1, <1>2 DEF IInv, PumpStands, PumpRuns
<1>8. Reaping'
  BY <1>1, <1>2, <1>3 DEF Reaping
<1>9. Blaming'
  BY <1>1, <1>2, <1>3, <1>4 DEF IInv, Blaming, BlameIsOurs
<1>10. Final'
  BY <1>1, <1>2, <1>3 DEF IInv, Final
<1> QED
  BY <1>1, <1>5, <1>6, <1>7, <1>8, <1>9, <1>10 DEF IInv

(* A step that only moves the render's record, after the work. *)
LEMMA RecordMoves ==
  ASSUME IInv, NEW pc \in {"href", "finish", "over"}, NEW res \in Outcomes,
         Moved(pc, main.html, main.cut, main.tries, main.sent, res),
         PumpStays, ~PumpRuns, UNCHANGED << recorded, session, check >>,
         hist'.allowed = hist.allowed, hist'.taken = hist.taken
  PROVE  /\ main' \in MainRecs /\ KidsGuarded' /\ PageGuarded' /\ PumpStands'
         /\ pump' \in PumpRecs /\ Len(pump'.ring) <= RingCap
         /\ net' = net => Requests'
<1>1. main' \in MainRecs /\ main'.pc = pc /\ main'.sent = main.sent
  BY DEF Moved
<1>2. KidsGuarded' /\ (net' = net => Requests')
  BY KidsStay, RequestsStay DEF IInv
<1>3. PageGuarded'
  BY <1>1 DEF PageGuarded, IInv
<1>4. PumpStands'
  BY DEF PumpStands, PumpStays, IInv, NoPump
<1> QED
  BY <1>1, <1>2, <1>3, <1>4, PumpTyped DEF IInv

LEMMA LeftoverKeepsInv ==
  ASSUME IInv, Leftover
  PROVE  IInv'
<1>1. /\ main.pc = "leftover" /\ UNCHANGED << target, recorded, reaper, session, pump, check, hist >>
      /\ Go(IF main.res = "none" THEN "href" ELSE "finish")
  BY DEF Leftover
<1>2. PICK F \in SUBSET check.outstanding :
        net' = [ r \in Reqs |-> IF r \in F /\ net[r] = "paused" THEN "failed" ELSE net[r] ]
  BY DEF Leftover
<1> DEFINE pc == IF main.res = "none" THEN "href" ELSE "finish"
<1>3. pc \in {"href", "finish"} /\ pc \in Pcs
  BY DEF Pcs
<1>4. Moved(pc, main.html, main.cut, main.tries, main.sent, main.res) /\ main.res \in Outcomes
  BY <1>1, <1>3, GoMoves DEF IInv, Typed, MainRecs
<1>5. /\ main' \in MainRecs /\ KidsGuarded' /\ PageGuarded' /\ PumpStands'
      /\ pump' \in PumpRecs /\ Len(pump'.ring) <= RingCap
  <2>1. ~PumpRuns
    BY <1>1, WorkingPcs DEF PumpRuns
  <2> HIDE DEF pc
  <2> QED
    BY <1>1, <1>3, <1>4, <2>1, RecordMoves DEF PumpStays
<1>6. \A r \in Reqs : net'[r] = net[r] \/ net'[r] = "failed"
  BY <1>2
<1>7. net' \in [ Reqs -> {"idle", "paused", "out", "failed"} ]
  BY <1>2 DEF IInv, Typed
<1>8. Typed'
  BY <1>1, <1>5, <1>7 DEF IInv, Typed
<1>9. Requests'
  BY <1>1, <1>6 DEF IInv, Requests
<1>10. Reaping'
  BY <1>1, <1>3, <1>4 DEF IInv, Reaping, Moved
<1>11. Blaming'
  BY <1>1, <1>3, <1>4 DEF IInv, Blaming, BlameIsOurs, Moved
<1>12. Final'
  BY <1>1, <1>4 DEF IInv, Final, Moved, Settled
<1> QED
  BY <1>5, <1>8, <1>9, <1>10, <1>11, <1>12 DEF IInv

LEMMA FinalUrlKeepsInv ==
  ASSUME IInv, FinalUrl
  PROVE  IInv'
<1>1. main.pc = "href" /\ UNCHANGED << target, recorded, reaper, session, net, pump, check >>
  BY DEF FinalUrl
<1>2. /\ hist' \in HistRecs /\ hist'.read
      /\ hist'.made = hist.made /\ hist'.taken = hist.taken
      /\ hist'.allowed = hist.allowed /\ hist'.undecided = hist.undecided
  <2>1. hist \in HistRecs /\ hist' = [ hist EXCEPT !.read = TRUE ]
    BY DEF FinalUrl, IInv, Typed
  <2> QED
    BY <2>1 DEF HistRecs
<1> DEFINE v == Verdict
<1>3. /\ v \in Outcomes /\ v \notin {"none", "unchecked", "dropped"}
      /\ v = "page" => main.html \notin {"empty", "fault"}
      /\ v = "error" => main.html \in {"empty", "fault"}
      /\ v \in {"timeout", "auth"} => main.html = "empty" /\ main.cut
  BY DEF Verdict, Outcomes
<1> HIDE DEF v
<1>4. Moved("finish", main.html, main.cut, main.tries, main.sent, v)
  BY <1>3, FailMoves DEF FinalUrl, Fail, Pcs, IInv, v
<1>5. /\ main' \in MainRecs /\ KidsGuarded' /\ PageGuarded' /\ PumpStands' /\ Requests'
  <2>1. ~PumpRuns
    BY <1>1, WorkingPcs DEF PumpRuns
  <2> QED
    BY <1>1, <1>2, <1>3, <1>4, <2>1, RecordMoves DEF PumpStays
<1>6. Typed'
  BY <1>1, <1>2, <1>5 DEF IInv, Typed
<1>7. Reaping'
  BY <1>1, <1>2, <1>4 DEF IInv, Reaping, Moved
<1>8. Blaming'
  BY <1>1, <1>2, <1>3, <1>4 DEF IInv, Blaming, BlameIsOurs, Moved
<1>9. Final'
  BY <1>1, <1>3, <1>4 DEF IInv, Final, Moved, Settled
<1> QED
  BY <1>5, <1>6, <1>7, <1>8, <1>9 DEF IInv

(* finish(), and the end of the wait for the reap. *)
LEMMA FinishKeepsInv ==
  ASSUME IInv, Finish \/ Reaped
  PROVE  IInv'
<1>1. /\ UNCHANGED << target, recorded, session, net, pump, check, hist >>
      /\ main.res \in Outcomes
  BY DEF Finish, Reaped, IInv, Typed, MainRecs
<1>2. \/ /\ main.pc = "finish" /\ reaper' = "close"
         /\ Moved("reap", main.html, main.cut, main.tries, main.sent, main.res)
      \/ /\ main.pc = "reap" /\ reaper = "done" /\ reaper' = reaper
         /\ Moved("over", main.html, main.cut, main.tries, main.sent, main.res)
  BY GoMoves DEF Finish, Reaped, IInv, Pcs
<1>3. main' \in MainRecs /\ main'.sent = main.sent
  BY <1>2 DEF Moved
<1>4. Typed'
  BY <1>1, <1>2, <1>3 DEF IInv, Typed
<1>5. KidsGuarded' /\ Requests'
  BY <1>1, KidsStay, RequestsStay DEF IInv, PumpStays
<1>6. PageGuarded'
  BY <1>1, <1>2, <1>3 DEF IInv, PageGuarded, Moved
<1>7. PumpStands'
  BY <1>1, <1>2, WorkingPcs DEF IInv, PumpStands, PumpRuns
<1>8. Reaping'
  BY <1>1, <1>2 DEF IInv, Reaping, Moved
<1>9. Blaming'
  BY <1>1, <1>2 DEF IInv, Blaming, BlameIsOurs, Moved
<1>10. Final'
  BY <1>1, <1>2 DEF IInv, Final, Moved, Settled
<1> QED
  BY <1>4, <1>5, <1>6, <1>7, <1>8, <1>9, <1>10 DEF IInv

LEMMA CancelKeepsInv ==
  ASSUME IInv, Cancel
  PROVE  IInv'
<1>1. /\ main.pc # "over" /\ pump' = NoPump
      /\ UNCHANGED << recorded, session, net, check, hist >>
  BY DEF Cancel
<1>2. Moved("over", main.html, main.cut, main.tries, main.sent, "dropped")
  BY FailMoves DEF Cancel, IInv, Pcs, Outcomes
<1>3. /\ target' \in {"none", "open"} \cup {target} /\ (main.pc # "create" => target' = target)
      /\ reaper' = IF Guarded THEN "close" ELSE reaper
  BY DEF Cancel
<1>4. Guarded <=> main.pc \notin {"connect", "reconnect", "reap"}
  BY DEF Guarded
<1>5. main' \in MainRecs /\ main'.sent = main.sent
  BY <1>2 DEF Moved
<1>6. Typed'
  BY <1>1, <1>3, <1>5, PumpTyped DEF IInv, Typed, PumpStays
<1>7. KidsGuarded' /\ Requests'
  BY <1>1, KidsStay, RequestsStay DEF IInv, PumpStays
<1>8. PageGuarded'
  BY <1>1, <1>2 DEF IInv, PageGuarded, Moved
<1>9. PumpStands'
  BY <1>1 DEF PumpStands, NoPump
<1>10. Reaping'
  BY <1>1, <1>2, <1>3, <1>4 DEF IInv, Reaping, Moved
<1>11. Blaming'
  BY <1>1, <1>2 DEF IInv, Blaming, BlameIsOurs, Moved
<1>12. Final'
  BY <1>1, <1>2 DEF IInv, Final, Moved
<1> QED
  BY <1>6, <1>7, <1>8, <1>9, <1>10, <1>11, <1>12 DEF IInv

LEMMA ReapKeepsInv ==
  ASSUME IInv, Reap
  PROVE  IInv'
<1>1. /\ UNCHANGED << main, recorded, session, net, pump, check, hist >>
      /\ reaper = "close" /\ reaper' = "done"
      /\ IF recorded THEN target' \in {"closed", "leaked"} ELSE target' = target
  BY DEF Reap
<1>2. Typed'
  BY <1>1 DEF IInv, Typed
<1>3. KidsGuarded' /\ PageGuarded' /\ Requests' /\ PumpStands' /\ Blaming' /\ Final'
  BY <1>1 DEF IInv, KidsGuarded, PageGuarded, Requests, PumpStands, PumpRuns, Blaming, BlameIsOurs, Final, Settled
<1>4. Reaping'
  BY <1>1 DEF IInv, Reaping
<1> QED
  BY <1>2, <1>3, <1>4 DEF IInv

-----------------------------------------------------------------------------
(* The browser and the pump.  They leave the record of the render alone.       *)

LEMMA MainStays ==
  ASSUME IInv, UNCHANGED << main, target, recorded, reaper >>, hist'.made = hist.made,
         session'[Page].fetch = session[Page].fetch
  PROVE  PageGuarded' /\ Reaping' /\ Final'
BY DEF IInv, PageGuarded, Reaping, Final, Settled

(* What is in the ring is what the browser posted. *)
LEMMA PostedFacts ==
  ASSUME Typed, NEW e \in KidEvents \cup RequestEvents
  PROVE  /\ Posted(e) \in PumpRecs /\ Len(Posted(e).ring) <= RingCap
         /\ Posted(e).kid = pump.kid /\ Posted(e).req = pump.req /\ Posted(e).ours = pump.ours
         /\ \A i \in 1..Len(Posted(e).ring) :
              \/ Posted(e).ring[i] = e
              \/ \E j \in 1..Len(pump.ring) : pump.ring[j] = Posted(e).ring[i]
<1> DEFINE E == KidEvents \cup RequestEvents
           q == pump.ring
           w == IF Len(q) < RingCap THEN Append(q, e) ELSE Append(Tail(q), e)
<1>1. pump \in PumpRecs /\ Len(q) <= RingCap /\ RingCap \in Nat \ {0} /\ q \in Seq(E)
  BY RenderAssumption DEF Typed, PumpRecs
<1> HIDE DEF E
<1>2. /\ w \in Seq(E) /\ Len(w) <= RingCap
      /\ \A i \in 1..Len(w) : w[i] = e \/ \E j \in 1..Len(q) : q[j] = w[i]
  <2>0. e \in E
    BY DEF E
  <2>1. CASE Len(q) < RingCap
    <3>1. w = Append(q, e)
      BY <2>1
    <3>2. /\ Append(q, e) \in Seq(E) /\ Len(Append(q, e)) = Len(q) + 1 /\ Len(q) \in Nat
          /\ \A i \in 1..Len(q) : Append(q, e)[i] = q[i]
          /\ Append(q, e)[Len(q) + 1] = e
      BY <1>1, <2>0
    <3> HIDE DEF w, q
    <3> QED
      BY <1>1, <2>1, <3>1, <3>2
  <2>2. CASE ~(Len(q) < RingCap)
    <3> DEFINE u == Tail(q)
    <3>1. w = Append(u, e)
      BY <2>2
    <3>2. Len(q) = RingCap /\ q # << >>
      BY <1>1, <2>2
    <3>3. /\ u \in Seq(E) /\ Len(u) = Len(q) - 1 /\ Len(u) \in Nat
          /\ \A i \in 1..Len(u) : u[i] = q[i + 1] /\ i + 1 \in 1..Len(q)
      BY <1>1, <3>2
    <3> HIDE DEF u
    <3>4. /\ Append(u, e) \in Seq(E) /\ Len(Append(u, e)) = Len(u) + 1
          /\ \A i \in 1..Len(u) : Append(u, e)[i] = u[i]
          /\ Append(u, e)[Len(u) + 1] = e
      BY <2>0, <3>3
    <3> HIDE DEF w, q
    <3> QED
      BY <1>1, <3>1, <3>2, <3>3, <3>4
  <2> QED
    BY <2>1, <2>2
<1>3. CASE PumpRuns
  <2>1. Posted(e) = [ pump EXCEPT !.ring = w ]
    BY <1>3 DEF Posted
  <2> HIDE DEF w
  <2>2. w \in Seq(KidEvents \cup RequestEvents)
    BY <1>2 DEF E
  <2>3. /\ [ pump EXCEPT !.ring = w ] \in PumpRecs /\ [ pump EXCEPT !.ring = w ].ring = w
        /\ [ pump EXCEPT !.ring = w ].kid = pump.kid /\ [ pump EXCEPT !.ring = w ].req = pump.req
        /\ [ pump EXCEPT !.ring = w ].ours = pump.ours
    BY <1>1, <2>2 DEF PumpRecs
  <2> QED
    BY <1>2, <2>1, <2>3
<1>4. CASE ~PumpRuns
  <2>1. Posted(e) = pump
    BY <1>4 DEF Posted
  <2> QED
    BY <1>1, <2>1
<1> QED
  BY <1>3, <1>4

(* One session changes. *)
LEMMA SessionChange ==
  ASSUME Typed, NEW k \in Kids, NEW x \in SessionRecs, session' = [ session EXCEPT ![k] = x ]
  PROVE  /\ session' \in [ Sessions -> SessionRecs ]
         /\ session'[k] = x
         /\ \A s \in Sessions \ {k} : session'[s] = session[s]
         /\ session'[Page] = session[Page]
BY RenderAssumption DEF Typed, Sessions

LEMMA KidChange ==
  ASSUME Typed, NEW k \in Kids, NEW v \in {"none", "enable", "auto", "resume", "close"},
         pump' = [ pump EXCEPT !.kid[k] = v ]
  PROVE  /\ pump' \in PumpRecs /\ pump'.ring = pump.ring /\ pump'.req = pump.req
         /\ pump'.kid[k] = v
         /\ \A j \in Kids \ {k} : pump'.kid[j] = pump.kid[j]
<1> DEFINE w == [ pump.kid EXCEPT ![k] = v ]
<1>1. pump \in PumpRecs
  BY DEF Typed
<1>2. /\ w \in [ Kids -> {"none", "enable", "auto", "resume", "close"} ]
      /\ w[k] = v /\ \A j \in Kids \ {k} : w[j] = pump.kid[j]
  BY <1>1 DEF PumpRecs
<1>3. pump' = [ pump EXCEPT !.kid = w ]
  BY <1>1 DEF PumpRecs
<1> HIDE DEF w
<1>4. pump' \in PumpRecs /\ pump'.ring = pump.ring /\ pump'.req = pump.req /\ pump'.kid = w
  BY <1>1, <1>2, <1>3 DEF PumpRecs
<1> QED
  BY <1>2, <1>4

LEMMA RequestChange ==
  ASSUME Typed, NEW r \in Reqs, NEW v \in {"none", "judge", "continue", "fail"},
         pump' = [ pump EXCEPT !.req[r] = v ]
  PROVE  /\ pump' \in PumpRecs /\ pump'.ring = pump.ring /\ pump'.kid = pump.kid
         /\ pump'.req[r] = v
         /\ \A q \in Reqs \ {r} : pump'.req[q] = pump.req[q]
<1> DEFINE w == [ pump.req EXCEPT ![r] = v ]
<1>1. pump \in PumpRecs
  BY DEF Typed
<1>2. /\ w \in [ Reqs -> {"none", "judge", "continue", "fail"} ]
      /\ w[r] = v /\ \A q \in Reqs \ {r} : w[q] = pump.req[q]
  BY <1>1 DEF PumpRecs
<1>3. pump' = [ pump EXCEPT !.req = w ]
  BY <1>1 DEF PumpRecs
<1> HIDE DEF w
<1>4. pump' \in PumpRecs /\ pump'.ring = pump.ring /\ pump'.kid = pump.kid /\ pump'.req = w
  BY <1>1, <1>2, <1>3 DEF PumpRecs
<1> QED
  BY <1>2, <1>4

(* What the pump takes off its ring. *)
LEMMA RingHead ==
  ASSUME Typed, pump.ring # << >>
  PROVE  /\ pump.ring[1] = Head(pump.ring) /\ 1 \in 1..Len(pump.ring)
         /\ Head(pump.ring) \in KidEvents \cup RequestEvents
         /\ Tail(pump.ring) \in Seq(KidEvents \cup RequestEvents)
         /\ Len(Tail(pump.ring)) <= RingCap
         /\ \A i \in 1..Len(Tail(pump.ring)) :
              i + 1 \in 1..Len(pump.ring) /\ Tail(pump.ring)[i] = pump.ring[i + 1]
<1> DEFINE E == KidEvents \cup RequestEvents
           q == pump.ring
<1>1. q \in Seq(E) /\ Len(q) <= RingCap /\ q # << >> /\ RingCap \in Nat
  BY RenderAssumption DEF Typed, PumpRecs
<1> HIDE DEF E, q
<1>2. /\ q[1] = Head(q) /\ 1 \in 1..Len(q) /\ Head(q) \in E /\ Tail(q) \in Seq(E)
      /\ Len(Tail(q)) = Len(q) - 1 /\ Len(q) \in Nat
      /\ \A i \in 1..Len(Tail(q)) : i + 1 \in 1..Len(q) /\ Tail(q)[i] = q[i + 1]
  BY <1>1
<1>3. Len(Tail(q)) <= RingCap
  BY <1>1, <1>2
<1> QED
  BY <1>2, <1>3 DEF E, q

LEMMA KidStartsKeepsInv ==
  ASSUME IInv, NEW k \in Kids, KidStarts(k)
  PROVE  IInv'
<1> DEFINE p == ParentOf[k]
           e == << "kid", k >>
<1>1. /\ session[p].st = "run" /\ (p = Page => session[Page].auto)
      /\ UNCHANGED << main, target, recorded, reaper, net, check, hist >>
  BY DEF KidStarts, Lives
<1>2. p \in Kids \/ p = Page
  BY RenderAssumption
<1>3. session[p].auto
  BY <1>1, <1>2 DEF IInv, KidsGuarded
<1> DEFINE x == [ session[k] EXCEPT !.st = "frozen" ]
<1>4. session' = [ session EXCEPT ![k] = x ] /\ pump' = Posted(e)
  BY <1>3 DEF KidStarts
<1>5. x \in SessionRecs /\ x.st = "frozen" /\ x.fetch = session[k].fetch /\ x.auto = session[k].auto
  BY DEF IInv, Typed, SessionRecs, Sessions
<1> HIDE DEF x, p
<1>6. /\ session' \in [ Sessions -> SessionRecs ]
      /\ session'[k] = x
      /\ \A s \in Sessions \ {k} : session'[s] = session[s]
      /\ session'[Page] = session[Page]
  BY <1>4, <1>5, SessionChange DEF IInv
<1>7. e \in KidEvents \cup RequestEvents
  BY DEF KidEvents
<1>8. /\ pump' \in PumpRecs /\ Len(pump'.ring) <= RingCap
      /\ pump'.kid = pump.kid /\ pump'.req = pump.req
      /\ \A i \in 1..Len(pump'.ring) :
           \/ pump'.ring[i] = e
           \/ \E j \in 1..Len(pump.ring) : pump.ring[j] = pump'.ring[i]
  BY <1>4, <1>7, PostedFacts DEF IInv
<1>9. Typed'
  BY <1>1, <1>6, <1>8 DEF IInv, Typed
<1>10. KidsGuarded'
  BY <1>5, <1>6, <1>8 DEF IInv, KidsGuarded, Sessions
<1>11. Requests'
  <2>1. \A r \in Reqs : e # << "request", r >>
    OBVIOUS
  <2> HIDE DEF e
  <2> QED
    BY <1>1, <1>8, <2>1 DEF IInv, Requests
<1>12. PumpStands' /\ Blaming'
  BY <1>1, <1>8 DEF IInv, PumpStands, PumpRuns, Blaming, BlameIsOurs
<1>13. PageGuarded' /\ Reaping' /\ Final'
  BY <1>1, <1>6, MainStays
<1> QED
  BY <1>9, <1>10, <1>11, <1>12, <1>13 DEF IInv

LEMMA RequestStartsKeepsInv ==
  ASSUME IInv, NEW r \in Reqs, RequestStarts(r)
  PROVE  IInv'
<1> DEFINE s == SessionOf[r]
           e == << "request", r >>
<1>1. /\ session[s].st = "run" /\ main.sent /\ net[r] = "idle"
      /\ UNCHANGED << main, target, recorded, reaper, session, check, hist >>
  BY DEF RequestStarts, Lives, Loading
<1>2. s \in Kids \/ s = Page
  BY RenderAssumption
<1>3. session[s].fetch
  BY <1>1, <1>2 DEF IInv, KidsGuarded, PageGuarded
<1>4. net' = [ net EXCEPT ![r] = "paused" ] /\ pump' = Posted(e)
  BY <1>3 DEF RequestStarts
<1>5. /\ net' \in [ Reqs -> {"idle", "paused", "out", "failed"} ] /\ net'[r] = "paused"
      /\ \A q \in Reqs \ {r} : net'[q] = net[q]
  BY <1>4 DEF IInv, Typed
<1>6. e \in KidEvents \cup RequestEvents
  BY DEF RequestEvents
<1>7. /\ pump' \in PumpRecs /\ Len(pump'.ring) <= RingCap
      /\ pump'.kid = pump.kid /\ pump'.req = pump.req
      /\ \A i \in 1..Len(pump'.ring) :
           \/ pump'.ring[i] = e
           \/ \E j \in 1..Len(pump.ring) : pump.ring[j] = pump'.ring[i]
  BY <1>4, <1>6, PostedFacts DEF IInv
<1>8. Typed'
  BY <1>1, <1>5, <1>7 DEF IInv, Typed
<1>9. KidsGuarded'
  BY <1>1, <1>7 DEF IInv, KidsGuarded
<1>10. Requests'
  <2>1. \A q \in Reqs \ {r} : e # << "request", q >>
    OBVIOUS
  <2>2. r \notin hist.taken
    BY <1>1 DEF IInv, Requests
  <2> HIDE DEF e
  <2>3. ASSUME NEW q \in Reqs, q # r
        PROVE  /\ net'[q] = "out" => HostOf[q] \in hist'.allowed
               /\ pump'.req[q] = "continue" => HostOf[q] \in hist'.allowed
               /\ q \in hist'.taken /\ net'[q] = "paused" => q \in check'.outstanding
               /\ q \in hist'.taken \/ (\E i \in 1..Len(pump'.ring) : pump'.ring[i] = << "request", q >>)
                    => net'[q] # "idle"
    <3>1. /\ net'[q] = net[q] /\ pump'.req[q] = pump.req[q]
          /\ hist' = hist /\ check' = check
      BY <1>1, <1>5, <1>7, <2>3
    <3>2. ASSUME NEW i \in 1..Len(pump'.ring), pump'.ring[i] = << "request", q >>
          PROVE  \E j \in 1..Len(pump.ring) : pump.ring[j] = << "request", q >>
      BY <1>7, <2>1, <2>3, <3>2
    <3>3. /\ net[q] = "out" => HostOf[q] \in hist.allowed
          /\ pump.req[q] = "continue" => HostOf[q] \in hist.allowed
          /\ q \in hist.taken /\ net[q] = "paused" => q \in check.outstanding
          /\ q \in hist.taken \/ (\E i \in 1..Len(pump.ring) : pump.ring[i] = << "request", q >>)
               => net[q] # "idle"
      BY DEF IInv, Requests
    <3>4. QED
      BY <3>1, <3>2, <3>3
  <2>4. /\ net'[r] = "paused" /\ r \notin hist'.taken
        /\ pump'.req[r] = "continue" => HostOf[r] \in hist'.allowed
    BY <1>1, <1>5, <1>7, <2>2 DEF IInv, Requests
  <2>5. ASSUME NEW q \in Reqs
        PROVE  /\ net'[q] = "out" => HostOf[q] \in hist'.allowed
               /\ pump'.req[q] = "continue" => HostOf[q] \in hist'.allowed
               /\ q \in hist'.taken /\ net'[q] = "paused" => q \in check'.outstanding
               /\ q \in hist'.taken \/ (\E i \in 1..Len(pump'.ring) : pump'.ring[i] = << "request", q >>)
                    => net'[q] # "idle"
    <3>1. CASE q = r
      BY <2>4, <3>1
    <3>2. CASE q # r
      BY <2>3, <3>2
    <3> QED
      BY <3>1, <3>2
  <2> QED
    BY <1>1, <2>5 DEF IInv, Requests
<1>11. PumpStands' /\ Blaming'
  BY <1>1, <1>7 DEF IInv, PumpStands, PumpRuns, Blaming, BlameIsOurs
<1>12. PageGuarded' /\ Reaping' /\ Final'
  BY <1>1, MainStays
<1> QED
  BY <1>8, <1>9, <1>10, <1>11, <1>12 DEF IInv

LEMMA TakeKidKeepsInv ==
  ASSUME IInv, TakeKid
  PROVE  IInv'
<1> DEFINE h == Head(pump.ring)
           k == h[2]
<1>1. /\ PumpRuns /\ pump.ring # << >> /\ h[1] = "kid"
      /\ UNCHANGED << main, target, recorded, reaper, session, net, check, hist >>
  BY DEF TakeKid
<1>2. /\ h \in KidEvents \cup RequestEvents
      /\ Tail(pump.ring) \in Seq(KidEvents \cup RequestEvents)
      /\ Len(Tail(pump.ring)) <= RingCap
      /\ \A i \in 1..Len(Tail(pump.ring)) :
           i + 1 \in 1..Len(pump.ring) /\ Tail(pump.ring)[i] = pump.ring[i + 1]
  BY <1>1, RingHead DEF IInv
<1>3. k \in Kids
  BY <1>1, <1>2 DEF KidEvents, RequestEvents
<1>4. pump \in PumpRecs
  BY DEF IInv, Typed
<1> DEFINE w == [ pump.kid EXCEPT ![k] = "enable" ]
           o == pump.ours \cup {k}
           u == Tail(pump.ring)
<1>5. /\ w \in [ Kids -> {"none", "enable", "auto", "resume", "close"} ]
      /\ w[k] = "enable" /\ \A j \in Kids \ {k} : w[j] = pump.kid[j]
      /\ o \in SUBSET Kids
  BY <1>3, <1>4 DEF PumpRecs
<1>6. \/ pump' = [ pump EXCEPT !.ring = u, !.ours = o, !.kid = w ]
      \/ pump' = [ pump EXCEPT !.ring = u ]
  BY DEF TakeKid
<1> HIDE DEF w, o, u
<1>u. u \in Seq(KidEvents \cup RequestEvents) /\ Len(u) <= RingCap
  BY <1>2 DEF u
<1>7. /\ pump' \in PumpRecs /\ pump'.ring = u /\ pump'.req = pump.req
      /\ pump'.kid \in {pump.kid, w}
  <2>1. CASE pump' = [ pump EXCEPT !.ring = u, !.ours = o, !.kid = w ]
    BY <1>u, <1>4, <1>5, <2>1 DEF PumpRecs
  <2>2. CASE pump' = [ pump EXCEPT !.ring = u ]
    BY <1>u, <1>4, <2>2 DEF PumpRecs
  <2> QED
    BY <1>6, <2>1, <2>2
<1>8. Typed'
  BY <1>1, <1>2, <1>7 DEF IInv, Typed, u
<1>9. KidsGuarded'
  <2> SUFFICES ASSUME NEW j \in Kids
               PROVE  /\ session'[j].st = "run" => session'[j].fetch /\ session'[j].auto
                      /\ pump'.kid[j] = "auto" => session'[j].fetch
                      /\ pump'.kid[j] = "resume" => session'[j].fetch /\ session'[j].auto
    BY DEF KidsGuarded
  <2>1. pump'.kid[j] = pump.kid[j] \/ pump'.kid[j] = "enable"
    BY <1>5, <1>7
  <2> QED
    BY <1>1, <2>1 DEF IInv, KidsGuarded
<1>10. Requests'
  BY <1>1, <1>2, <1>7 DEF IInv, Requests, u
<1>11. PumpStands' /\ Blaming'
  BY <1>1, <1>7 DEF IInv, PumpStands, PumpRuns, Blaming, BlameIsOurs
<1>12. PageGuarded' /\ Reaping' /\ Final'
  BY <1>1, MainStays
<1> QED
  BY <1>8, <1>9, <1>10, <1>11, <1>12 DEF IInv

LEMMA TakeRequestKeepsInv ==
  ASSUME IInv, TakeRequest
  PROVE  IInv'
<1> DEFINE h == Head(pump.ring)
           r == h[2]
           u == Tail(pump.ring)
<1>1. /\ PumpRuns /\ pump.ring # << >> /\ h[1] = "request"
      /\ UNCHANGED << main, target, recorded, reaper, session, net >>
  BY DEF TakeRequest
<1>2. /\ h \in KidEvents \cup RequestEvents
      /\ u \in Seq(KidEvents \cup RequestEvents)
      /\ Len(u) <= RingCap
      /\ \A i \in 1..Len(u) : i + 1 \in 1..Len(pump.ring) /\ u[i] = pump.ring[i + 1]
      /\ 1 \in 1..Len(pump.ring) /\ pump.ring[1] = h
  BY <1>1, RingHead DEF IInv
<1>3. r \in Reqs /\ h = << "request", r >>
  BY <1>1, <1>2 DEF KidEvents, RequestEvents
<1>4. net[r] # "idle"
  BY <1>2, <1>3 DEF IInv, Requests
<1>5. pump \in PumpRecs /\ check \in CheckRecs /\ hist \in HistRecs
  BY DEF IInv, Typed
<1> HIDE DEF h, u
<1>6. ASSUME NEW q \in Reqs, \E i \in 1..Len(u) : u[i] = << "request", q >>
      PROVE  net[q] # "idle"
  BY <1>2, <1>6 DEF IInv, Requests
<1>7. CASE Ours(SessionOf[r])
  <2>1. PICK pc \in {"judge", "fail"} : pump' = [ pump EXCEPT !.ring = u, !.req[r] = pc ]
    BY <1>7 DEF TakeRequest, h, u
  <2>2. /\ check' = [ check EXCEPT !.outstanding = @ \cup {r} ]
        /\ hist' = [ hist EXCEPT !.taken = @ \cup {r} ]
    BY <1>7 DEF TakeRequest, h
  <2> DEFINE w == [ pump.req EXCEPT ![r] = pc ]
             o == check.outstanding \cup {r}
             n == hist.taken \cup {r}
  <2>3. /\ w \in [ Reqs -> {"none", "judge", "continue", "fail"} ]
        /\ w[r] = pc /\ \A q \in Reqs \ {r} : w[q] = pump.req[q]
        /\ o \in SUBSET Reqs /\ n \in SUBSET Reqs
    BY <1>3, <1>5 DEF PumpRecs, CheckRecs, HistRecs
  <2>4. /\ pump' = [ pump EXCEPT !.ring = u, !.req = w ]
        /\ check' = [ check EXCEPT !.outstanding = o ]
        /\ hist' = [ hist EXCEPT !.taken = n ]
    BY <2>1, <2>2
  <2> HIDE DEF w, o, n, r
  <2>5. pump' \in PumpRecs /\ pump'.ring = u /\ pump'.req = w /\ pump'.kid = pump.kid
    BY <1>2, <1>5, <2>3, <2>4 DEF PumpRecs
  <2>6. check' \in CheckRecs /\ check'.outstanding = o /\ check'.unresolved = check.unresolved
    BY <1>5, <2>3, <2>4 DEF CheckRecs
  <2>7. /\ hist' \in HistRecs /\ hist'.taken = n /\ hist'.allowed = hist.allowed
        /\ hist'.undecided = hist.undecided /\ hist'.made = hist.made
        /\ hist'.read = hist.read
    BY <1>5, <2>3, <2>4 DEF HistRecs
  <2>8. Typed'
    BY <1>1, <1>2, <2>5, <2>6, <2>7 DEF IInv, Typed
  <2>9. KidsGuarded'
    BY <1>1, <2>5 DEF IInv, KidsGuarded
  <2>10. Requests'
    <3> SUFFICES ASSUME NEW q \in Reqs
                 PROVE  /\ net'[q] = "out" => HostOf[q] \in hist'.allowed
                        /\ pump'.req[q] = "continue" => HostOf[q] \in hist'.allowed
                        /\ q \in hist'.taken /\ net'[q] = "paused" => q \in check'.outstanding
                        /\ q \in hist'.taken \/ (\E i \in 1..Len(pump'.ring) : pump'.ring[i] = << "request", q >>)
                             => net'[q] # "idle"
      BY DEF Requests
    <3>1. pump'.req[q] = pump.req[q] \/ pump'.req[q] \in {"judge", "fail"}
      BY <2>3, <2>5
    <3>2. q \in hist'.taken => q = r \/ q \in hist.taken
      BY <2>7 DEF n
    <3>3. check.outstanding \subseteq check'.outstanding /\ r \in check'.outstanding
      BY <2>6 DEF o
    <3>4. /\ net[q] = "out" => HostOf[q] \in hist.allowed
          /\ pump.req[q] = "continue" => HostOf[q] \in hist.allowed
          /\ q \in hist.taken /\ net[q] = "paused" => q \in check.outstanding
          /\ q \in hist.taken => net[q] # "idle"
      BY DEF IInv, Requests
    <3> QED
      BY <1>1, <1>4, <1>6, <2>5, <2>7, <3>1, <3>2, <3>3, <3>4
  <2>11. PumpStands'
    BY <1>1 DEF PumpStands, PumpRuns
  <2>12. Blaming'
    BY <1>1, <2>6, <2>7 DEF IInv, Blaming, BlameIsOurs
  <2>13. PageGuarded' /\ Reaping' /\ Final'
    BY <1>1, <2>7, MainStays
  <2> QED
    BY <2>8, <2>9, <2>10, <2>11, <2>12, <2>13 DEF IInv
<1>8. CASE ~Ours(SessionOf[r])
  <2>1. pump' = [ pump EXCEPT !.ring = u ] /\ UNCHANGED << check, hist >>
    BY <1>8 DEF TakeRequest, h, u
  <2>2. pump' \in PumpRecs /\ pump'.ring = u /\ pump'.req = pump.req /\ pump'.kid = pump.kid
    BY <1>2, <1>5, <2>1 DEF PumpRecs
  <2>3. Typed'
    BY <1>1, <1>2, <2>1, <2>2 DEF IInv, Typed
  <2>4. KidsGuarded' /\ PumpStands' /\ Blaming'
    BY <1>1, <2>1, <2>2 DEF IInv, KidsGuarded, PumpStands, PumpRuns, Blaming, BlameIsOurs
  <2>5. Requests'
    BY <1>1, <1>6, <2>1, <2>2 DEF IInv, Requests
  <2>6. PageGuarded' /\ Reaping' /\ Final'
    BY <1>1, <2>1, MainStays
  <2> QED
    BY <2>3, <2>4, <2>5, <2>6 DEF IInv
<1> QED
  BY <1>7, <1>8

(* A step of a child's handler: its session keeps its guards or gains one, and *)
(* runs only with both.                                                        *)
LEMMA HandlerKeepsInv ==
  ASSUME IInv, NEW k \in Kids, NEW x \in SessionRecs,
         NEW v \in {"none", "enable", "auto", "resume", "close"},
         session' = [ session EXCEPT ![k] = x ], pump' = [ pump EXCEPT !.kid[k] = v ],
         session[k].fetch => x.fetch, session[k].auto => x.auto,
         x.st = "run" => x.fetch /\ x.auto,
         v = "auto" => x.fetch, v = "resume" => x.fetch /\ x.auto,
         UNCHANGED << main, target, recorded, reaper, net, check, hist >>
  PROVE  IInv'
<1>1. /\ session' \in [ Sessions -> SessionRecs ]
      /\ session'[k] = x
      /\ \A s \in Sessions \ {k} : session'[s] = session[s]
      /\ session'[Page] = session[Page]
  BY SessionChange DEF IInv
<1>2. /\ pump' \in PumpRecs /\ pump'.ring = pump.ring /\ pump'.req = pump.req
      /\ pump'.kid[k] = v
      /\ \A j \in Kids \ {k} : pump'.kid[j] = pump.kid[j]
  BY KidChange DEF IInv
<1>3. Typed'
  BY <1>1, <1>2 DEF IInv, Typed
<1>4. KidsGuarded'
  <2> SUFFICES ASSUME NEW j \in Kids
               PROVE  /\ session'[j].st = "run" => session'[j].fetch /\ session'[j].auto
                      /\ pump'.kid[j] = "auto" => session'[j].fetch
                      /\ pump'.kid[j] = "resume" => session'[j].fetch /\ session'[j].auto
    BY DEF KidsGuarded
  <2>1. CASE j = k
    BY <1>1, <1>2, <2>1
  <2>2. CASE j # k
    BY <1>1, <1>2, <2>2 DEF IInv, KidsGuarded, Sessions
  <2> QED
    BY <2>1, <2>2
<1>5. Requests' /\ PumpStands' /\ Blaming'
  BY <1>2 DEF IInv, Requests, PumpStands, PumpRuns, Blaming, BlameIsOurs
<1>6. PageGuarded' /\ Reaping' /\ Final'
  BY <1>1, MainStays
<1> QED
  BY <1>3, <1>4, <1>5, <1>6 DEF IInv

LEMMA ChildKeepsInv ==
  ASSUME IInv, NEW k \in Kids, EnableFetch(k) \/ EnableAuto(k) \/ Resume(k) \/ CloseUnguarded(k)
  PROVE  IInv'
<1> DEFINE x == session[k]
           F == [ x EXCEPT !.fetch = TRUE ]
           A == [ x EXCEPT !.auto = TRUE ]
           R == [ x EXCEPT !.st = "run" ]
           G == [ x EXCEPT !.st = "gone" ]
<1>1. /\ x \in SessionRecs /\ session = [ session EXCEPT ![k] = x ]
      /\ x.st = "run" => x.fetch /\ x.auto
      /\ pump.kid[k] = "auto" => x.fetch
      /\ pump.kid[k] = "resume" => x.fetch /\ x.auto
  BY DEF IInv, Typed, KidsGuarded, Sessions
<1>2. /\ F \in SessionRecs /\ F.fetch /\ F.auto = x.auto /\ F.st = x.st
      /\ A \in SessionRecs /\ A.auto /\ A.fetch = x.fetch /\ A.st = x.st
      /\ R \in SessionRecs /\ R.fetch = x.fetch /\ R.auto = x.auto
      /\ G \in SessionRecs /\ G.fetch = x.fetch /\ G.auto = x.auto /\ G.st = "gone"
  BY <1>1 DEF SessionRecs
<1>3. CASE EnableFetch(k)
  <2>1. UNCHANGED << main, target, recorded, reaper, net, check, hist >>
    BY <1>3 DEF EnableFetch, Enabled
  <2>2. \/ session' = [ session EXCEPT ![k] = F ] /\ pump' = [ pump EXCEPT !.kid[k] = "auto" ]
        \/ /\ session' = [ session EXCEPT ![k] = F ] \/ session' = [ session EXCEPT ![k] = x ]
           /\ pump' = [ pump EXCEPT !.kid[k] = "close" ]
    BY <1>1, <1>3 DEF EnableFetch, Enabled
  <2> HIDE DEF F, A, R, G, x
  <2>3. F.st = "run" => F.fetch /\ F.auto
    BY <1>1, <1>2
  <2>4. session[k].fetch => x.fetch /\ F.fetch
    BY <1>2 DEF x
  <2>5. session[k].auto => x.auto /\ F.auto
    BY <1>2 DEF x
  <2>6. CASE session' = [ session EXCEPT ![k] = F ] /\ pump' = [ pump EXCEPT !.kid[k] = "auto" ]
    BY <1>1, <1>2, <2>1, <2>3, <2>4, <2>5, <2>6, HandlerKeepsInv
  <2>7. CASE session' = [ session EXCEPT ![k] = F ] /\ pump' = [ pump EXCEPT !.kid[k] = "close" ]
    BY <1>1, <1>2, <2>1, <2>3, <2>4, <2>5, <2>7, HandlerKeepsInv
  <2>8. CASE session' = [ session EXCEPT ![k] = x ] /\ pump' = [ pump EXCEPT !.kid[k] = "close" ]
    BY <1>1, <1>2, <2>1, <2>4, <2>5, <2>8, HandlerKeepsInv
  <2> QED
    BY <2>2, <2>6, <2>7, <2>8
<1>4. CASE EnableAuto(k)
  <2>1. UNCHANGED << main, target, recorded, reaper, net, check, hist >> /\ x.fetch
    BY <1>1, <1>4 DEF EnableAuto, Enabled
  <2>2. \/ session' = [ session EXCEPT ![k] = A ] /\ pump' = [ pump EXCEPT !.kid[k] = "resume" ]
        \/ /\ session' = [ session EXCEPT ![k] = A ] \/ session' = [ session EXCEPT ![k] = x ]
           /\ pump' = [ pump EXCEPT !.kid[k] = "close" ]
    BY <1>1, <1>4 DEF EnableAuto, Enabled
  <2> HIDE DEF F, A, R, G, x
  <2>4. session[k].fetch => x.fetch /\ A.fetch
    BY <1>2 DEF x
  <2>5. session[k].auto => x.auto /\ A.auto
    BY <1>2 DEF x
  <2>6. CASE session' = [ session EXCEPT ![k] = A ] /\ pump' = [ pump EXCEPT !.kid[k] = "resume" ]
    BY <1>1, <1>2, <2>1, <2>4, <2>5, <2>6, HandlerKeepsInv
  <2>7. CASE session' = [ session EXCEPT ![k] = A ] /\ pump' = [ pump EXCEPT !.kid[k] = "close" ]
    BY <1>1, <1>2, <2>1, <2>4, <2>5, <2>7, HandlerKeepsInv
  <2>8. CASE session' = [ session EXCEPT ![k] = x ] /\ pump' = [ pump EXCEPT !.kid[k] = "close" ]
    BY <1>1, <1>2, <2>1, <2>4, <2>5, <2>8, HandlerKeepsInv
  <2> QED
    BY <2>2, <2>6, <2>7, <2>8
<1>5. CASE Resume(k)
  <2>1. /\ UNCHANGED << main, target, recorded, reaper, net, check, hist >> /\ x.fetch /\ x.auto
        /\ pump' = [ pump EXCEPT !.kid[k] = "none" ]
    BY <1>1, <1>5 DEF Resume, Changed
  <2>2. session' = [ session EXCEPT ![k] = R ] \/ session' = [ session EXCEPT ![k] = x ]
    BY <1>1, <1>5 DEF Resume, Changed
  <2> HIDE DEF F, A, R, G, x
  <2>4. session[k].fetch => x.fetch /\ R.fetch
    BY <1>2 DEF x
  <2>5. session[k].auto => x.auto /\ R.auto
    BY <1>2 DEF x
  <2>6. CASE session' = [ session EXCEPT ![k] = R ]
    BY <1>1, <1>2, <2>1, <2>4, <2>5, <2>6, HandlerKeepsInv
  <2>7. CASE session' = [ session EXCEPT ![k] = x ]
    BY <1>1, <1>2, <2>1, <2>4, <2>5, <2>7, HandlerKeepsInv
  <2> QED
    BY <2>2, <2>6, <2>7
<1>6. CASE CloseUnguarded(k)
  <2>1. /\ UNCHANGED << main, target, recorded, reaper, net, check, hist >>
        /\ pump' = [ pump EXCEPT !.kid[k] = "none" ]
    BY <1>1, <1>6 DEF CloseUnguarded, Changed
  <2>2. session' = [ session EXCEPT ![k] = G ] \/ session' = [ session EXCEPT ![k] = x ]
    BY <1>1, <1>6 DEF CloseUnguarded, Changed
  <2> HIDE DEF F, A, R, G, x
  <2>4. session[k].fetch => x.fetch /\ G.fetch
    BY <1>2 DEF x
  <2>5. session[k].auto => x.auto /\ G.auto
    BY <1>2 DEF x
  <2>6. CASE session' = [ session EXCEPT ![k] = G ]
    BY <1>1, <1>2, <2>1, <2>4, <2>5, <2>6, HandlerKeepsInv
  <2>7. CASE session' = [ session EXCEPT ![k] = x ]
    BY <1>1, <1>2, <2>1, <2>4, <2>5, <2>7, HandlerKeepsInv
  <2> QED
    BY <2>2, <2>6, <2>7
<1> QED
  BY <1>3, <1>4, <1>5, <1>6

(* The verdict on a request: the host it goes to is let through, or not. *)
LEMMA JudgeKeepsInv ==
  ASSUME IInv, NEW r \in Reqs, Judge(r)
  PROVE  IInv'
<1> DEFINE h == HostOf[r]
<1>1. /\ pump.req[r] = "judge" /\ UNCHANGED << main, target, recorded, reaper, session, net >>
      /\ h \in Hosts
  BY DEF Judge, Hosts
<1>2. PumpRuns
  BY <1>1 DEF IInv, PumpStands
<1>3. main.pc # "leftover" /\ main.res = "none"
  BY <1>2, WorkingPcs DEF PumpRuns, IInv, Final
<1>4. check \in CheckRecs /\ hist \in HistRecs
  BY DEF IInv, Typed
<1>5. PICK v \in {"continue", "fail"} :
        /\ pump' = [ pump EXCEPT !.req[r] = v ]
        /\ \/ /\ v = "continue"
              /\ check' = [ check EXCEPT !.memo = @ \cup {h} ]
              /\ hist' = [ hist EXCEPT !.allowed = @ \cup {h} ]
           \/ v = "fail" /\ UNCHANGED << check, hist >>
           \/ /\ v = "fail"
              /\ check' = [ check EXCEPT !.unresolved = @ \/ h = Doc ]
              /\ hist' = [ hist EXCEPT !.undecided = @ \cup {h} ]
  BY DEF Judge, Noted
<1> DEFINE m == check.memo \cup {h}
           a == hist.allowed \cup {h}
           n == hist.undecided \cup {h}
           b == check.unresolved \/ h = Doc
<1>6. m \in SUBSET Hosts /\ a \in SUBSET Hosts /\ n \in SUBSET Hosts /\ b \in BOOLEAN
  BY <1>1, <1>4 DEF CheckRecs, HistRecs
<1>7. \/ v = "continue" /\ check' = [ check EXCEPT !.memo = m ] /\ hist' = [ hist EXCEPT !.allowed = a ]
      \/ v = "fail" /\ UNCHANGED << check, hist >>
      \/ v = "fail" /\ check' = [ check EXCEPT !.unresolved = b ] /\ hist' = [ hist EXCEPT !.undecided = n ]
  BY <1>5
<1> HIDE DEF m, a, n, b, h
<1>8. /\ check' \in CheckRecs /\ hist' \in HistRecs
      /\ check'.outstanding = check.outstanding
      /\ hist'.taken = hist.taken /\ hist'.made = hist.made /\ hist'.read = hist.read
      /\ hist'.allowed = hist.allowed \/ hist'.allowed = a
      /\ v = "continue" => hist'.allowed = a
      /\ \/ check'.unresolved = check.unresolved /\ hist'.undecided = hist.undecided
         \/ check'.unresolved = b /\ hist'.undecided = n
  <2>1. CASE v = "continue" /\ check' = [ check EXCEPT !.memo = m ] /\ hist' = [ hist EXCEPT !.allowed = a ]
    BY <1>4, <1>6, <2>1 DEF CheckRecs, HistRecs
  <2>2. CASE v = "fail" /\ UNCHANGED << check, hist >>
    BY <1>4, <2>2
  <2>3. CASE v = "fail" /\ check' = [ check EXCEPT !.unresolved = b ] /\ hist' = [ hist EXCEPT !.undecided = n ]
    BY <1>4, <1>6, <2>3 DEF CheckRecs, HistRecs
  <2> QED
    BY <1>7, <2>1, <2>2, <2>3
<1>9. /\ pump' \in PumpRecs /\ pump'.ring = pump.ring /\ pump'.kid = pump.kid
      /\ pump'.req[r] = v
      /\ \A q \in Reqs \ {r} : pump'.req[q] = pump.req[q]
  BY <1>5, RequestChange DEF IInv
<1>10. Typed'
  BY <1>1, <1>8, <1>9 DEF IInv, Typed
<1>11. KidsGuarded'
  BY <1>1, <1>9 DEF IInv, KidsGuarded
<1>12. Requests'
  <2> SUFFICES ASSUME NEW q \in Reqs
               PROVE  /\ net'[q] = "out" => HostOf[q] \in hist'.allowed
                      /\ pump'.req[q] = "continue" => HostOf[q] \in hist'.allowed
                      /\ q \in hist'.taken /\ net'[q] = "paused" => q \in check'.outstanding
                      /\ q \in hist'.taken \/ (\E i \in 1..Len(pump'.ring) : pump'.ring[i] = << "request", q >>)
                           => net'[q] # "idle"
    BY DEF Requests
  <2>1. hist.allowed \subseteq hist'.allowed
    BY <1>8 DEF a
  <2>2. v = "continue" => HostOf[r] \in hist'.allowed
    BY <1>8 DEF a, h
  <2>3. /\ net[q] = "out" => HostOf[q] \in hist.allowed
        /\ pump.req[q] = "continue" => HostOf[q] \in hist.allowed
        /\ q \in hist.taken /\ net[q] = "paused" => q \in check.outstanding
        /\ q \in hist.taken \/ (\E i \in 1..Len(pump.ring) : pump.ring[i] = << "request", q >>)
                           => net[q] # "idle"
    BY DEF IInv, Requests
  <2>4. pump'.req[q] = "continue" => HostOf[q] \in hist'.allowed
    <3>1. CASE q = r
      BY <1>9, <2>2, <3>1
    <3>2. CASE q # r
      BY <1>9, <2>1, <2>3, <3>2
    <3> QED
      BY <3>1, <3>2
  <2> QED
    BY <1>1, <1>8, <1>9, <2>1, <2>3, <2>4
<1>13. PumpStands'
  BY <1>1, <1>2 DEF PumpStands, PumpRuns
<1>14. Blaming'
  <2>1. check'.unresolved <=> Doc \in hist'.undecided
    BY <1>8 DEF IInv, Blaming, BlameIsOurs, b, n
  <2> QED
    BY <1>1, <1>2, <1>3, <2>1 DEF Blaming, BlameIsOurs, PumpRuns
<1>15. PageGuarded' /\ Reaping' /\ Final'
  BY <1>1, <1>8, MainStays
<1> QED
  BY <1>10, <1>11, <1>12, <1>13, <1>14, <1>15 DEF IInv

LEMMA AnswerKeepsInv ==
  ASSUME IInv, NEW r \in Reqs, Answer(r)
  PROVE  IInv'
<1> DEFINE to == IF pump.req[r] = "continue" THEN "out" ELSE "failed"
<1>1. /\ pump.req[r] \in {"continue", "fail"}
      /\ pump' = [ pump EXCEPT !.req[r] = "none" ]
      /\ UNCHANGED << main, target, recorded, reaper, session, hist >>
  BY DEF Answer
<1>2. PICK done \in BOOLEAN, confirmed \in BOOLEAN :
        /\ confirmed => done
        /\ net' = IF done THEN [ net EXCEPT ![r] = to ] ELSE net
        /\ check' = [ check EXCEPT !.outstanding = Kept(r, confirmed) ]
  BY DEF Answer
<1> DEFINE o == Kept(r, confirmed)
<1>3. /\ o \in SUBSET Reqs /\ check \in CheckRecs
      /\ o \subseteq check.outstanding /\ check.outstanding \ {r} \subseteq o
      /\ ~done => o = check.outstanding
  BY <1>2 DEF Kept, IInv, Typed, CheckRecs
<1>4. /\ to \in {"out", "failed"}
      /\ to = "out" => HostOf[r] \in hist.allowed
  BY DEF IInv, Requests
<1> HIDE DEF o, to
<1>5. /\ check' \in CheckRecs /\ check'.outstanding = o /\ check'.unresolved = check.unresolved
  <2>1. check' = [ check EXCEPT !.outstanding = o ]
    BY <1>2 DEF o
  <2> QED
    BY <1>3, <2>1 DEF CheckRecs
<1>6. /\ net' \in [ Reqs -> {"idle", "paused", "out", "failed"} ]
      /\ \A q \in Reqs \ {r} : net'[q] = net[q]
      /\ done => net'[r] = to
      /\ ~done => net'[r] = net[r]
  BY <1>2, <1>4 DEF IInv, Typed
<1>7. /\ pump' \in PumpRecs /\ pump'.ring = pump.ring /\ pump'.kid = pump.kid
      /\ pump'.req[r] = "none"
      /\ \A q \in Reqs \ {r} : pump'.req[q] = pump.req[q]
  BY <1>1, RequestChange DEF IInv
<1>8. Typed'
  BY <1>1, <1>5, <1>6, <1>7 DEF IInv, Typed
<1>9. KidsGuarded'
  BY <1>1, <1>7 DEF IInv, KidsGuarded
<1>10. Requests'
  <2> SUFFICES ASSUME NEW q \in Reqs
               PROVE  /\ net'[q] = "out" => HostOf[q] \in hist'.allowed
                      /\ pump'.req[q] = "continue" => HostOf[q] \in hist'.allowed
                      /\ q \in hist'.taken /\ net'[q] = "paused" => q \in check'.outstanding
                      /\ q \in hist'.taken \/ (\E i \in 1..Len(pump'.ring) : pump'.ring[i] = << "request", q >>)
                           => net'[q] # "idle"
    BY DEF Requests
  <2>1. /\ net[q] = "out" => HostOf[q] \in hist.allowed
        /\ pump.req[q] = "continue" => HostOf[q] \in hist.allowed
        /\ q \in hist.taken /\ net[q] = "paused" => q \in check.outstanding
        /\ q \in hist.taken \/ (\E i \in 1..Len(pump.ring) : pump.ring[i] = << "request", q >>)
                           => net[q] # "idle"
    BY DEF IInv, Requests
  <2>2. CASE q = r
    <3>1. CASE done
      BY <1>1, <1>4, <1>6, <1>7, <2>2, <3>1
    <3>2. CASE ~done
      BY <1>1, <1>3, <1>5, <1>6, <1>7, <2>1, <2>2, <3>2
    <3> QED
      BY <3>1, <3>2
  <2>3. CASE q # r
    BY <1>1, <1>3, <1>5, <1>6, <1>7, <2>1, <2>3
  <2> QED
    BY <2>2, <2>3
<1>11. PumpStands'
  <2>1. PumpRuns
    BY <1>1 DEF IInv, PumpStands
  <2> QED
    BY <1>1, <2>1 DEF PumpStands, PumpRuns
<1>12. Blaming'
  BY <1>1, <1>5 DEF IInv, Blaming, BlameIsOurs
<1>13. PageGuarded' /\ Reaping' /\ Final'
  BY <1>1, MainStays
<1> QED
  BY <1>8, <1>9, <1>10, <1>11, <1>12, <1>13 DEF IInv

LEMMA AuthFailsKeepsInv ==
  ASSUME IInv, AuthFails
  PROVE  IInv'
<1>1. /\ UNCHANGED << main, target, recorded, reaper, session, net, pump, hist >>
      /\ check' = [ check EXCEPT !.auth = TRUE ] /\ check \in CheckRecs
  BY DEF AuthFails, IInv, Typed
<1>2. /\ check' \in CheckRecs /\ check'.unresolved = check.unresolved
      /\ check'.outstanding = check.outstanding
  BY <1>1 DEF CheckRecs
<1>3. Typed'
  BY <1>1, <1>2 DEF IInv, Typed
<1>4. KidsGuarded' /\ Requests' /\ PumpStands' /\ Blaming'
  BY <1>1, <1>2 DEF IInv, KidsGuarded, Requests, PumpStands, PumpRuns, Blaming, BlameIsOurs
<1>5. PageGuarded' /\ Reaping' /\ Final'
  BY <1>1, MainStays
<1> QED
  BY <1>3, <1>4, <1>5 DEF IInv

-----------------------------------------------------------------------------

LEMMA InitInv == Init => IInv
<1> SUFFICES ASSUME Init
             PROVE  IInv
  OBVIOUS
<1>1. /\ main.pc = "connect" /\ main.html = "empty" /\ main.tries = 0 /\ main.res = "none"
      /\ ~main.sent /\ main \in MainRecs
  <2>1. PICK p \in BOOLEAN :
          main = [ pc |-> "connect", html |-> "empty", cut |-> FALSE, tries |-> 0,
                   res |-> "none", pinned |-> p, sent |-> FALSE ]
    BY DEF Init
  <2>2. "connect" \in Pcs /\ "empty" \in Kinds /\ "none" \in Outcomes
    BY DEF Pcs, Kinds, Outcomes
  <2>3. 0 \in 0..MaxRetries
    BY RenderAssumption
  <2> QED
    BY <2>1, <2>2, <2>3 DEF MainRecs
<1>2. pump \in PumpRecs /\ Len(pump.ring) = 0 /\ RingCap \in Nat
      /\ \A r \in Reqs : pump.req[r] = "none"
  BY NoPumpTyped, RenderAssumption DEF Init, NoPump
<1>3. \A k \in Kids : pump.kid[k] = "none" /\ session[k].st = "none"
  BY DEF Init, NoPump, Sessions
<1>4. session \in [ Sessions -> SessionRecs ]
  BY DEF Init, SessionRecs
<1>5. check \in CheckRecs /\ hist \in HistRecs
  BY DEF Init, CheckRecs, HistRecs
<1>6. Typed
  <2>1. net \in [ Reqs -> {"idle", "paused", "out", "failed"} ]
    BY DEF Init
  <2>2. Len(pump.ring) <= RingCap
    BY <1>2, RenderAssumption
  <2> QED
    BY <1>1, <1>2, <1>4, <1>5, <2>1, <2>2 DEF Init, Typed
<1>7. KidsGuarded /\ PageGuarded
  BY <1>1, <1>3 DEF KidsGuarded, PageGuarded
<1>8. Requests /\ PumpStands
  BY <1>2 DEF Init, Requests, PumpStands
<1>9. Reaping /\ Blaming /\ Final
  BY <1>1 DEF Init, Reaping, Blaming, BlameIsOurs, Final
<1> QED
  BY <1>6, <1>7, <1>8, <1>9 DEF IInv

LEMMA NextInv == IInv /\ [Next]_vars => IInv'
<1> SUFFICES ASSUME IInv, [Next]_vars
             PROVE  IInv'
  OBVIOUS
<1>1. CASE Fetch
  <2>1. CASE SetupStep
    BY <2>1, SetupKeepsInv
  <2>2. CASE WorkStep
    BY <2>2, WorkKeepsInv
  <2>3. CASE Leftover \/ FinalUrl \/ Finish \/ Reaped \/ Cancel
    BY <2>3, LeftoverKeepsInv, FinalUrlKeepsInv, FinishKeepsInv, CancelKeepsInv
  <2> QED
    BY <1>1, <2>1, <2>2, <2>3 DEF Fetch, SetupStep, WorkStep
<1>2. CASE Pump
  BY <1>2, TakeKidKeepsInv, TakeRequestKeepsInv, AuthFailsKeepsInv, ChildKeepsInv,
     JudgeKeepsInv, AnswerKeepsInv DEF Pump
<1>3. CASE Reap
  BY <1>3, ReapKeepsInv
<1>4. CASE Browser
  BY <1>4, KidStartsKeepsInv, RequestStartsKeepsInv DEF Browser
<1>5. CASE UNCHANGED vars
  BY <1>5 DEF vars, IInv, Typed, KidsGuarded, PageGuarded, Requests, PumpStands, PumpRuns,
              Reaping, Blaming, BlameIsOurs, Final, Settled
<1> QED
  BY <1>1, <1>2, <1>3, <1>4, <1>5 DEF Next

(* The inductive invariant. *)
THEOREM Inductive == Spec => []IInv
<1> QED
  BY InitInv, NextInv, PTL DEF Spec

(* A request leaves the browser only to a host a check let through, and one    *)
(* the pump has taken on is failed at teardown if it is still held.             *)
THEOREM Checked == Spec => []RequestsAreChecked
<1>1. IInv => RequestsAreChecked
  BY DEF IInv, Requests, Typed, HistRecs, RequestsAreChecked, OnlyCheckedLeave, NothingForgotten
<1> QED
  BY <1>1, Inductive, PTL

(* No child runs before both its guards are on. *)
THEOREM ChildrenGuarded == Spec => []NoUnguardedChild
<1>1. IInv => NoUnguardedChild
  BY DEF IInv, KidsGuarded, NoUnguardedChild
<1> QED
  BY <1>1, Inductive, PTL

(* A target the render knows of is closed, or reported, before its connection  *)
(* goes.                                                                        *)
THEOREM TargetReaped == Spec => []TargetIsReaped
<1>1. IInv => TargetIsReaped
  BY DEF IInv, Reaping, TargetIsReaped
<1> QED
  BY <1>1, Inductive, PTL

(* Whom a render blames, and what it delivers, follow from what its checks and *)
(* its pages came to.                                                            *)
THEOREM VerdictTrue == Spec => []VerdictIsTrue
<1>1. IInv => BlameIsOurs /\ PageIsFinal
  BY DEF IInv, Blaming, BlameIsOurs, Final, Settled, PageIsFinal
<1>2. IInv => TypeOK
  <2> SUFFICES ASSUME IInv
               PROVE  TypeOK
    OBVIOUS
  <2>1. Pcs \subseteq {"connect", "reconnect", "leftover", "href", "finish", "reap", "over"}
                       \cup { Setup[i] : i \in 1..Len(Setup) } \cup Working
    <3>1. \A i \in 1..11 : Setup[i] \in { Setup[j] : j \in 1..Len(Setup) }
      BY SetupIs
    <3>2. Before \cup {"navigate"} \subseteq { Setup[j] : j \in 1..Len(Setup) }
      BY <3>1, SetupIs DEF Before
    <3> QED
      BY <3>2 DEF Pcs, Before, Working, Phase
  <2>2. main \in MainRecs /\ pump \in PumpRecs /\ check \in CheckRecs
    BY DEF IInv, Typed
  <2>3. main \in [ pc : {"connect", "reconnect", "leftover", "href", "finish", "reap", "over"}
                       \cup { Setup[i] : i \in 1..Len(Setup) } \cup Working,
                html : Kinds, cut : BOOLEAN, tries : 0..MaxRetries, pinned : BOOLEAN,
                sent : BOOLEAN,
                res : {"none", "page", "error", "timeout", "unchecked", "auth", "dropped"} ]
    BY <2>1, <2>2 DEF MainRecs, Outcomes
  <2> QED
    BY <2>2, <2>3 DEF IInv, Typed, TypeOK, PumpRecs, CheckRecs, SessionRecs
<1> QED
  BY <1>1, <1>2, Inductive, PTL DEF VerdictIsTrue

=============================================================================
