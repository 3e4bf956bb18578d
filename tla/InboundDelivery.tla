--------------------------- MODULE InboundDelivery ---------------------------
(***************************************************************************)
(* The way of a report from the broker into the database.                  *)
(*                                                                         *)
(* A receiver, the network thread of a runner, handles one QoS 1 message   *)
(* at a time: it stores a row and the heartbeat of the sensor or device in *)
(* one transaction and only then acknowledges; what it cannot store goes   *)
(* to the dead-letter stream.  Two receivers exist while a runner takes    *)
(* over from one that is still busy; the broker keeps one connection.      *)
(*                                                                         *)
(* Whether the sensor or device of a report exists, and whether the        *)
(* database takes it, may differ from one delivery to the next.            *)
(***************************************************************************)
EXTENDS Integers, FiniteSets

CONSTANTS
  IbMsgs,      \* the messages, numbers in the order of their publication
  IbKind,      \* the handler of each message
  IbBad,       \* the messages that every delivery refuses
  IbReceivers,
  IbWindow,    \* the broker's limit of unacknowledged messages
  IbSkew,      \* the five minutes by which clocks may differ
  IbMaxClock, IbMaxCopies,  \* bounds on the time and on stored copies
  IbNobody

ASSUME InboundAssumption ==
  /\ IbMsgs \subseteq Nat \ {0}
  /\ IbKind \in [IbMsgs -> {"data", "status", "device"}]
  /\ IbBad \subseteq IbMsgs
  /\ IbNobody \notin IbReceivers
  /\ IbWindow \in Nat /\ IbMaxClock \in Nat /\ IbMaxCopies \in Nat
  /\ IbSkew \in Nat \ {0}

VARIABLES
  ibBroker,    \* where each message is: queued, inflight or acked
  ibConn,      \* the receiver that is connected
  ibRecv,      \* the message each receiver handles, and how far it is
  ibStored,    \* how often each message has been stored
  ibSeen,      \* last_seen of the sensor and of the device
  ibDead,      \* the dead-letter stream
  ibResolved,  \* the messages whose check code has been resolved
  ibClock

ibVars == <<ibBroker, ibConn, ibRecv, ibStored, ibSeen, ibDead, ibResolved, ibClock>>

IbEntities == {"sensor", "device"}
IbEntity(m) == IF IbKind[m] = "device" THEN "device" ELSE "sensor"

IbIdle == [phase |-> "idle", msg |-> 0, ts |-> 0]

IbTypeOK ==
  /\ ibBroker \in [IbMsgs -> {"queued", "inflight", "acked"}]
  /\ ibConn \in IbReceivers \cup {IbNobody}
  /\ ibRecv \in [IbReceivers ->
       [phase : {"idle", "handle", "store", "resolve", "dead", "ack"},
        msg : IbMsgs \cup {0}, ts : 0 .. IbMaxClock]]
  /\ ibStored \in [IbMsgs -> 0 .. IbMaxCopies]
  /\ ibSeen \in [IbEntities -> 0 .. IbMaxClock + IbSkew + 1]
  /\ ibDead \subseteq IbMsgs /\ ibResolved \subseteq IbMsgs
  /\ ibClock \in 0 .. IbMaxClock

\* A last_seen in the future is left over from older versions.
IbInit ==
  /\ ibBroker = [m \in IbMsgs |-> "queued"]
  /\ ibConn = IbNobody
  /\ ibRecv = [c \in IbReceivers |-> IbIdle]
  /\ ibStored = [m \in IbMsgs |-> 0]
  /\ ibSeen = [e \in IbEntities |-> IF e = "device" THEN IbMaxClock + IbSkew + 1 ELSE 0]
  /\ ibDead = {} /\ ibResolved = {} /\ ibClock = 0

-----------------------------------------------------------------------------
(* The broker.  A new connection takes the session over; what was not      *)
(* acknowledged is delivered again.                                        *)

Queued(m) == ibBroker[m] = "queued"
Inflight  == {m \in IbMsgs : ibBroker[m] = "inflight"}

Connect(c) ==
  /\ ibConn # c /\ ibRecv[c].phase = "idle"
  /\ ibConn' = c
  /\ ibBroker' = [m \in IbMsgs |-> IF ibBroker[m] = "inflight" THEN "queued" ELSE ibBroker[m]]
  /\ UNCHANGED <<ibRecv, ibStored, ibSeen, ibDead, ibResolved, ibClock>>

Deliver(c) ==
  /\ ibConn = c /\ ibRecv[c].phase = "idle"
  /\ Cardinality(Inflight) < IbWindow
  /\ \E m \in IbMsgs :
       /\ Queued(m) /\ \A k \in IbMsgs : Queued(k) => m <= k
       /\ ibBroker' = [ibBroker EXCEPT ![m] = "inflight"]
       /\ ibRecv' = [ibRecv EXCEPT ![c] = [IbIdle EXCEPT !.phase = "handle", !.msg = m]]
  /\ UNCHANGED <<ibConn, ibStored, ibSeen, ibDead, ibResolved, ibClock>>

Disconnect ==
  /\ ibConn # IbNobody /\ ibConn' = IbNobody
  /\ UNCHANGED <<ibBroker, ibRecv, ibStored, ibSeen, ibDead, ibResolved, ibClock>>

ReceiverDies(c) ==
  /\ ibRecv[c].phase # "idle"
  /\ ibRecv' = [ibRecv EXCEPT ![c] = IbIdle]
  /\ ibConn' = IF ibConn = c THEN IbNobody ELSE ibConn
  /\ UNCHANGED <<ibBroker, ibStored, ibSeen, ibDead, ibResolved, ibClock>>

-----------------------------------------------------------------------------
(* The handlers.                                                           *)

Goto(c, p) == ibRecv' = [ibRecv EXCEPT ![c].phase = p]

Handles(c, kind) == ibRecv[c].phase = "handle" /\ IbKind[ibRecv[c].msg] = kind
Stores(c, kind)  == ibRecv[c].phase = "store" /\ IbKind[ibRecv[c].msg] = kind

\* A message that is too large, is not JSON or has no handler, and one that
\* its handler refuses or fails to store, is to be a dead letter.
OnMessageFails(c) ==
  /\ ibRecv[c].phase \in {"handle", "store"}
  /\ Goto(c, "dead")
  /\ UNCHANGED <<ibBroker, ibConn, ibStored, ibSeen, ibDead, ibResolved, ibClock>>

\* The fields are there, the sensor or device exists, and the report is not
\* empty; the server's time is read.
Accept(c) ==
  /\ ibRecv[c].msg \notin IbBad
  /\ ibRecv' = [ibRecv EXCEPT ![c].phase = "store", ![c].ts = ibClock]
  /\ UNCHANGED <<ibBroker, ibConn, ibStored, ibSeen, ibDead, ibResolved, ibClock>>

HandleData(c)         == Handles(c, "data") /\ Accept(c)
HandleSensorStatus(c) == Handles(c, "status") /\ Accept(c)
HandleDeviceStatus(c) == Handles(c, "device") /\ Accept(c)

\* Mutant: the time of this report, whatever has been stored since it was read.
UpdateLastSeenPlain(seen, ts, now) == ts

\* The conditional UPDATE: never back, but a value that is clearly in the
\* future becomes the database's time.
UpdateLastSeen(seen, ts, now) ==
  IF seen < ts THEN ts ELSE IF seen > now + IbSkew THEN now ELSE seen

UpdateHeartbeat(seen, ts, now) == UpdateLastSeen(seen, ts, now)

\* One transaction: the heartbeat, and the row.
Save(c, e, seen, next) ==
  /\ ibStored[ibRecv[c].msg] < IbMaxCopies
  /\ ibSeen' = [ibSeen EXCEPT ![e] = seen]
  /\ ibStored' = [ibStored EXCEPT ![ibRecv[c].msg] = @ + 1]
  /\ Goto(c, next)
  /\ UNCHANGED <<ibBroker, ibConn, ibDead, ibResolved, ibClock>>

SaveData(c) ==
  /\ Stores(c, "data")
  /\ Save(c, "sensor", UpdateLastSeen(ibSeen["sensor"], ibRecv[c].ts, ibClock), "ack")
SaveSensorStatus(c) ==
  /\ Stores(c, "status")
  /\ Save(c, "sensor", UpdateLastSeen(ibSeen["sensor"], ibRecv[c].ts, ibClock), "resolve")
SaveDeviceStatus(c) ==
  /\ Stores(c, "device")
  /\ Save(c, "device", UpdateHeartbeat(ibSeen["device"], ibRecv[c].ts, ibClock), "resolve")

\* Mutant: the command is resolved as soon as its report is accepted.
ResolveEarly(c) ==
  /\ ibRecv[c].phase \in {"store", "resolve"}
  /\ IF ibRecv[c].phase = "resolve" THEN Goto(c, "ack") ELSE UNCHANGED ibRecv
  /\ ibResolved' = ibResolved \cup {ibRecv[c].msg}
  /\ UNCHANGED <<ibBroker, ibConn, ibStored, ibSeen, ibDead, ibClock>>

\* The outcome of the command that the report answers, if any; Redis may fail
\* to take it.
ResolveCommandAck(c) ==
  /\ ibRecv[c].phase = "resolve"
  /\ Goto(c, "ack")
  /\ \/ ibResolved' = ibResolved \cup {ibRecv[c].msg}
     \/ UNCHANGED ibResolved
  /\ UNCHANGED <<ibBroker, ibConn, ibStored, ibSeen, ibDead, ibClock>>

\* Mutant: a dead letter that could not be stored is acknowledged all the same.
DeadLetterAcks(c) ==
  /\ ibRecv[c].phase = "dead"
  /\ Goto(c, "ack")
  /\ ibDead' = ibDead \cup {ibRecv[c].msg} \/ UNCHANGED ibDead
  /\ UNCHANGED <<ibBroker, ibConn, ibStored, ibSeen, ibResolved, ibClock>>

\* Without an answer of Redis the message stays unacknowledged, although it
\* may have been appended.
DeadLetter(c) ==
  /\ ibRecv[c].phase = "dead"
  /\ \/ Goto(c, "ack") /\ ibDead' = ibDead \cup {ibRecv[c].msg}
     \/ /\ ibRecv' = [ibRecv EXCEPT ![c] = IbIdle]
        /\ ibDead' = ibDead \cup {ibRecv[c].msg} \/ UNCHANGED ibDead
  /\ UNCHANGED <<ibBroker, ibConn, ibStored, ibSeen, ibResolved, ibClock>>

\* It reaches the broker only over the connection the message came by, which
\* its receiver does not replace while it handles the message.
AckInbound(c) ==
  /\ ibRecv[c].phase = "ack"
  /\ ibRecv' = [ibRecv EXCEPT ![c] = IbIdle]
  /\ \/ /\ ibConn = c
        /\ ibBroker' = [ibBroker EXCEPT ![ibRecv[c].msg] = "acked"]
     \/ UNCHANGED ibBroker
  /\ UNCHANGED <<ibConn, ibStored, ibSeen, ibDead, ibResolved, ibClock>>

IbTick ==
  /\ ibClock < IbMaxClock /\ ibClock' = ibClock + 1
  /\ UNCHANGED <<ibBroker, ibConn, ibRecv, ibStored, ibSeen, ibDead, ibResolved>>

ReceiverStep(c) ==
  \/ Deliver(c) \/ OnMessageFails(c)
  \/ HandleData(c) \/ HandleSensorStatus(c) \/ HandleDeviceStatus(c)
  \/ SaveData(c) \/ SaveSensorStatus(c) \/ SaveDeviceStatus(c) \/ ResolveCommandAck(c)
  \/ DeadLetter(c) \/ AckInbound(c)

IbNext ==
  \/ Disconnect \/ IbTick
  \/ \E c \in IbReceivers : Connect(c) \/ ReceiverDies(c) \/ ReceiverStep(c)

IbSpec == IbInit /\ [][IbNext]_ibVars

-----------------------------------------------------------------------------
(* A message that the broker forgets has been stored, or is a dead letter, *)
(* whatever crashes, disconnections, takeovers and failures of the         *)
(* database and of Redis there were (mqtt_service.py: _on_message).        *)
NoInboundLost ==
  \A m \in IbMsgs : ibBroker[m] = "acked" => m \in ibDead \/ ibStored[m] > 0

(* A command is not answered by a report that has not been stored, also    *)
(* when the same report is delivered several times and fails in between    *)
(* (the status handlers: on_commit).                                       *)
ResolvedIsStored == \A m \in ibResolved : ibStored[m] > 0

(* last_seen never goes back, whichever receiver read its time first and   *)
(* whichever commits first; only a value of the future is corrected        *)
(* (sensors/models.py: update_last_seen, devices/models.py:                *)
(* update_heartbeat).                                                      *)
HeartbeatNeverBack ==
  [][\A e \in IbEntities : ibSeen'[e] >= ibSeen[e] \/ ibSeen[e] > ibClock + IbSkew]_ibVars
=============================================================================
