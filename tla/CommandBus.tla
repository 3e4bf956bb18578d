----------------------------- MODULE CommandBus -----------------------------
(***************************************************************************)
(* The Redis-backed MQTT command bus (services/mqtt_command_bus.py) and    *)
(* its callers (services/base_command_send_service.py).                    *)
(*                                                                         *)
(* A caller stores a request hash and appends a stream entry in one        *)
(* transaction, then polls the hash.  The runner's worker thread reads the *)
(* entry, publishes the command over MQTT, waits for the broker and, when  *)
(* asked to, for the device, writes the terminal status and acknowledges   *)
(* the entry.  The runner's MQTT callback thread completes the request     *)
(* when a status message carries its check code.  Entries left pending by  *)
(* a crash, a stop or a Redis failure are claimed again.                   *)
(*                                                                         *)
(* Every Redis command or transaction is one step; between two of them     *)
(* anything else may happen.  Time is abstract: a deadline passes, a       *)
(* timeout fires and a pending entry becomes old enough to be claimed at   *)
(* any moment.                                                             *)
(***************************************************************************)
EXTENDS Integers

CONSTANTS
  Requests,       \* request ids; a caller issues each one once
  Resources,      \* the sensors and devices that commands are sent to
  Target,         \* the resource each request is for
  NeedsAck,       \* the requests sent with require_device_ack
  Malformed,      \* the requests whose entry fails the worker's validation
  Codes,          \* the check codes that can be drawn
  Workers,        \* worker threads, one per runner process and restart
  None,
  SingleOwner,    \* one live worker at a time: the lease is never outlived
  FreshCodes,     \* no check code is drawn twice
  RecordsExpire,  \* a request hash may reach MQTT_COMMAND_RESULT_TTL
  MaxFaults       \* bound on crashes and Redis failures

ASSUME BusAssumption ==
  /\ Target \in [Requests -> Resources]
  /\ NeedsAck \subseteq Requests /\ Malformed \subseteq Requests
  /\ None \notin Requests \cup Codes \cup Workers
  /\ {SingleOwner, FreshCodes, RecordsExpire} \subseteq BOOLEAN
  /\ MaxFaults \in Nat

VARIABLES
  \* Redis
  status,     \* the status field of each request hash
  entry,      \* where the stream entry of each request is
  pos,        \* its stream id, 0 before XADD
  lastId,     \* the last stream id given
  checkMap,   \* check code -> the request it was reserved for
  \* the callers
  caller,
  codeOf,     \* the check code in the payload of each request
  late,       \* the requests whose execute_before has passed
  \* the worker threads
  live,       \* the workers whose process runs
  online,     \* those whose runner is connected to the broker
  pc, msg, recovered, verdict,
  \* the MQTT callback thread, in resolve_check_code
  hpc, hreq, hcode,
  \* MQTT and the devices
  sent,       \* how often each command was handed to the MQTT client
  broker,     \* the commands the broker has taken
  executed,   \* the commands their device has executed
  acks,       \* status messages that carry a check code; never lost, so that
              \* a delayed or duplicated one is always possible
  \* history and bounds
  settled,    \* the requests that had a terminal status at some time
  drawn,      \* the check codes that were ever drawn
  faults

idVars     == <<pos, lastId>>
streamVars == <<entry, idVars>>
redisVars  == <<status, streamVars, checkMap>>
callerVars == <<caller, codeOf, late, drawn>>
runnerVars == <<live, online>>
workerVars == <<runnerVars, pc, msg, recovered, verdict>>
handlerVars == <<hpc, hreq, hcode>>
mqttVars   == <<sent, broker, executed, acks>>
vars == <<redisVars, callerVars, workerVars, handlerVars, mqttVars,
          settled, faults>>

Pending == {"queued", "publishing", "awaiting_device_ack"}

Terminal ==
  {"broker_acked", "device_acked", "expired_before_publish",
   "broker_timeout", "broker_unavailable", "device_ack_timeout",
   "delivery_unknown", "rejected"}

Statuses == {"absent"} \cup Pending \cup Terminal

PCs == {"idle", "lookup", "deadline", "mark", "publish", "puback",
        "transition", "wait", "complete", "ack"}

TypeOK ==
  /\ status \in [Requests -> Statuses]
  /\ entry \in [Requests -> {"none", "new", "pending", "gone"}]
  /\ pos \in [Requests -> Nat]
  /\ lastId \in Nat
  /\ checkMap \in [Codes -> Requests \cup {None}]
  /\ caller \in [Requests -> {"idle", "reserved", "waiting", "ok", "failed"}]
  /\ codeOf \in [Requests -> Codes \cup {None}]
  /\ late \subseteq Requests
  /\ live \subseteq Workers /\ online \subseteq live
  /\ pc \in [Workers -> PCs]
  /\ msg \in [Workers -> Requests \cup {None}]
  /\ recovered \in [Workers -> BOOLEAN]
  /\ verdict \in [Workers -> Terminal \cup {None}]
  /\ hpc \in {"idle", "complete", "delete"}
  /\ hreq \in Requests \cup {None}
  /\ hcode \in Codes \cup {None}
  /\ sent \in [Requests -> Nat]
  /\ broker \subseteq Requests
  /\ executed \subseteq Requests
  /\ acks \subseteq [code : Codes, from : Resources]
  /\ settled \subseteq Requests
  /\ drawn \subseteq Codes
  /\ faults \in 0 .. MaxFaults

Init ==
  /\ status = [r \in Requests |-> "absent"]
  /\ entry = [r \in Requests |-> "none"]
  /\ pos = [r \in Requests |-> 0]
  /\ lastId = 0
  /\ checkMap = [c \in Codes |-> None]
  /\ caller = [r \in Requests |-> "idle"]
  /\ codeOf = [r \in Requests |-> None]
  /\ late = {}
  /\ live = {} /\ online = {}
  /\ pc = [w \in Workers |-> "idle"]
  /\ msg = [w \in Workers |-> None]
  /\ recovered = [w \in Workers |-> FALSE]
  /\ verdict = [w \in Workers |-> None]
  /\ hpc = "idle" /\ hreq = None /\ hcode = None
  /\ sent = [r \in Requests |-> 0]
  /\ broker = {} /\ executed = {} /\ acks = {}
  /\ settled = {} /\ drawn = {}
  /\ faults = 0

-----------------------------------------------------------------------------
(* Redis helpers                                                           *)

\* The test under WATCH in complete_if_pending and transition_if_pending.
StillPending(r) == status[r] \notin Terminal

\* complete_if_pending: a terminal status is written unless one is there.
CompleteIfPending(r, s) ==
  /\ status' = IF StillPending(r) THEN [status EXCEPT ![r] = s] ELSE status
  /\ settled' = settled \cup {r}

\* An environment step that costs one unit of the fault budget.
Fault == faults < MaxFaults /\ faults' = faults + 1

\* What a caller counts as success.
Expected(r) == IF r \in NeedsAck THEN "device_acked" ELSE "broker_acked"

-----------------------------------------------------------------------------
(* Callers: enqueue_command and wait_result, from _publish_command.        *)

\* SET NX of a random code.  The reply may be lost: the code stays reserved
\* for a request that will never be enqueued.
ReserveCheckCode(r) ==
  /\ r \in NeedsAck /\ caller[r] = "idle"
  /\ \E c \in Codes :
       /\ checkMap[c] = None
       /\ FreshCodes => c \notin drawn
       /\ checkMap' = [checkMap EXCEPT ![c] = r]
       /\ codeOf' = [codeOf EXCEPT ![r] = c]
       /\ drawn' = drawn \cup {c}
  /\ \/ caller' = [caller EXCEPT ![r] = "reserved"] /\ UNCHANGED faults
     \/ caller' = [caller EXCEPT ![r] = "failed"] /\ Fault
  /\ UNCHANGED <<status, streamVars, late, workerVars, handlerVars, mqttVars,
                 settled>>

\* MULTI { HSET, EXPIRE, XADD } EXEC.  When the reply is lost the caller
\* fails although the transaction may have been applied.
EnqueueCommand(r) ==
  /\ caller[r] = IF r \in NeedsAck THEN "reserved" ELSE "idle"
  /\ \E applied, replied \in BOOLEAN :
       /\ replied => applied
       /\ caller' = [caller EXCEPT ![r] = IF replied THEN "waiting"
                                                     ELSE "failed"]
       /\ IF replied THEN UNCHANGED faults ELSE Fault
       /\ IF applied
          THEN /\ status' = [status EXCEPT ![r] = "queued"]
               /\ entry' = [entry EXCEPT ![r] = "new"]
               /\ lastId' = lastId + 1
               /\ pos' = [pos EXCEPT ![r] = lastId + 1]
          ELSE UNCHANGED <<status, streamVars>>
  /\ UNCHANGED <<checkMap, codeOf, late, drawn, workerVars, handlerVars,
                 mqttVars, settled>>

\* wait_result returns a terminal status; only the expected one is success.
WaitResult(r) ==
  /\ caller[r] = "waiting" /\ status[r] \in Terminal
  /\ caller' = [caller EXCEPT ![r] = IF status[r] = Expected(r) THEN "ok"
                                                                 ELSE "failed"]
  /\ UNCHANGED <<redisVars, codeOf, late, drawn, workerVars, handlerVars,
                 mqttVars, settled, faults>>

\* The caller's own timeout, or Redis failing while it polls.
GiveUp(r) ==
  /\ caller[r] = "waiting"
  /\ caller' = [caller EXCEPT ![r] = "failed"]
  /\ UNCHANGED <<redisVars, codeOf, late, drawn, workerVars, handlerVars,
                 mqttVars, settled, faults>>

DeadlinePasses(r) ==
  /\ caller[r] \notin {"idle", "reserved"} /\ r \notin late
  /\ late' = late \cup {r}
  /\ UNCHANGED <<redisVars, caller, codeOf, drawn, workerVars, handlerVars,
                 mqttVars, settled, faults>>

-----------------------------------------------------------------------------
(* The worker thread: MqttCommandWorker.run and _process.                  *)

\* A step that changes nothing but the local state of a worker.
WorkerOnly ==
  UNCHANGED <<redisVars, callerVars, handlerVars, mqttVars, settled, faults>>

\* The local state of worker w becomes: at step p, with the rest unchanged.
Goto(w, p) == /\ pc' = [pc EXCEPT ![w] = p]
              /\ UNCHANGED <<runnerVars, msg, recovered, verdict>>

\* Worker w is about to complete its request with status s.
Conclude(w, s) == /\ pc' = [pc EXCEPT ![w] = "complete"]
                  /\ verdict' = [verdict EXCEPT ![w] = s]
                  /\ UNCHANGED <<runnerVars, msg, recovered>>

\* Worker w is done with its entry, acknowledged or not.
Drop(w) == /\ pc' = [pc EXCEPT ![w] = "idle"]
           /\ msg' = [msg EXCEPT ![w] = None]
           /\ recovered' = [recovered EXCEPT ![w] = FALSE]
           /\ verdict' = [verdict EXCEPT ![w] = None]

\* A runner that holds the lease starts its worker, or replaces a dead one.
StartWorker(w) ==
  /\ w \notin live
  /\ SingleOwner => live = {}
  /\ live' = live \cup {w}
  /\ UNCHANGED <<redisVars, callerVars, online, pc, msg, recovered, verdict,
                 handlerVars, mqttVars, settled, faults>>

\* The network thread of w's runner: the broker answers the CONNECT.
Connect(w) ==
  /\ w \in live \ online
  /\ online' = online \cup {w}
  /\ UNCHANGED <<redisVars, callerVars, live, pc, msg, recovered, verdict,
                 handlerVars, mqttVars, settled, faults>>

\* The connection is lost, or closed by a reload, at any moment.
Disconnect(w) ==
  /\ w \in online
  /\ online' = online \ {w}
  /\ UNCHANGED <<redisVars, callerVars, live, pc, msg, recovered, verdict,
                 handlerVars, mqttVars, settled, faults>>

\* The process dies between any two steps.
Crash(w) ==
  /\ w \in live /\ Fault
  /\ live' = live \ {w} /\ online' = online \ {w}
  /\ Drop(w)
  /\ UNCHANGED <<redisVars, callerVars, handlerVars, mqttVars, settled>>

\* Mutant: XACK in a finally block, whatever happened to the command.
AbandonAcked(w) ==
  /\ pc[w] # "idle" /\ Fault
  /\ entry' = [entry EXCEPT ![msg[w]] = "gone"]
  /\ Drop(w)
  /\ UNCHANGED <<status, idVars, checkMap, callerVars, runnerVars,
                 handlerVars, mqttVars, settled>>

\* Redis is unavailable or the runner is stopping: _process returns or raises
\* without XACK and the entry stays pending.
Abandon(w) ==
  /\ pc[w] # "idle" /\ Fault
  /\ Drop(w)
  /\ UNCHANGED <<redisVars, callerVars, runnerVars, handlerVars, mqttVars,
                 settled>>

\* Worker w takes the entry of r, now pending under its name.  It asks for
\* entries only while it is connected (wait_until_connected); those that it
\* got together it takes one after the other, without asking again, which is
\* a connection that comes for the taking and goes after it.
Take(w, r, again) ==
  /\ w \in online /\ pc[w] = "idle"
  /\ entry' = [entry EXCEPT ![r] = "pending"]
  /\ pc' = [pc EXCEPT ![w] = "lookup"]
  /\ msg' = [msg EXCEPT ![w] = r]
  /\ recovered' = [recovered EXCEPT ![w] = again]
  /\ UNCHANGED <<status, idVars, checkMap, callerVars, runnerVars, verdict,
                 handlerVars, mqttVars, settled, faults>>

\* Mutant: entries are delivered in any order.
IsNextAnyOrder(r) == entry[r] = "new"

\* XREADGROUP ">" with count 1 returns the oldest undelivered entry.
IsNext(r) == /\ entry[r] = "new"
             /\ \A q \in Requests : entry[q] = "new" => pos[r] <= pos[q]

ReadCommand(w) == \E r \in Requests : IsNext(r) /\ Take(w, r, FALSE)

\* Mutant: a server without XAUTOCLAIM, on which nothing is ever claimed.
ClaimStaleUnsupported(w) == FALSE /\ UNCHANGED vars

\* XAUTOCLAIM of an entry that was delivered and not acknowledged.
ClaimStale(w) ==
  \E r \in Requests : entry[r] = "pending" /\ Take(w, r, TRUE)

\* Mutant: a recovered entry is published again like a new one.
InDoubtForgotten(w) == FALSE

\* A recovered entry whose publish may or may not have happened.
InDoubt(w) == recovered[w] /\ status[msg[w]] = "publishing"

\* get_request; every later decision on the status uses this one reading.
Lookup(w) ==
  /\ pc[w] = "lookup"
  /\ CASE status[msg[w]] \in Terminal -> Goto(w, "ack")
       [] InDoubt(w) -> Conclude(w, "delivery_unknown")
       [] recovered[w] /\ status[msg[w]] = "awaiting_device_ack" ->
            Goto(w, "wait")
       [] OTHER -> Goto(w, "deadline")
  /\ WorkerOnly

CheckDeadline(w) ==
  /\ pc[w] = "deadline"
  /\ CASE msg[w] \in late -> Conclude(w, "expired_before_publish")
       [] msg[w] \in Malformed \ late -> Conclude(w, "rejected")
       [] OTHER -> Goto(w, "mark")
  /\ WorkerOnly

\* set_state("publishing"), with no test of the current status.
MarkPublishing(w) ==
  /\ pc[w] = "mark"
  /\ status' = [status EXCEPT ![msg[w]] = "publishing"]
  /\ Goto(w, "publish")
  /\ UNCHANGED <<streamVars, checkMap, callerVars, handlerVars, mqttVars,
                 settled, faults>>

\* publish_wait finds no connection; or the client refuses the message, or
\* raises.
PublishRefused(w) ==
  /\ pc[w] = "publish"
  /\ \E s \in IF w \in online THEN {"broker_timeout", "delivery_unknown"}
                             ELSE {"broker_unavailable"} :
       Conclude(w, s)
  /\ WorkerOnly

\* client.publish: from here on the broker may get the command at any time.
HandOver(w) ==
  /\ pc[w] = "publish" /\ w \in online
  /\ sent' = [sent EXCEPT ![msg[w]] = @ + 1]
  /\ Goto(w, "puback")
  /\ UNCHANGED <<redisVars, callerVars, handlerVars, broker, executed, acks,
                 settled, faults>>

\* Mutant: a PUBACK timeout is reported like a missing connection.
WaitPubackUnavailable(w) ==
  /\ pc[w] = "puback"
  /\ Conclude(w, IF msg[w] \in broker THEN "broker_acked"
                                      ELSE "broker_unavailable")
  /\ WorkerOnly

\* wait_for_publish: the PUBACK, the timeout, or an exception.
WaitPuback(w) ==
  /\ pc[w] = "puback"
  /\ \/ /\ msg[w] \in broker
        /\ IF msg[w] \in NeedsAck THEN Goto(w, "transition")
                                  ELSE Conclude(w, "broker_acked")
     \/ \E s \in {"broker_timeout", "delivery_unknown"} : Conclude(w, s)
  /\ WorkerOnly

\* Mutant: set_state, which overwrites a fast acknowledgement.
TransitionOverwrites(w) ==
  /\ pc[w] = "transition"
  /\ status' = [status EXCEPT ![msg[w]] = "awaiting_device_ack"]
  /\ Goto(w, "wait")
  /\ UNCHANGED <<streamVars, checkMap, callerVars, handlerVars, mqttVars,
                 settled, faults>>

\* transition_if_pending("awaiting_device_ack").
TransitionAwaiting(w) ==
  /\ pc[w] = "transition"
  /\ status' = IF StillPending(msg[w])
               THEN [status EXCEPT ![msg[w]] = "awaiting_device_ack"]
               ELSE status
  /\ Goto(w, IF status[msg[w]] = "device_acked" THEN "ack" ELSE "wait")
  /\ UNCHANGED <<streamVars, checkMap, callerVars, handlerVars, mqttVars,
                 settled, faults>>

\* Mutant: the worker takes the end of its wait for the acknowledgement.
AwaitDeviceOptimistic(w) ==
  /\ pc[w] = "wait"
  /\ Conclude(w, "device_acked")
  /\ WorkerOnly

\* wait_result: the last status read is device_acked, or anything else.
AwaitDevice(w) ==
  /\ pc[w] = "wait"
  /\ IF status[msg[w]] = "device_acked"
     THEN Goto(w, "ack")
     ELSE Conclude(w, "device_ack_timeout")
  /\ WorkerOnly

Complete(w) ==
  /\ pc[w] = "complete"
  /\ CompleteIfPending(msg[w], verdict[w])
  /\ Goto(w, "ack")
  /\ UNCHANGED <<streamVars, checkMap, callerVars, handlerVars, mqttVars,
                 faults>>

\* MULTI { XACK, XDEL } EXEC.
AckCommand(w) ==
  /\ pc[w] = "ack"
  /\ entry' = [entry EXCEPT ![msg[w]] = "gone"]
  /\ Drop(w)
  /\ UNCHANGED <<status, idVars, checkMap, callerVars, runnerVars,
                 handlerVars, mqttVars, settled, faults>>

-----------------------------------------------------------------------------
(* The MQTT callback thread: resolve_check_code for a status message.      *)

\* Mutant: the sender of the status message is not compared.
ResolvesAnySender(m, r) == checkMap[m.code] = r

\* The mapping of m's code, if it is there and belongs to m's sender.
Resolves(m, r) == checkMap[m.code] = r /\ Target[r] = m.from

LookupCheckCode ==
  /\ hpc = "idle"
  /\ \E m \in acks, r \in Requests :
       Resolves(m, r) /\ hpc' = "complete" /\ hreq' = r /\ hcode' = m.code
  /\ UNCHANGED <<redisVars, callerVars, workerVars, mqttVars, settled, faults>>

CompleteAcked ==
  /\ hpc = "complete"
  /\ CompleteIfPending(hreq, "device_acked")
  /\ hpc' = "delete"
  /\ UNCHANGED <<streamVars, checkMap, callerVars, workerVars, hreq, hcode,
                 mqttVars, faults>>

DeleteCheckCode ==
  /\ hpc = "delete"
  /\ checkMap' = [checkMap EXCEPT ![hcode] = None]
  /\ hpc' = "idle" /\ hreq' = None /\ hcode' = None
  /\ UNCHANGED <<status, streamVars, callerVars, workerVars, mqttVars,
                 settled, faults>>

\* A Redis failure in resolve_check_code is swallowed by the handler.
AbandonAck ==
  /\ hpc # "idle" /\ Fault
  /\ hpc' = "idle" /\ hreq' = None /\ hcode' = None
  /\ UNCHANGED <<redisVars, callerVars, workerVars, mqttVars, settled>>

-----------------------------------------------------------------------------
(* The broker, the devices and the Redis key expiry.                       *)

BrokerTakes(r) ==
  /\ sent[r] > 0 /\ r \notin broker
  /\ broker' = broker \cup {r}
  /\ UNCHANGED <<redisVars, callerVars, workerVars, handlerVars, sent,
                 executed, acks, settled, faults>>

\* The device echoes the check code of the command in its status message.
DeviceExecutes(r) ==
  /\ r \in broker \ executed
  /\ executed' = executed \cup {r}
  /\ acks' = IF r \in NeedsAck
             THEN acks \cup {[code |-> codeOf[r], from |-> Target[r]]}
             ELSE acks
  /\ UNCHANGED <<redisVars, callerVars, workerVars, handlerVars, sent, broker,
                 settled, faults>>

\* The TTL of a check code runs from its reservation, whatever became of its
\* request.
CodeExpires(c) ==
  /\ checkMap[c] # None
  /\ checkMap' = [checkMap EXCEPT ![c] = None]
  /\ UNCHANGED <<status, streamVars, callerVars, workerVars, handlerVars,
                 mqttVars, settled, faults>>

\* A request hash outlives its deadline, its check code and every single
\* step on it, and is then dropped, the stream entry notwithstanding.
RecordExpires(r) ==
  /\ RecordsExpire /\ status[r] # "absent" /\ r \in late
  /\ \A c \in Codes : checkMap[c] # r
  /\ hreq # r /\ \A w \in Workers : msg[w] # r
  /\ status' = [status EXCEPT ![r] = "absent"]
  /\ UNCHANGED <<streamVars, checkMap, callerVars, workerVars, handlerVars,
                 mqttVars, settled, faults>>

-----------------------------------------------------------------------------
CallerStep(r) ==
  \/ ReserveCheckCode(r) \/ EnqueueCommand(r) \/ WaitResult(r) \/ GiveUp(r)
  \/ DeadlinePasses(r)

Process(w) ==
  \/ Lookup(w) \/ CheckDeadline(w) \/ MarkPublishing(w) \/ PublishRefused(w)
  \/ HandOver(w) \/ WaitPuback(w) \/ TransitionAwaiting(w) \/ AwaitDevice(w)
  \/ Complete(w) \/ AckCommand(w)

HandlerStep ==
  LookupCheckCode \/ CompleteAcked \/ DeleteCheckCode \/ AbandonAck

Next ==
  \/ \E r \in Requests : \/ CallerStep(r) \/ BrokerTakes(r)
                         \/ DeviceExecutes(r) \/ RecordExpires(r)
  \/ \E w \in Workers : \/ StartWorker(w) \/ Connect(w) \/ Disconnect(w)
                        \/ Crash(w) \/ Abandon(w)
                        \/ ReadCommand(w) \/ ClaimStale(w) \/ Process(w)
  \/ HandlerStep
  \/ \E c \in Codes : CodeExpires(c)

Spec == Init /\ [][Next]_vars

\* The worker thread keeps running and is replaced when it dies; a caller
\* stops waiting.  Nothing is assumed of the broker, which may stay away, so
\* that a worker reads and claims nothing, nor of the devices or Redis.
Fairness ==
  /\ WF_vars(\E w \in Workers : StartWorker(w))
  /\ \A w \in Workers : WF_vars(Process(w))
  /\ \A w \in Workers : WF_vars(ReadCommand(w)) /\ WF_vars(ClaimStale(w))
  /\ \A r \in Requests : WF_vars(WaitResult(r) \/ GiveUp(r))

FairSpec == Spec /\ Fairness
-----------------------------------------------------------------------------
(* Properties                                                              *)

\* A command is handed to the MQTT client at most once, whatever crashes and
\* claims happen: commands are not idempotent.
AtMostOncePublish == \A r \in Requests : sent[r] <= 1

\* The terminal statuses that tell the caller that nothing was sent.
NotSent == {"expired_before_publish", "broker_unavailable", "rejected"}

\* A status that says that nothing was sent is only given to a command that
\* was never handed to the MQTT client.
DefiniteFailureUnsent ==
  \A r \in Requests : status[r] \in NotSent => sent[r] = 0

\* A caller is told of success only if the broker has the command and, when
\* the caller asked for the device, the device has executed this very command.
OkIsGenuine ==
  \A r \in Requests :
    caller[r] = "ok" => r \in broker /\ (r \in NeedsAck => r \in executed)

\* A stream entry is deleted only after the request got a terminal status:
\* no crash or failure makes a command vanish without a result.
NoSilentDrop == \A r \in Requests : entry[r] = "gone" => r \in settled

\* The same three promises hold when request hashes reach their TTL while
\* their entries are still pending, so that a worker may find no status.
SafeWithoutRecords == AtMostOncePublish /\ OkIsGenuine /\ NoSilentDrop

\* A terminal status is never replaced, neither by another terminal status
\* nor by the worker's set_state, while the request hash exists.
TerminalIsFinal ==
  [][\A r \in Requests : status[r] \in Terminal =>
       status'[r] \in {status[r], "absent"}]_vars

\* A command that was not left pending by a fault is not handed over after a
\* later one: the stream order is the order in which commands are sent.
SentInStreamOrder ==
  [][\A r, q \in Requests, w \in Workers :
       /\ sent'[r] > sent[r] /\ msg[w] = r /\ ~recovered[w]
       /\ pos[q] > pos[r]
       => sent[q] = 0]_vars

\* Only a status message of the request's own resource, with the request's
\* check code, makes a request device_acked.
AckFromTarget ==
  \A r \in Requests :
    status[r] = "device_acked" =>
      [code |-> codeOf[r], from |-> Target[r]] \in acks

\* From some time on a worker that lives is connected to the broker.
BrokerReachable == \A w \in Workers : <>[](w \in live => w \in online)

\* When the broker is reachable in the end, an entry of the stream is
\* acknowledged and deleted, with a result, whatever the broker does with the
\* commands and the devices with theirs.  While it is away, none need be.
EntrySettles ==
  BrokerReachable =>
    \A r \in Requests :
      entry[r] \in {"new", "pending"} ~> entry[r] = "gone" /\ r \in settled

\* A status and a caller's state in terms of the promise.
Phase(s) == CASE s = "absent" -> "new"
              [] s \in Pending -> "pending"
              [] OTHER -> s

Answer(c) == IF c \in {"ok", "failed"} THEN c ELSE "none"

PhaseOf == [r \in Requests |-> Phase(status[r])]

AnswerOf == [r \in Requests |-> Answer(caller[r])]

\* The bus implements the promise of CommandRequest.
Request == INSTANCE CommandRequest
             WITH phase <- PhaseOf, sends <- sent, answer <- AnswerOf

ImplementsRequest == Request!Spec
=============================================================================
