--------------------------- MODULE MqttConnection ---------------------------
(***************************************************************************)
(* The connection of the runner to the MQTT broker                         *)
(* (services/mqtt_service.py).                                             *)
(*                                                                         *)
(* Three kinds of threads share the fields of MQTTService: the runner's    *)
(* main thread, which creates and stops clients under _lifecycle_lock, the *)
(* command worker, which publishes under the same lock, and the network    *)
(* thread of every Paho client, which calls _on_connect and _on_disconnect *)
(* without it.  A callback compares its client with self.client once and   *)
(* then writes three fields, one after the other; stop() detaches the      *)
(* client, resets the fields and joins the network thread.                 *)
(*                                                                         *)
(* Clients are numbered from 1 in the order they are created; 0 stands for *)
(* self.client = None.                                                     *)
(***************************************************************************)
EXTENDS Integers

CONSTANTS
  MaxClients,    \* bound on the clients created
  MaxCallbacks   \* bound on the callbacks of each client

ASSUME ConnectionAssumption ==
  MaxClients \in Nat \ {0} /\ MaxCallbacks \in Nat

VARIABLES
  client,    \* self.client
  created,   \* the number of clients created so far
  flag,      \* self.is_connected
  event,     \* self._connected_event
  state,     \* self.connection_state
  lock,      \* the holder of _lifecycle_lock, "free" if there is none
  main,      \* the step of the main thread
  old,       \* the client that stop() is stopping
  loop,      \* the network thread of each client
  link,      \* the clients that have a session with the broker
  cb,        \* the step of the callback of each client
  calls,     \* how many callbacks each client has had
  publishing \* the client that the worker is publishing on, or 0

fieldVars == <<flag, event, state>>
netVars   == <<loop, link, cb, calls>>
mainVars  == <<client, created, main, old>>
connVars == <<fieldVars, netVars, mainVars, lock, publishing>>

Clients == 1 .. MaxClients

States == {"stopped", "connecting", "connected", "disconnected", "reloading"}

\* The steps of connect_async, of stop and of the two callbacks.
MainSteps == {"idle", "load", "reset", "start",
              "reload", "detach", "clearFlag", "clearEvent", "setState", "join",
              "again"}

CallbackSteps == {"none", "upFlag", "upEvent", "upState",
                  "downFlag", "downEvent", "downState"}

ConnTypeOK ==
  /\ client \in 0 .. created
  /\ created \in 0 .. MaxClients
  /\ flag \in BOOLEAN /\ event \in BOOLEAN
  /\ state \in States
  /\ lock \in {"free", "main", "worker"}
  /\ main \in MainSteps
  /\ old \in 0 .. MaxClients
  /\ loop \in [Clients -> {"none", "running", "ended"}]
  /\ link \subseteq Clients
  /\ cb \in [Clients -> CallbackSteps]
  /\ calls \in [Clients -> 0 .. MaxCallbacks]
  /\ publishing \in 0 .. MaxClients

ConnInit ==
  /\ client = 0 /\ created = 0
  /\ flag = FALSE /\ event = FALSE /\ state = "stopped"
  /\ lock = "free" /\ main = "idle" /\ old = 0
  /\ loop = [c \in Clients |-> "none"]
  /\ link = {}
  /\ cb = [c \in Clients |-> "none"]
  /\ calls = [c \in Clients |-> 0]
  /\ publishing = 0

-----------------------------------------------------------------------------
(* The main thread: connect_async.                                         *)

\* The runner starts, retries because there is no client, or has stopped the
\* client to reconnect.
ConnectAsync ==
  /\ main \in {"idle", "again"} /\ client = 0 /\ created < MaxClients
  /\ lock = "free" /\ lock' = "main"
  /\ main' = "load"
  /\ UNCHANGED <<client, created, old, fieldVars, netVars, publishing>>

\* The configuration cannot be read or the client cannot be created; the
\* fields that a stop left are kept.
ConnectFails ==
  /\ main = "load"
  /\ state' = "disconnected"
  /\ main' = "idle" /\ lock' = "free"
  /\ UNCHANGED <<client, created, old, flag, event, netVars, publishing>>

NewClient ==
  /\ main = "load"
  /\ created' = created + 1 /\ client' = created + 1
  /\ main' = "reset"
  /\ UNCHANGED <<old, fieldVars, netVars, lock, publishing>>

\* Mutant: the new client starts with the fields of the last one.
ResetFieldsKept ==
  /\ main = "reset"
  /\ state' = "connecting"
  /\ main' = "start"
  /\ UNCHANGED <<client, created, old, flag, event, netVars, lock, publishing>>

\* No network thread is running here, so that the order does not matter.
ResetFields ==
  /\ main = "reset"
  /\ flag' = FALSE /\ event' = FALSE /\ state' = "connecting"
  /\ main' = "start"
  /\ UNCHANGED <<client, created, old, netVars, lock, publishing>>

\* loop_start; a client that cannot be started is forgotten.
StartLoop ==
  /\ main = "start"
  /\ \/ /\ loop' = [loop EXCEPT ![client] = "running"]
        /\ UNCHANGED <<client, state>>
     \/ /\ client' = 0 /\ state' = "disconnected"
        /\ UNCHANGED loop
  /\ main' = "idle" /\ lock' = "free"
  /\ UNCHANGED <<created, old, flag, event, link, cb, calls, publishing>>

-----------------------------------------------------------------------------
(* The main thread: stop and reconnect_async.                              *)

\* reconnect_async writes the state before it waits for the lock.
Reload ==
  /\ main = "idle" /\ created < MaxClients
  /\ state' = "reloading"
  /\ main' = "reload"
  /\ UNCHANGED <<client, created, old, flag, event, netVars, lock, publishing>>

\* stop() returns at once when there is no client.
BeginStop ==
  /\ main = "reload" /\ lock = "free"
  /\ IF client = 0 THEN main' = "again" /\ UNCHANGED lock
                   ELSE main' = "detach" /\ lock' = "main"
  /\ UNCHANGED <<client, created, old, fieldVars, netVars, publishing>>

Detach ==
  /\ main = "detach"
  /\ old' = client /\ client' = 0
  /\ main' = "clearFlag"
  /\ UNCHANGED <<created, fieldVars, netVars, lock, publishing>>

ClearFlag ==
  /\ main = "clearFlag"
  /\ flag' = FALSE /\ main' = "clearEvent"
  /\ UNCHANGED <<client, created, old, event, state, netVars, lock, publishing>>

ClearEvent ==
  /\ main = "clearEvent"
  /\ event' = FALSE /\ main' = "setState"
  /\ UNCHANGED <<client, created, old, flag, state, netVars, lock, publishing>>

SetStopped ==
  /\ main = "setState"
  /\ state' = "stopped" /\ main' = "join"
  /\ UNCHANGED <<client, created, old, flag, event, netVars, lock, publishing>>

\* Mutant: loop_stop is not called, the network thread ends by itself.
JoinLoopSkipped ==
  /\ main = "join"
  /\ old' = 0
  /\ main' = "again" /\ lock' = "free"
  /\ UNCHANGED <<client, created, fieldVars, netVars, publishing>>

\* disconnect, then loop_stop, which joins the network thread: the callback in
\* progress runs to its end first.
JoinLoop ==
  /\ main = "join"
  /\ cb[old] = "none"
  /\ loop' = [loop EXCEPT ![old] = "ended"]
  /\ link' = link \ {old}
  /\ old' = 0
  /\ main' = "again" /\ lock' = "free"
  /\ UNCHANGED <<client, created, fieldVars, cb, calls, publishing>>

-----------------------------------------------------------------------------
(* The network threads: _on_connect and _on_disconnect.                    *)

\* Client c gets a callback; it is ignored unless c is the current client.
Callback(c, first) ==
  /\ loop[c] = "running" /\ cb[c] = "none" /\ calls[c] < MaxCallbacks
  /\ calls' = [calls EXCEPT ![c] = @ + 1]
  /\ cb' = IF client = c THEN [cb EXCEPT ![c] = first] ELSE cb
  /\ UNCHANGED <<mainVars, fieldVars, loop, lock, publishing>>

Connack(c) ==
  /\ c \notin link
  /\ link' = link \cup {c}
  /\ Callback(c, "upFlag")

\* A refused connection and a lost one are reported in the same fields.
Refused(c) ==
  /\ c \notin link
  /\ UNCHANGED link
  /\ Callback(c, "downFlag")

LinkLost(c) ==
  /\ c \in link
  /\ link' = link \ {c}
  /\ Callback(c, "downFlag")

\* Mutant: the callbacks take _lifecycle_lock to write.
WriteUnderLock(c, at, next) ==
  /\ cb[c] = at /\ lock = "free"
  /\ cb' = [cb EXCEPT ![c] = next]
  /\ UNCHANGED <<mainVars, loop, link, calls, lock, publishing>>

\* One write of a callback, which then goes on with its next step.
Write(c, at, next) ==
  /\ cb[c] = at
  /\ cb' = [cb EXCEPT ![c] = next]
  /\ UNCHANGED <<mainVars, loop, link, calls, lock, publishing>>

OnConnect(c) ==
  \/ Write(c, "upFlag", "upEvent") /\ flag' = TRUE /\ UNCHANGED <<event, state>>
  \/ Write(c, "upEvent", "upState") /\ event' = TRUE /\ UNCHANGED <<flag, state>>
  \/ Write(c, "upState", "none") /\ state' = "connected"
     /\ UNCHANGED <<flag, event>>

OnDisconnect(c) ==
  \/ Write(c, "downFlag", "downEvent") /\ flag' = FALSE
     /\ UNCHANGED <<event, state>>
  \/ Write(c, "downEvent", "downState") /\ event' = FALSE
     /\ UNCHANGED <<flag, state>>
  \/ Write(c, "downState", "none") /\ state' = "disconnected"
     /\ UNCHANGED <<flag, event>>

-----------------------------------------------------------------------------
(* The command worker: publish_wait.                                       *)

\* Mutant: publish_wait does not take the lock.
BeginPublishWaitUnlocked ==
  /\ event /\ publishing = 0
  /\ flag /\ client # 0
  /\ publishing' = client
  /\ UNCHANGED <<mainVars, fieldVars, netVars, lock>>

\* The worker publishes when wait_until_connected returns TRUE.  When the
\* fields say that there is no connection the command is given up.
BeginPublishWait ==
  /\ event /\ lock = "free"
  /\ flag /\ client # 0
  /\ lock' = "worker"
  /\ publishing' = client
  /\ UNCHANGED <<mainVars, fieldVars, netVars>>

\* The PUBACK, or its timeout.
EndPublishWait ==
  /\ publishing # 0
  /\ publishing' = 0
  /\ lock' = IF lock = "worker" THEN "free" ELSE lock
  /\ UNCHANGED <<mainVars, fieldVars, netVars>>

-----------------------------------------------------------------------------
LifecycleStep ==
  \/ ConnectAsync \/ ConnectFails \/ NewClient \/ ResetFields \/ StartLoop
  \/ BeginStop \/ Detach \/ ClearFlag \/ ClearEvent \/ SetStopped \/ JoinLoop

CallbackStep(c) == OnConnect(c) \/ OnDisconnect(c)

ConnNext ==
  \/ LifecycleStep \/ Reload
  \/ \E c \in Clients : Connack(c) \/ Refused(c) \/ LinkLost(c) \/ CallbackStep(c)
  \/ BeginPublishWait \/ EndPublishWait

ConnSpec == ConnInit /\ [][ConnNext]_connVars

\* The main thread goes on as soon as it can, a callback that has begun and a
\* publish end.  The lock goes to the main thread when it is free again and
\* again, which an RLock does not promise but a worker that waits for Redis
\* between two commands makes likely.
ConnFairness ==
  /\ SF_connVars(LifecycleStep)
  /\ \A c \in Clients : WF_connVars(CallbackStep(c))
  /\ WF_connVars(EndPublishWait)

ConnFairSpec == ConnSpec /\ ConnFairness
-----------------------------------------------------------------------------
(* Properties                                                              *)

\* No thread is in the middle of changing the fields.
Quiet == main = "idle" /\ \A c \in Clients : cb[c] = "none"

\* Whenever nothing is in progress the fields agree with the session of the
\* current client: commands are sent exactly when there is a connection, and
\* the runner status that the health check reads is true.
FieldsAgree ==
  Quiet /\ client # 0 =>
    /\ flag <=> client \in link
    /\ event <=> client \in link
    /\ state = "connected" <=> client \in link

\* One network thread runs at a time.  Two clients with the same client id
\* would throw each other out of the broker for ever.
OneLoop == \A c, d \in Clients : loop[c] = "running" /\ loop[d] = "running" => c = d

\* The client that a command is published on is not replaced or stopped before
\* the broker has answered or the wait has timed out.
PublishOnCurrentClient == publishing # 0 => client = publishing /\ main # "join"

\* A reload or a retry comes to its end: the joined network thread, the
\* publishing worker and the main thread do not wait for each other.
ReloadReturns == main # "idle" ~> main = "idle"
=============================================================================
