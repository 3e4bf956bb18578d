------------------------- MODULE MqttConnectionProofs -------------------------
(***************************************************************************)
(* Proofs about the MQTT connection, for any number of clients and         *)
(* callbacks.                                                              *)
(***************************************************************************)
EXTENDS MqttConnection, TLAPS

\* The steps of the main thread that are under _lifecycle_lock.
Locked == {"load", "reset", "start", "detach", "clearFlag", "clearEvent",
           "setState", "join"}

\* Where the main thread is tells who holds the lock, which clients there are
\* and whose network thread may run.
ThreadsOK ==
  /\ main \in Locked <=> lock = "main"
  /\ lock = "worker" <=> publishing # 0
  /\ publishing # 0 => client = publishing
  /\ main \in {"load", "again", "clearFlag", "clearEvent", "setState", "join"}
       => client = 0
  /\ main \in {"reset", "start", "detach"} => client # 0
  /\ main \in {"clearFlag", "clearEvent", "setState", "join"} <=> old # 0
  /\ old <= created
  /\ main = "load" => created < MaxClients
  /\ \A c \in Clients :
       /\ loop[c] = "running" => c = client \/ c = old
       /\ c > created => loop[c] = "none"
       /\ main \in {"reset", "start"} /\ c = client => loop[c] = "none"
       /\ cb[c] # "none" => loop[c] = "running"
       /\ c \in link => loop[c] = "running"

\* How far the callback of the current client has come tells which fields it
\* has already written.
FieldsFollow ==
  /\ main = "start" => ~flag /\ ~event /\ state = "connecting"
  /\ main = "idle" /\ client # 0 =>
       /\ cb[client] = "none" =>
            /\ flag <=> client \in link
            /\ event <=> client \in link
            /\ state = "connected" <=> client \in link
       /\ cb[client] \in {"upFlag", "upEvent", "upState"} => client \in link
       /\ cb[client] \in {"upEvent", "upState"} => flag
       /\ cb[client] = "upState" => event
       /\ cb[client] \in {"downFlag", "downEvent", "downState"} =>
            client \notin link
       /\ cb[client] \in {"downEvent", "downState"} => ~flag
       /\ cb[client] = "downState" => ~event

ConnectionInv == ConnTypeOK /\ ThreadsOK /\ FieldsFollow

\* The steps of the main thread keep the invariant.
LEMMA MainKeeps ==
  ASSUME ConnectionInv, LifecycleStep \/ Reload
  PROVE  ConnectionInv'
<1> USE ConnectionAssumption DEF ConnectionInv, ConnTypeOK, ThreadsOK,
      FieldsFollow, Locked, Clients, States, MainSteps, fieldVars, netVars
<1>1. CASE ConnectAsync
  BY <1>1 DEF ConnectAsync
<1>2. CASE ConnectFails
  BY <1>2 DEF ConnectFails
<1>3. CASE NewClient
  <2>1. ConnTypeOK'
    BY <1>3 DEF NewClient
  <2>2. ThreadsOK'
    BY <1>3 DEF NewClient
  <2>3. FieldsFollow'
    BY <1>3 DEF NewClient
  <2> QED
    BY <2>1, <2>2, <2>3
<1>4. CASE ResetFields
  BY <1>4 DEF ResetFields
<1>5. CASE StartLoop
  BY <1>5 DEF StartLoop
<1>6. CASE BeginStop
  BY <1>6 DEF BeginStop
<1>7. CASE Detach
  BY <1>7 DEF Detach
<1>8. CASE ClearFlag \/ ClearEvent \/ SetStopped
  BY <1>8 DEF ClearFlag, ClearEvent, SetStopped
<1>9. CASE JoinLoop
  BY <1>9 DEF JoinLoop
<1>10. CASE Reload
  BY <1>10 DEF Reload
<1> QED
  BY <1>1, <1>2, <1>3, <1>4, <1>5, <1>6, <1>7, <1>8, <1>9, <1>10 DEF LifecycleStep

\* The steps of the network threads keep the invariant.
LEMMA NetworkKeeps ==
  ASSUME ConnectionInv, NEW c \in Clients,
         Connack(c) \/ Refused(c) \/ LinkLost(c) \/ CallbackStep(c)
  PROVE  ConnectionInv'
<1> USE ConnectionAssumption DEF ConnectionInv, ConnTypeOK, ThreadsOK,
      FieldsFollow, Locked, Clients, States, CallbackSteps, fieldVars, mainVars
<1>0. ASSUME NEW at \in CallbackSteps \ {"none"}, NEW next, Write(c, at, next)
      PROVE  ThreadsOK'
  BY <1>0 DEF Write
<1>1. CASE Connack(c)
  BY <1>1 DEF Connack, Callback
<1>2. CASE Refused(c)
  BY <1>2 DEF Refused, Callback
<1>3. CASE LinkLost(c)
  BY <1>3 DEF LinkLost, Callback
<1>4. CASE OnConnect(c)
  <2>1. ConnTypeOK'
    BY <1>4 DEF OnConnect, Write
  <2>2. ThreadsOK'
    BY <1>4, <1>0 DEF OnConnect
  <2>3. FieldsFollow'
    BY <1>4 DEF OnConnect, Write
  <2> QED
    BY <2>1, <2>2, <2>3
<1>5. CASE OnDisconnect(c)
  <2>1. ConnTypeOK'
    BY <1>5 DEF OnDisconnect, Write
  <2>2. ThreadsOK'
    BY <1>5, <1>0 DEF OnDisconnect
  <2>3. FieldsFollow'
    BY <1>5 DEF OnDisconnect, Write
  <2> QED
    BY <2>1, <2>2, <2>3
<1> QED
  BY <1>1, <1>2, <1>3, <1>4, <1>5 DEF CallbackStep

\* Every step keeps the invariant.
LEMMA ConnectionStep ==
  ASSUME ConnectionInv, [ConnNext]_connVars
  PROVE  ConnectionInv'
<1>1. CASE BeginPublishWait
  <2> USE <1>1 DEF BeginPublishWait, ConnectionInv
  <2>1. ConnTypeOK'
    <3>1. /\ client' = client /\ created' = created /\ state' = state
          /\ flag' = flag /\ event' = event
          /\ main' = main /\ old' = old /\ loop' = loop /\ link' = link
          /\ cb' = cb /\ calls' = calls
      BY DEF fieldVars, netVars, mainVars
    <3>2. lock' = "worker" /\ publishing' = client
      OBVIOUS
    <3>3. client \in 0 .. MaxClients
      BY ConnectionAssumption DEF ConnTypeOK
    <3> QED
      BY <3>1, <3>2, <3>3, Zenon DEF ConnTypeOK
  <2>2. ThreadsOK'
    BY DEF ThreadsOK, ConnTypeOK, Locked, Clients, fieldVars, netVars, mainVars
  <2>3. FieldsFollow'
    BY Zenon DEF FieldsFollow, fieldVars, netVars, mainVars
  <2> QED
    BY <2>1, <2>2, <2>3
<1>2. CASE EndPublishWait
  <2> USE <1>2 DEF EndPublishWait, ConnectionInv
  <2>1. ConnTypeOK'
    <3>1. /\ client' = client /\ created' = created /\ state' = state
          /\ flag' = flag /\ event' = event
          /\ main' = main /\ old' = old /\ loop' = loop /\ link' = link
          /\ cb' = cb /\ calls' = calls
      BY DEF fieldVars, netVars, mainVars
    <3>2. lock' \in {"free", "main", "worker"}
      BY DEF ConnTypeOK
    <3>3. publishing' \in 0 .. MaxClients
      BY ConnectionAssumption
    <3> QED
      BY <3>1, <3>2, <3>3, Zenon DEF ConnTypeOK
  <2>2. ThreadsOK'
    BY DEF ThreadsOK, ConnTypeOK, Locked, Clients, fieldVars, netVars, mainVars
  <2>3. FieldsFollow'
    BY Zenon DEF FieldsFollow, fieldVars, netVars, mainVars
  <2> QED
    BY <2>1, <2>2, <2>3
<1>3. CASE UNCHANGED connVars
  BY <1>3 DEF connVars, ConnectionInv, ConnTypeOK, ThreadsOK, FieldsFollow, fieldVars,
       netVars, mainVars
<1> QED
  BY <1>1, <1>2, <1>3, MainKeeps, NetworkKeeps DEF ConnNext

\* The invariant holds.
THEOREM ConnectionInvariant == ConnSpec => []ConnectionInv
<1>1. ConnInit => ConnectionInv
  <2> SUFFICES ASSUME ConnInit PROVE ConnectionInv
    OBVIOUS
  <2> USE ConnectionAssumption DEF ConnInit
  <2>1. ConnTypeOK
    <3>1. client \in 0 .. created /\ created \in 0 .. MaxClients
      OBVIOUS
    <3>2. flag \in BOOLEAN /\ event \in BOOLEAN
      OBVIOUS
    <3>3. state \in States /\ main \in MainSteps
      BY DEF States, MainSteps
    <3>4. old \in 0 .. MaxClients /\ publishing \in 0 .. MaxClients
      OBVIOUS
    <3>5. loop \in [Clients -> {"none", "running", "ended"}]
      OBVIOUS
    <3>6. cb \in [Clients -> CallbackSteps] /\ link \subseteq Clients
      BY DEF CallbackSteps
    <3>7. calls \in [Clients -> 0 .. MaxCallbacks]
      OBVIOUS
    <3> QED
      BY <3>1, <3>2, <3>3, <3>4, <3>5, <3>6, <3>7 DEF ConnTypeOK
  <2>2. ThreadsOK
    BY DEF ThreadsOK, Locked, Clients
  <2>3. FieldsFollow
    BY DEF FieldsFollow
  <2> QED
    BY <2>1, <2>2, <2>3 DEF ConnectionInv
<1>2. ConnectionInv /\ [ConnNext]_connVars => ConnectionInv'
  BY ConnectionStep
<1> QED
  BY <1>1, <1>2, PTL DEF ConnSpec

\* Type correctness of the connection.
THEOREM ConnectionTypeCorrect == ConnSpec => []ConnTypeOK
BY ConnectionInvariant, PTL DEF ConnectionInv

\* Whenever no thread is changing them, the fields agree with the session of
\* the current client, however many clients there have been before.
THEOREM ConnectionFieldsAgree == ConnSpec => []FieldsAgree
<1>1. ConnectionInv => FieldsAgree
  <2> SUFFICES ASSUME ConnectionInv, Quiet, client # 0
               PROVE  FieldsAgree
    BY DEF FieldsAgree
  <2>1. client \in Clients
    BY ConnectionAssumption DEF ConnectionInv, ConnTypeOK, Clients
  <2>2. main = "idle" /\ cb[client] = "none"
    BY <2>1 DEF Quiet
  <2> QED
    BY <2>2 DEF ConnectionInv, FieldsFollow, FieldsAgree
<1> QED
  BY <1>1, ConnectionInvariant, PTL

\* One network thread runs at a time.
THEOREM ConnectionOneLoop == ConnSpec => []OneLoop
<1>1. ConnectionInv => OneLoop
  BY DEF ConnectionInv, ConnTypeOK, ThreadsOK, OneLoop, Clients
<1> QED
  BY <1>1, ConnectionInvariant, PTL

\* No client is replaced or stopped while a command is published on it.
THEOREM ConnectionPublishOnCurrent == ConnSpec => []PublishOnCurrentClient
<1>1. ConnectionInv => PublishOnCurrentClient
  BY DEF ConnectionInv, ThreadsOK, PublishOnCurrentClient, Locked
<1> QED
  BY <1>1, ConnectionInvariant, PTL
=============================================================================
