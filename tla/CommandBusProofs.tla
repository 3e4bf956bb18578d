-------------------------- MODULE CommandBusProofs --------------------------
(***************************************************************************)
(* Proofs about the command bus, for every set of requests, resources,     *)
(* codes and workers and every number of faults.                           *)
(***************************************************************************)
EXTENDS CommandBus, TLAPS

-----------------------------------------------------------------------------
(* Type correctness                                                        *)

\* What the threads hold: a worker has a request exactly while it is in
\* _process, a verdict when it is about to complete it, and the callback
\* thread has a request and its code while it is in resolve_check_code.
LocalsOK ==
  /\ \A w \in Workers :
       /\ pc[w] # "idle" <=> msg[w] \in Requests
       /\ pc[w] = "complete" => verdict[w] \in Terminal
  /\ hpc # "idle" => hreq \in Requests /\ hcode \in Codes

\* Where things come from: what a device executed went through the broker,
\* the MQTT client, a worker, the stream and its caller, in that order.
OriginsOK ==
  /\ \A r \in Requests :
       /\ r \in NeedsAck /\ caller[r] # "idle" => codeOf[r] \in Codes
       /\ entry[r] # "none" => caller[r] \notin {"idle", "reserved"}
       /\ sent[r] > 0 => entry[r] # "none"
       /\ r \in broker => sent[r] > 0
       /\ r \in executed => r \in broker
  /\ \A w \in Workers : msg[w] \in Requests => entry[msg[w]] # "none"

WellFormed == TypeOK /\ LocalsOK /\ OriginsOK

\* The steps of the callers preserve the types.
LEMMA CallerTypes ==
  ASSUME WellFormed, NEW r \in Requests, CallerStep(r)
  PROVE  WellFormed'
<1> USE BusAssumption DEF WellFormed, TypeOK, LocalsOK, OriginsOK, redisVars,
      streamVars, idVars, callerVars, workerVars, handlerVars, runnerVars,
      mqttVars, Fault
<1>1. CASE ReserveCheckCode(r)
  BY <1>1 DEF ReserveCheckCode
<1>2. CASE EnqueueCommand(r)
  BY <1>2 DEF EnqueueCommand, Statuses, Pending
<1>3. CASE WaitResult(r)
  BY <1>3 DEF WaitResult
<1>4. CASE GiveUp(r)
  BY <1>4 DEF GiveUp
<1>5. CASE DeadlinePasses(r)
  BY <1>5 DEF DeadlinePasses
<1> QED
  BY <1>1, <1>2, <1>3, <1>4, <1>5 DEF CallerStep

\* The steps of _process preserve the types.
LEMMA ProcessTypes ==
  ASSUME WellFormed, NEW w \in Workers, Process(w)
  PROVE  WellFormed'
<1> USE BusAssumption DEF WellFormed, TypeOK, LocalsOK, OriginsOK, redisVars,
      streamVars, idVars, callerVars, handlerVars, runnerVars, mqttVars, Goto,
      Conclude, Drop, WorkerOnly, PCs, Terminal
<1>1. CASE Lookup(w)
  BY <1>1 DEF Lookup
<1>2. CASE CheckDeadline(w)
  BY <1>2 DEF CheckDeadline
<1>3. CASE MarkPublishing(w)
  BY <1>3 DEF MarkPublishing, Statuses, Pending
<1>4. CASE PublishRefused(w)
  BY <1>4 DEF PublishRefused
<1>5. CASE HandOver(w)
  BY <1>5 DEF HandOver
<1>6. CASE WaitPuback(w)
  BY <1>6 DEF WaitPuback
<1>7. CASE TransitionAwaiting(w)
  BY <1>7 DEF TransitionAwaiting, Statuses, Pending
<1>8. CASE AwaitDevice(w)
  BY <1>8 DEF AwaitDevice
<1>9. CASE Complete(w)
  BY <1>9 DEF Complete, CompleteIfPending, Statuses
<1>10. CASE AckCommand(w)
  BY <1>10 DEF AckCommand
<1> QED
  BY <1>1, <1>2, <1>3, <1>4, <1>5, <1>6, <1>7, <1>8, <1>9, <1>10 DEF Process

\* The steps around _process preserve the types.
LEMMA RunnerTypes ==
  ASSUME WellFormed, NEW w \in Workers,
         \/ StartWorker(w) \/ Connect(w) \/ Disconnect(w)
         \/ Crash(w) \/ Abandon(w)
         \/ ReadCommand(w) \/ ClaimStale(w)
  PROVE  WellFormed'
<1> USE BusAssumption DEF WellFormed, TypeOK, LocalsOK, OriginsOK, redisVars,
      streamVars, idVars, callerVars, handlerVars, runnerVars, mqttVars, Drop,
      Take, Fault, PCs
<1>1. CASE StartWorker(w) \/ Connect(w) \/ Disconnect(w)
  BY <1>1 DEF StartWorker, Connect, Disconnect
<1>2. CASE Crash(w)
  BY <1>2 DEF Crash
<1>3. CASE Abandon(w)
  BY <1>3 DEF Abandon
<1>4. ASSUME NEW r \in Requests, NEW again \in BOOLEAN,
             entry[r] # "none", Take(w, r, again)
      PROVE  WellFormed'
  BY <1>4
<1>5. CASE ReadCommand(w)
  <2>1. PICK r \in Requests : IsNext(r) /\ Take(w, r, FALSE)
    BY <1>5 DEF ReadCommand
  <2>2. entry[r] # "none"
    BY <2>1 DEF IsNext
  <2> QED
    BY <1>4, <2>1, <2>2
<1>6. CASE ClaimStale(w)
  BY <1>4, <1>6 DEF ClaimStale
<1> QED
  BY <1>1, <1>2, <1>3, <1>5, <1>6

\* The steps of the callback thread preserve the types.
LEMMA HandlerTypes ==
  ASSUME WellFormed, HandlerStep
  PROVE  WellFormed'
<1> USE BusAssumption DEF WellFormed, TypeOK, LocalsOK, OriginsOK, redisVars,
      streamVars, idVars, callerVars, workerVars, runnerVars, mqttVars, Fault
<1>1. CASE LookupCheckCode
  BY <1>1 DEF LookupCheckCode
<1>2. CASE CompleteAcked
  BY <1>2 DEF CompleteAcked, CompleteIfPending, Statuses, Terminal
<1>3. CASE DeleteCheckCode
  BY <1>3 DEF DeleteCheckCode
<1>4. CASE AbandonAck
  BY <1>4 DEF AbandonAck
<1> QED
  BY <1>1, <1>2, <1>3, <1>4 DEF HandlerStep

\* The steps of the broker, the devices and the key expiry preserve the types.
LEMMA WorldTypes ==
  ASSUME WellFormed,
         \/ \E r \in Requests :
              BrokerTakes(r) \/ DeviceExecutes(r) \/ RecordExpires(r)
         \/ \E c \in Codes : CodeExpires(c)
  PROVE  WellFormed'
<1> USE BusAssumption DEF WellFormed, TypeOK, LocalsOK, OriginsOK, redisVars,
      streamVars, idVars, callerVars, workerVars, handlerVars, runnerVars,
      mqttVars
<1>1. ASSUME NEW r \in Requests, BrokerTakes(r)
      PROVE  WellFormed'
  BY <1>1 DEF BrokerTakes
<1>2. ASSUME NEW r \in Requests, DeviceExecutes(r)
      PROVE  WellFormed'
  BY <1>2 DEF DeviceExecutes
<1>3. ASSUME NEW r \in Requests, RecordExpires(r)
      PROVE  WellFormed'
  BY <1>3 DEF RecordExpires, Statuses
<1>4. ASSUME NEW c \in Codes, CodeExpires(c)
      PROVE  WellFormed'
  BY <1>4 DEF CodeExpires
<1> QED
  BY <1>1, <1>2, <1>3, <1>4

\* Every step of the bus preserves the types.
LEMMA StepTypes ==
  ASSUME WellFormed, [Next]_vars
  PROVE  WellFormed'
<1>1. CASE Next
  BY <1>1, CallerTypes, ProcessTypes, RunnerTypes, HandlerTypes, WorldTypes
     DEF Next
<1>2. CASE UNCHANGED vars
  BY <1>2 DEF vars, WellFormed, TypeOK, LocalsOK, OriginsOK, redisVars,
       streamVars, idVars, callerVars, workerVars, handlerVars, runnerVars,
       mqttVars
<1> QED
  BY <1>1, <1>2

\* The variables keep their types, and every thread in the middle of an
\* operation holds the request it works on.
THEOREM BusTypes == Spec => []WellFormed
<1>1. Init => WellFormed
  BY BusAssumption
     DEF Init, WellFormed, TypeOK, LocalsOK, OriginsOK, PCs, Statuses
<1>2. WellFormed /\ [Next]_vars => WellFormed'
  BY StepTypes
<1> QED
  BY <1>1, <1>2, PTL DEF Spec

\* The type invariant of the runs.
THEOREM BusTypeOK == Spec => []TypeOK
<1>1. WellFormed => TypeOK
  BY DEF WellFormed
<1> QED
  BY <1>1, BusTypes, PTL

-----------------------------------------------------------------------------
(* No entry vanishes without a result                                      *)

\* A terminal status, a worker about to acknowledge and a deleted entry each
\* mean that the request was settled.
Settling ==
  /\ NoSilentDrop
  /\ \A r \in Requests : status[r] \in Terminal => r \in settled
  /\ \A w \in Workers : pc[w] = "ack" => msg[w] \in settled

\* Every step keeps a result for what it deletes.
LEMMA SettlingStep ==
  ASSUME WellFormed, Settling, [Next]_vars
  PROVE  Settling'
<1> USE BusAssumption DEF WellFormed, TypeOK, LocalsOK, Settling,
      NoSilentDrop, redisVars, streamVars, idVars, callerVars, workerVars,
      handlerVars, runnerVars, mqttVars
<1>1. ASSUME NEW r \in Requests, CallerStep(r)
      PROVE  Settling'
  BY <1>1 DEF CallerStep, ReserveCheckCode, EnqueueCommand, WaitResult, GiveUp,
       DeadlinePasses, Terminal
<1>2. ASSUME NEW r \in Requests,
             BrokerTakes(r) \/ DeviceExecutes(r) \/ RecordExpires(r)
      PROVE  Settling'
  BY <1>2 DEF BrokerTakes, DeviceExecutes, RecordExpires, Terminal
<1>3. ASSUME NEW w \in Workers,
             StartWorker(w) \/ Connect(w) \/ Disconnect(w)
             \/ Crash(w) \/ Abandon(w)
      PROVE  Settling'
  BY <1>3 DEF StartWorker, Connect, Disconnect, Crash, Abandon, Drop
<1>4. ASSUME NEW w \in Workers, ReadCommand(w) \/ ClaimStale(w)
      PROVE  Settling'
  BY <1>4 DEF ReadCommand, ClaimStale, Take
<1>5. ASSUME NEW w \in Workers, Lookup(w)
      PROVE  Settling'
  BY <1>5 DEF Lookup, Goto, Conclude, WorkerOnly
<1>6. ASSUME NEW w \in Workers,
             \/ CheckDeadline(w) \/ PublishRefused(w) \/ HandOver(w)
             \/ WaitPuback(w) \/ AwaitDevice(w)
      PROVE  Settling'
  BY <1>6 DEF CheckDeadline, PublishRefused, HandOver, WaitPuback,
       AwaitDevice, Goto, Conclude, WorkerOnly, Terminal
<1>7. ASSUME NEW w \in Workers, MarkPublishing(w) \/ TransitionAwaiting(w)
      PROVE  Settling'
  BY <1>7 DEF MarkPublishing, TransitionAwaiting, Goto, Terminal
<1>8. ASSUME NEW w \in Workers, Complete(w) \/ AckCommand(w)
      PROVE  Settling'
  BY <1>8 DEF Complete, CompleteIfPending, AckCommand, Goto, Drop
<1>9. CASE HandlerStep
  BY <1>9 DEF HandlerStep, LookupCheckCode, CompleteAcked, CompleteIfPending,
       DeleteCheckCode, AbandonAck
<1>10. ASSUME NEW c \in Codes, CodeExpires(c)
       PROVE  Settling'
  BY <1>10 DEF CodeExpires
<1>11. CASE UNCHANGED vars
  BY <1>11 DEF vars
<1> QED
  BY <1>1, <1>2, <1>3, <1>4, <1>5, <1>6, <1>7, <1>8, <1>9, <1>10, <1>11
     DEF Next, Process

\* A stream entry is only deleted after its request got a result, with any
\* number of runners, crashes, reused codes and expired hashes.
THEOREM BusNoSilentDrop == Spec => []NoSilentDrop
<1>1. Init => Settling
  BY DEF Init, Settling, NoSilentDrop, Terminal
<1>2. WellFormed /\ Settling /\ [Next]_vars => Settling'
  BY SettlingStep
<1>3. Settling => NoSilentDrop
  BY DEF Settling
<1> QED
  BY <1>1, <1>2, <1>3, BusTypes, PTL DEF Spec

-----------------------------------------------------------------------------
(* Success is genuine                                                      *)

\* A check code leads back to one request only, and whoever echoed it has
\* executed that request.
CodesOK ==
  /\ \A r \in Requests :
       /\ caller[r] = "idle" => codeOf[r] = None
       /\ codeOf[r] # None => codeOf[r] \in drawn
       /\ \A q \in Requests : codeOf[r] = codeOf[q] /\ codeOf[r] # None => r = q
  /\ \A c \in Codes : checkMap[c] # None => codeOf[checkMap[c]] = c
  /\ \A m \in acks : \E r \in executed : codeOf[r] = m.code
  /\ hpc # "idle" => hreq \in executed

\* Every step keeps the codes apart, as long as none is drawn twice.
LEMMA CodesStep ==
  ASSUME FreshCodes, WellFormed, CodesOK, [Next]_vars
  PROVE  CodesOK'
<1> USE BusAssumption DEF WellFormed, TypeOK, LocalsOK, OriginsOK, CodesOK,
      redisVars, streamVars, idVars, callerVars, workerVars, handlerVars,
      runnerVars, mqttVars
<1>1. ASSUME NEW r \in Requests, ReserveCheckCode(r)
      PROVE  CodesOK'
  BY <1>1 DEF ReserveCheckCode
<1>2. ASSUME NEW r \in Requests,
             \/ EnqueueCommand(r) \/ WaitResult(r) \/ GiveUp(r)
             \/ DeadlinePasses(r) \/ BrokerTakes(r) \/ RecordExpires(r)
      PROVE  CodesOK'
  BY <1>2 DEF EnqueueCommand, WaitResult, GiveUp, DeadlinePasses, BrokerTakes,
       RecordExpires
<1>3. ASSUME NEW r \in Requests, DeviceExecutes(r)
      PROVE  CodesOK'
  BY <1>3 DEF DeviceExecutes
<1>4. ASSUME NEW w \in Workers,
             \/ StartWorker(w) \/ Connect(w) \/ Disconnect(w)
             \/ Crash(w) \/ Abandon(w)
             \/ ReadCommand(w) \/ ClaimStale(w) \/ Process(w)
      PROVE  UNCHANGED <<checkMap, callerVars, handlerVars, executed, acks>>
  BY <1>4 DEF StartWorker, Connect, Disconnect, Crash, Abandon, ReadCommand,
       ClaimStale, Take, Process, Lookup, CheckDeadline, MarkPublishing,
       PublishRefused, HandOver, WaitPuback, TransitionAwaiting, AwaitDevice,
       Complete, AckCommand, WorkerOnly
<1>5. CASE LookupCheckCode
  BY <1>5 DEF LookupCheckCode, Resolves
<1>6. CASE CompleteAcked \/ DeleteCheckCode \/ AbandonAck
  BY <1>6 DEF CompleteAcked, DeleteCheckCode, AbandonAck
<1>7. ASSUME NEW c \in Codes, CodeExpires(c)
      PROVE  CodesOK'
  BY <1>7 DEF CodeExpires
<1>8. CASE UNCHANGED vars
  BY <1>8 DEF vars
<1> QED
  BY <1>1, <1>2, <1>3, <1>4, <1>5, <1>6, <1>7, <1>8
     DEF Next, CallerStep, HandlerStep

\* An acknowledged status, or one that a worker is about to write, is backed
\* by the broker or the device.
Genuine ==
  /\ OkIsGenuine
  /\ \A r \in Requests :
       /\ status[r] = "broker_acked" => r \in broker
       /\ status[r] = "device_acked" => r \in executed
  /\ \A w \in Workers :
       pc[w] = "complete" => /\ verdict[w] = "broker_acked" => msg[w] \in broker
                             /\ verdict[w] # "device_acked"

\* Every step that reports an acknowledgement has one.
LEMMA GenuineStep ==
  ASSUME WellFormed, CodesOK, Genuine, [Next]_vars
  PROVE  Genuine'
<1> USE BusAssumption DEF WellFormed, TypeOK, LocalsOK, OriginsOK, Genuine,
      OkIsGenuine, redisVars, streamVars, idVars, callerVars, workerVars,
      handlerVars, runnerVars, mqttVars
<1>1. ASSUME NEW r \in Requests, CallerStep(r)
      PROVE  Genuine'
  BY <1>1 DEF CallerStep, ReserveCheckCode, EnqueueCommand, WaitResult, GiveUp,
       DeadlinePasses, Expected
<1>2. ASSUME NEW r \in Requests,
             BrokerTakes(r) \/ DeviceExecutes(r) \/ RecordExpires(r)
      PROVE  Genuine'
  BY <1>2 DEF BrokerTakes, DeviceExecutes, RecordExpires
<1>3. ASSUME NEW w \in Workers,
             \/ StartWorker(w) \/ Connect(w) \/ Disconnect(w)
             \/ Crash(w) \/ Abandon(w)
             \/ ReadCommand(w) \/ ClaimStale(w)
      PROVE  Genuine'
  BY <1>3 DEF StartWorker, Connect, Disconnect, Crash, Abandon, Drop,
       ReadCommand, ClaimStale, Take
<1>4. ASSUME NEW w \in Workers, Lookup(w) \/ CheckDeadline(w)
      PROVE  Genuine'
  BY <1>4 DEF Lookup, CheckDeadline, Goto, Conclude, WorkerOnly
<1>5. ASSUME NEW w \in Workers,
             \/ PublishRefused(w) \/ HandOver(w) \/ WaitPuback(w)
             \/ AwaitDevice(w)
      PROVE  Genuine'
  BY <1>5 DEF PublishRefused, HandOver, WaitPuback, AwaitDevice, Goto,
       Conclude, WorkerOnly
<1>6. ASSUME NEW w \in Workers, MarkPublishing(w) \/ TransitionAwaiting(w)
      PROVE  Genuine'
  BY <1>6 DEF MarkPublishing, TransitionAwaiting, Goto
<1>7. ASSUME NEW w \in Workers, Complete(w) \/ AckCommand(w)
      PROVE  Genuine'
  BY <1>7 DEF Complete, CompleteIfPending, AckCommand, Goto, Drop
<1>8. CASE HandlerStep
  BY <1>8 DEF CodesOK, HandlerStep, LookupCheckCode, CompleteAcked,
       CompleteIfPending, DeleteCheckCode, AbandonAck
<1>9. ASSUME NEW c \in Codes, CodeExpires(c)
      PROVE  Genuine'
  BY <1>9 DEF CodeExpires
<1>10. CASE UNCHANGED vars
  BY <1>10 DEF vars
<1> QED
  BY <1>1, <1>2, <1>3, <1>4, <1>5, <1>6, <1>7, <1>8, <1>9, <1>10
     DEF Next, Process

\* The codes stay apart.
LEMMA BusCodes ==
  ASSUME FreshCodes
  PROVE  Spec => []CodesOK
<1>1. Init => CodesOK
  BY DEF Init, CodesOK
<1>2. WellFormed /\ CodesOK /\ [Next]_vars => CodesOK'
  BY CodesStep
<1> QED
  BY <1>1, <1>2, BusTypes, PTL DEF Spec

\* A caller is told of success only when the broker has its command and, if
\* it asked for the device, the device has executed this very command, with
\* any number of runners, crashes and expired hashes.
THEOREM BusOkIsGenuine ==
  ASSUME FreshCodes
  PROVE  Spec => []OkIsGenuine
<1>1. Init => Genuine
  BY DEF Init, Genuine, OkIsGenuine
<1>2. WellFormed /\ CodesOK /\ Genuine /\ [Next]_vars => Genuine'
  BY GenuineStep
<1>3. Genuine => OkIsGenuine
  BY DEF Genuine
<1> QED
  BY <1>1, <1>2, <1>3, BusTypes, BusCodes, PTL DEF Spec
-----------------------------------------------------------------------------
(* Only the target's own answer is an acknowledgement                      *)

\* The message that resolves a request carries the code of its payload and
\* comes from its target; it stays so because a code is only drawn for a
\* request that has none, and no worker reports an acknowledgement itself.
AckBacked ==
  /\ AckFromTarget
  /\ \A r \in Requests : caller[r] = "idle" => codeOf[r] = None
  /\ \A c \in Codes : checkMap[c] # None => codeOf[checkMap[c]] = c
  /\ hpc # "idle" => [code |-> codeOf[hreq], from |-> Target[hreq]] \in acks
  /\ \A w \in Workers : pc[w] = "complete" => verdict[w] # "device_acked"

\* A status message carries a code, so that a request it stands for has one.
LEMMA AckHasCode ==
  ASSUME WellFormed, NEW r \in Requests, NEW x,
         [code |-> codeOf[r], from |-> x] \in acks
  PROVE  codeOf[r] # None
<1>1. [code |-> codeOf[r], from |-> x] \in [code : Codes, from : Resources]
  BY DEF WellFormed, TypeOK
<1>2. codeOf[r] \in Codes
  BY <1>1
<1> QED
  BY <1>2, BusAssumption

\* Every step that reports a device's acknowledgement has it from the target.
LEMMA AckStep ==
  ASSUME WellFormed, AckBacked, [Next]_vars
  PROVE  AckBacked'
<1> USE BusAssumption DEF WellFormed, TypeOK, LocalsOK, AckBacked,
      AckFromTarget, redisVars, streamVars, idVars, callerVars, workerVars,
      handlerVars, runnerVars, mqttVars
<1>1. ASSUME NEW r \in Requests, ReserveCheckCode(r)
      PROVE  AckBacked'
  <2>1. caller[r] = "idle" /\ codeOf[r] = None
    BY <1>1 DEF ReserveCheckCode
  <2>2. status[r] # "device_acked" /\ (hpc # "idle" => hreq # r)
    BY <2>1, AckHasCode
  <2> QED
    BY <1>1, <2>1, <2>2 DEF ReserveCheckCode
<1>2. ASSUME NEW r \in Requests,
             \/ EnqueueCommand(r) \/ WaitResult(r) \/ GiveUp(r)
             \/ DeadlinePasses(r) \/ BrokerTakes(r) \/ RecordExpires(r)
      PROVE  AckBacked'
  BY <1>2 DEF EnqueueCommand, WaitResult, GiveUp, DeadlinePasses, BrokerTakes,
       RecordExpires
<1>3. ASSUME NEW r \in Requests, DeviceExecutes(r)
      PROVE  AckBacked'
  BY <1>3 DEF DeviceExecutes
<1>4. ASSUME NEW w \in Workers,
             \/ StartWorker(w) \/ Connect(w) \/ Disconnect(w)
             \/ Crash(w) \/ Abandon(w)
             \/ ReadCommand(w) \/ ClaimStale(w)
      PROVE  AckBacked'
  BY <1>4 DEF StartWorker, Connect, Disconnect, Crash, Abandon, Drop,
       ReadCommand, ClaimStale, Take
<1>5. ASSUME NEW w \in Workers,
             \/ Lookup(w) \/ CheckDeadline(w) \/ PublishRefused(w)
             \/ HandOver(w) \/ WaitPuback(w) \/ AwaitDevice(w)
      PROVE  AckBacked'
  BY <1>5 DEF Lookup, CheckDeadline, PublishRefused, HandOver, WaitPuback,
       AwaitDevice, Goto, Conclude, WorkerOnly
<1>6. ASSUME NEW w \in Workers,
             \/ MarkPublishing(w) \/ TransitionAwaiting(w)
             \/ Complete(w) \/ AckCommand(w)
      PROVE  AckBacked'
  BY <1>6 DEF MarkPublishing, TransitionAwaiting, Complete, CompleteIfPending,
       AckCommand, Goto, Drop
<1>7. CASE LookupCheckCode
  <2>1. PICK m \in acks, r \in Requests :
               Resolves(m, r) /\ hreq' = r /\ hcode' = m.code
    BY <1>7 DEF LookupCheckCode
  <2>2. m = [code |-> m.code, from |-> m.from] /\ m.code \in Codes
    OBVIOUS
  <2>3. m = [code |-> codeOf[r], from |-> Target[r]]
    BY <2>1, <2>2 DEF Resolves
  <2> QED
    BY <1>7, <2>1, <2>3 DEF LookupCheckCode
<1>8. CASE CompleteAcked \/ DeleteCheckCode \/ AbandonAck
  BY <1>8 DEF CompleteAcked, CompleteIfPending, DeleteCheckCode, AbandonAck
<1>9. ASSUME NEW c \in Codes, CodeExpires(c)
      PROVE  AckBacked'
  BY <1>9 DEF CodeExpires
<1>10. CASE UNCHANGED vars
  BY <1>10 DEF vars
<1> QED
  BY <1>1, <1>2, <1>3, <1>4, <1>5, <1>6, <1>7, <1>8, <1>9, <1>10
     DEF Next, CallerStep, Process, HandlerStep

\* A request is device_acked only by a status message of its own target with
\* its own check code, with any number of runners and crashes, and even when a
\* check code is drawn a second time.
THEOREM BusAckFromTarget == Spec => []AckFromTarget
<1>1. Init => AckBacked
  BY DEF Init, AckBacked, AckFromTarget
<1>2. WellFormed /\ AckBacked /\ [Next]_vars => AckBacked'
  BY AckStep
<1>3. AckBacked => AckFromTarget
  BY DEF AckBacked
<1> QED
  BY <1>1, <1>2, <1>3, BusTypes, PTL DEF Spec

-----------------------------------------------------------------------------
(* What the bus guarantees while the runner lease works, that is, while at *)
(* most one worker is alive at any time (SingleOwner): a command is sent   *)
(* once, its result does not change and a failure that says "nothing was   *)
(* sent" is true.                                                          *)

(* One owner per entry                                                     *)

\* One worker is alive, and the entry it processes is pending under its name.
OwnerOK ==
  /\ \A v, w \in live : v = w
  /\ \A w \in Workers \ live : pc[w] = "idle"
  /\ \A w \in Workers : pc[w] # "idle" => entry[msg[w]] = "pending"

\* Every step leaves the pending entries to one worker.
LEMMA OwnerStep ==
  ASSUME SingleOwner, WellFormed, OwnerOK, [Next]_vars
  PROVE  OwnerOK'
<1> USE BusAssumption DEF WellFormed, TypeOK, LocalsOK, OriginsOK, OwnerOK,
      redisVars, streamVars, idVars, callerVars, workerVars, handlerVars,
      runnerVars, mqttVars
<1>1. ASSUME NEW r \in Requests, CallerStep(r)
      PROVE  OwnerOK'
  BY <1>1 DEF CallerStep, ReserveCheckCode, EnqueueCommand, WaitResult, GiveUp,
       DeadlinePasses
<1>2. ASSUME NEW r \in Requests,
             BrokerTakes(r) \/ DeviceExecutes(r) \/ RecordExpires(r)
      PROVE  OwnerOK'
  BY <1>2 DEF BrokerTakes, DeviceExecutes, RecordExpires
<1>3. ASSUME NEW w \in Workers,
             StartWorker(w) \/ Connect(w) \/ Disconnect(w)
             \/ Crash(w) \/ Abandon(w)
      PROVE  OwnerOK'
  BY <1>3 DEF StartWorker, Connect, Disconnect, Crash, Abandon, Drop
<1>4. ASSUME NEW w \in Workers, ReadCommand(w) \/ ClaimStale(w)
      PROVE  OwnerOK'
  BY <1>4 DEF ReadCommand, IsNext, ClaimStale, Take
<1>5. ASSUME NEW w \in Workers, Lookup(w) \/ CheckDeadline(w)
      PROVE  OwnerOK'
  BY <1>5 DEF Lookup, CheckDeadline, Goto, Conclude, WorkerOnly
<1>6. ASSUME NEW w \in Workers,
             \/ PublishRefused(w) \/ HandOver(w) \/ WaitPuback(w)
             \/ AwaitDevice(w)
      PROVE  OwnerOK'
  BY <1>6 DEF PublishRefused, HandOver, WaitPuback, AwaitDevice, Goto,
       Conclude, WorkerOnly
<1>7. ASSUME NEW w \in Workers, MarkPublishing(w) \/ TransitionAwaiting(w)
      PROVE  OwnerOK'
  BY <1>7 DEF MarkPublishing, TransitionAwaiting, Goto
<1>8. ASSUME NEW w \in Workers, Complete(w) \/ AckCommand(w)
      PROVE  OwnerOK'
  <2>1. CASE Complete(w)
    BY <2>1 DEF Complete, CompleteIfPending, Goto
  <2>2. CASE AckCommand(w)
    <3>1. \A v \in Workers : v # w => pc[v] = "idle"
      BY <2>2 DEF AckCommand
    <3> QED
      BY <2>2, <3>1 DEF AckCommand, Drop
  <2> QED
    BY <1>8, <2>1, <2>2
<1>9. CASE HandlerStep
  BY <1>9 DEF HandlerStep, LookupCheckCode, CompleteAcked, CompleteIfPending,
       DeleteCheckCode, AbandonAck
<1>10. ASSUME NEW c \in Codes, CodeExpires(c)
       PROVE  OwnerOK'
  BY <1>10 DEF CodeExpires
<1>11. CASE UNCHANGED vars
  BY <1>11 DEF vars
<1> QED
  BY <1>1, <1>2, <1>3, <1>4, <1>5, <1>6, <1>7, <1>8, <1>9, <1>10, <1>11
     DEF Next, Process

\* The entries keep their owner.
LEMMA BusOwner ==
  ASSUME SingleOwner
  PROVE  Spec => []OwnerOK
<1>1. Init => OwnerOK
  BY DEF Init, OwnerOK
<1>2. WellFormed /\ OwnerOK /\ [Next]_vars => OwnerOK'
  BY OwnerStep
<1> QED
  BY <1>1, <1>2, BusTypes, PTL DEF Spec

-----------------------------------------------------------------------------
(* At most one publish                                                     *)

\* What the status of a request and the step its worker is at say about the
\* command having been handed over.  A request that was sent and whose hash
\* expired is late, so the deadline check stops it.
SendingOK ==
  /\ AtMostOncePublish
  /\ \A r \in Requests :
       /\ entry[r] \in {"none", "new"} => sent[r] = 0
       /\ sent[r] > 0 => /\ status[r] # "queued"
                         /\ status[r] = "absent" => r \in late
  /\ \A w \in Workers :
       /\ pc[w] = "lookup" /\ ~recovered[w] => sent[msg[w]] = 0
       /\ pc[w] = "deadline" => sent[msg[w]] = 0 \/ msg[w] \in late
       /\ pc[w] \in {"mark", "publish"} => sent[msg[w]] = 0
       /\ pc[w] = "publish" => status[msg[w]] \notin {"queued", "absent"}

\* Every step hands over only what was not handed over before.
LEMMA SendingStep ==
  ASSUME WellFormed, OwnerOK, SendingOK, [Next]_vars
  PROVE  SendingOK'
<1> USE BusAssumption DEF WellFormed, TypeOK, LocalsOK, OriginsOK, SendingOK,
      AtMostOncePublish, redisVars, streamVars, idVars, callerVars,
      workerVars, handlerVars, runnerVars, mqttVars
<1>1. ASSUME NEW r \in Requests, CallerStep(r)
      PROVE  SendingOK'
  BY <1>1 DEF OwnerOK, CallerStep, ReserveCheckCode, EnqueueCommand,
       WaitResult, GiveUp, DeadlinePasses
<1>2. ASSUME NEW r \in Requests,
             BrokerTakes(r) \/ DeviceExecutes(r) \/ RecordExpires(r)
      PROVE  SendingOK'
  BY <1>2 DEF BrokerTakes, DeviceExecutes, RecordExpires
<1>3. ASSUME NEW w \in Workers,
             StartWorker(w) \/ Connect(w) \/ Disconnect(w)
             \/ Crash(w) \/ Abandon(w)
      PROVE  SendingOK'
  BY <1>3 DEF StartWorker, Connect, Disconnect, Crash, Abandon, Drop
<1>4. ASSUME NEW w \in Workers, ReadCommand(w) \/ ClaimStale(w)
      PROVE  SendingOK'
  BY <1>4 DEF ReadCommand, IsNext, ClaimStale, Take
<1>5. ASSUME NEW w \in Workers, Lookup(w)
      PROVE  SendingOK'
  BY <1>5 DEF Lookup, InDoubt, Goto, Conclude, WorkerOnly, Statuses, Pending
<1>6. ASSUME NEW w \in Workers, CheckDeadline(w)
      PROVE  SendingOK'
  BY <1>6 DEF CheckDeadline, Goto, Conclude, WorkerOnly
<1>7. ASSUME NEW w \in Workers, MarkPublishing(w)
      PROVE  SendingOK'
  BY <1>7 DEF MarkPublishing, Goto
<1>8. ASSUME NEW w \in Workers, HandOver(w)
      PROVE  SendingOK'
  <2>1. \A v \in Workers : v # w => pc[v] = "idle"
    BY <1>8 DEF HandOver, OwnerOK
  <2>2. entry[msg[w]] = "pending"
    BY <1>8 DEF HandOver, OwnerOK
  <2> QED
    BY <1>8, <2>1, <2>2 DEF HandOver, Goto
<1>9. ASSUME NEW w \in Workers,
             \/ PublishRefused(w) \/ WaitPuback(w) \/ AwaitDevice(w)
      PROVE  SendingOK'
  BY <1>9 DEF PublishRefused, WaitPuback, AwaitDevice, Goto, Conclude,
       WorkerOnly
<1>10. ASSUME NEW w \in Workers, TransitionAwaiting(w)
       PROVE  SendingOK'
  BY <1>10 DEF TransitionAwaiting, Goto
<1>11. ASSUME NEW w \in Workers, Complete(w)
       PROVE  SendingOK'
  BY <1>11 DEF Complete, CompleteIfPending, Goto, Terminal
<1>12. ASSUME NEW w \in Workers, AckCommand(w)
       PROVE  SendingOK'
  BY <1>12 DEF AckCommand, Drop
<1>13. CASE HandlerStep
  BY <1>13 DEF HandlerStep, LookupCheckCode, CompleteAcked, CompleteIfPending,
       DeleteCheckCode, AbandonAck
<1>14. ASSUME NEW c \in Codes, CodeExpires(c)
       PROVE  SendingOK'
  BY <1>14 DEF CodeExpires
<1>15. CASE UNCHANGED vars
  BY <1>15 DEF vars
<1> QED
  BY <1>1, <1>2, <1>3, <1>4, <1>5, <1>6, <1>7, <1>8, <1>9, <1>10, <1>11,
     <1>12, <1>13, <1>14, <1>15 DEF Next, Process

\* The statuses tell what was sent.
LEMMA BusSending ==
  ASSUME SingleOwner
  PROVE  Spec => []SendingOK
<1>1. Init => SendingOK
  BY DEF Init, SendingOK, AtMostOncePublish
<1>2. WellFormed /\ OwnerOK /\ SendingOK /\ [Next]_vars => SendingOK'
  BY SendingStep
<1> QED
  BY <1>1, <1>2, BusTypes, BusOwner, PTL DEF Spec

\* No command is handed to the MQTT client twice, whatever crashes, lost
\* replies, reused codes and expired hashes there are.
THEOREM BusAtMostOncePublish ==
  ASSUME SingleOwner
  PROVE  Spec => []AtMostOncePublish
<1>1. SendingOK => AtMostOncePublish
  BY DEF SendingOK
<1> QED
  BY <1>1, BusSending, PTL

-----------------------------------------------------------------------------
(* A terminal status is final                                              *)

\* The two steps that write a status without looking at the current one, the
\* caller's and the worker's set_state, never meet a terminal one.
FinalOK ==
  /\ \A r \in Requests : entry[r] = "none" => status[r] = "absent"
  /\ \A w \in Workers :
       /\ pc[w] = "deadline" => status[msg[w]] \notin Terminal \/ msg[w] \in late
       /\ pc[w] \in {"mark", "publish"} => status[msg[w]] \notin Terminal

\* Every step keeps them apart.  The callback thread is the only one that may
\* settle a request that a worker holds, and only after it was sent.
LEMMA FinalStep ==
  ASSUME WellFormed, CodesOK, OwnerOK, SendingOK, FinalOK, [Next]_vars
  PROVE  FinalOK'
<1> USE BusAssumption DEF WellFormed, TypeOK, LocalsOK, OriginsOK, FinalOK,
      redisVars, streamVars, idVars, callerVars, workerVars, handlerVars,
      runnerVars, mqttVars
<1>1. ASSUME NEW r \in Requests, CallerStep(r)
      PROVE  FinalOK'
  BY <1>1 DEF CallerStep, ReserveCheckCode, EnqueueCommand, WaitResult, GiveUp,
       DeadlinePasses, Terminal
<1>2. ASSUME NEW r \in Requests,
             BrokerTakes(r) \/ DeviceExecutes(r) \/ RecordExpires(r)
      PROVE  FinalOK'
  BY <1>2 DEF BrokerTakes, DeviceExecutes, RecordExpires, Terminal
<1>3. ASSUME NEW w \in Workers,
             \/ StartWorker(w) \/ Connect(w) \/ Disconnect(w)
             \/ Crash(w) \/ Abandon(w)
             \/ ReadCommand(w) \/ ClaimStale(w)
      PROVE  FinalOK'
  BY <1>3 DEF StartWorker, Connect, Disconnect, Crash, Abandon, Drop,
       ReadCommand, ClaimStale, Take
<1>4. ASSUME NEW w \in Workers, Lookup(w) \/ CheckDeadline(w)
      PROVE  FinalOK'
  BY <1>4 DEF Lookup, CheckDeadline, Goto, Conclude, WorkerOnly
<1>5. ASSUME NEW w \in Workers,
             \/ PublishRefused(w) \/ HandOver(w) \/ WaitPuback(w)
             \/ AwaitDevice(w)
      PROVE  FinalOK'
  BY <1>5 DEF PublishRefused, HandOver, WaitPuback, AwaitDevice, Goto,
       Conclude, WorkerOnly
<1>6. ASSUME NEW w \in Workers, MarkPublishing(w) \/ TransitionAwaiting(w)
      PROVE  FinalOK'
  BY <1>6 DEF MarkPublishing, TransitionAwaiting, Goto, Terminal
<1>7. ASSUME NEW w \in Workers, Complete(w) \/ AckCommand(w)
      PROVE  FinalOK'
  <2>1. \A v \in Workers : v # w => pc[v] = "idle"
    BY <1>7 DEF Complete, AckCommand, OwnerOK
  <2> QED
    BY <1>7, <2>1 DEF Complete, CompleteIfPending, AckCommand, Goto, Drop
<1>8. CASE HandlerStep
  <2>1. CASE CompleteAcked
    <3>1. hreq \in executed /\ sent[hreq] > 0
      BY <2>1 DEF CompleteAcked, CodesOK
    <3>2. ASSUME NEW w \in Workers, pc[w] = "deadline", msg[w] = hreq
          PROVE  msg[w] \in late
      BY <3>1, <3>2 DEF SendingOK
    <3>3. ASSUME NEW w \in Workers, pc[w] \in {"mark", "publish"}
          PROVE  msg[w] # hreq
      BY <3>1, <3>3 DEF SendingOK
    <3> QED
      BY <2>1, <3>1, <3>2, <3>3 DEF CompleteAcked, CompleteIfPending
  <2> QED
    BY <1>8, <2>1 DEF HandlerStep, LookupCheckCode, DeleteCheckCode, AbandonAck
<1>9. ASSUME NEW c \in Codes, CodeExpires(c)
      PROVE  FinalOK'
  BY <1>9 DEF CodeExpires
<1>10. CASE UNCHANGED vars
  BY <1>10 DEF vars
<1> QED
  BY <1>1, <1>2, <1>3, <1>4, <1>5, <1>6, <1>7, <1>8, <1>9, <1>10
     DEF Next, Process

\* The unconditional writes stay away from terminal statuses.
LEMMA BusFinal ==
  ASSUME SingleOwner, FreshCodes
  PROVE  Spec => []FinalOK
<1>1. Init => FinalOK
  BY DEF Init, FinalOK
<1>2. WellFormed /\ CodesOK /\ OwnerOK /\ SendingOK /\ FinalOK /\ [Next]_vars
        => FinalOK'
  BY FinalStep
<1>3. Spec => []CodesOK
  BY BusCodes
<1>4. Spec => [](OwnerOK /\ SendingOK)
  BY BusOwner, BusSending, PTL
<1> QED
  BY <1>1, <1>2, <1>3, <1>4, BusTypes, PTL DEF Spec

\* What one step may do to a status.
StatusStep ==
  \A r \in Requests :
    status[r] \in Terminal => status'[r] \in {status[r], "absent"}

\* A step of the bus replaces no terminal status.
LEMMA FinalStatus ==
  ASSUME WellFormed, FinalOK, [Next]_vars
  PROVE  StatusStep
<1> USE BusAssumption DEF WellFormed, TypeOK, LocalsOK, OriginsOK, FinalOK,
      StatusStep, redisVars, streamVars, idVars, callerVars, workerVars,
      handlerVars, runnerVars, mqttVars
<1>1. ASSUME NEW r \in Requests, CallerStep(r)
      PROVE  StatusStep
  BY <1>1 DEF CallerStep, ReserveCheckCode, EnqueueCommand, WaitResult, GiveUp,
       DeadlinePasses, Terminal
<1>2. ASSUME NEW r \in Requests,
             BrokerTakes(r) \/ DeviceExecutes(r) \/ RecordExpires(r)
      PROVE  StatusStep
  BY <1>2 DEF BrokerTakes, DeviceExecutes, RecordExpires
<1>3. ASSUME NEW w \in Workers,
             \/ StartWorker(w) \/ Connect(w) \/ Disconnect(w)
             \/ Crash(w) \/ Abandon(w)
             \/ ReadCommand(w) \/ ClaimStale(w) \/ Process(w)
      PROVE  StatusStep
  BY <1>3 DEF StartWorker, Connect, Disconnect, Crash, Abandon, ReadCommand,
       ClaimStale, Take, Process, Lookup, CheckDeadline, MarkPublishing,
       PublishRefused, HandOver, WaitPuback, TransitionAwaiting, AwaitDevice,
       Complete, CompleteIfPending, StillPending, AckCommand, WorkerOnly
<1>4. CASE HandlerStep
  BY <1>4 DEF HandlerStep, LookupCheckCode, CompleteAcked, CompleteIfPending,
       StillPending, DeleteCheckCode, AbandonAck
<1>5. ASSUME NEW c \in Codes, CodeExpires(c)
      PROVE  StatusStep
  BY <1>5 DEF CodeExpires
<1>6. CASE UNCHANGED vars
  BY <1>6 DEF vars
<1> QED
  BY <1>1, <1>2, <1>3, <1>4, <1>5, <1>6 DEF Next

\* A result, once there, stays until the hash expires.
THEOREM BusTerminalIsFinal ==
  ASSUME SingleOwner, FreshCodes
  PROVE  Spec => TerminalIsFinal
<1>1. WellFormed /\ FinalOK /\ [Next]_vars => StatusStep
  BY FinalStatus
<1>2. StatusStep =>
        [\A r \in Requests : status[r] \in Terminal =>
           status'[r] \in {status[r], "absent"}]_vars
  BY DEF StatusStep
<1> QED
  BY <1>1, <1>2, BusTypes, BusFinal, PTL DEF Spec, TerminalIsFinal

-----------------------------------------------------------------------------
(* A definite failure is true                                              *)

\* Whoever says, or is about to say, that nothing was sent is right.
UnsentOK ==
  /\ DefiniteFailureUnsent
  /\ \A r \in Requests : sent[r] > 0 => status[r] # "absent"
  /\ \A w \in Workers :
       /\ pc[w] = "deadline" => sent[msg[w]] = 0
       /\ pc[w] = "publish" => status[msg[w]] \notin NotSent
       /\ pc[w] = "complete" /\ verdict[w] \in NotSent => sent[msg[w]] = 0

\* Every step keeps it so, as long as no hash expires under a pending entry.
LEMMA UnsentStep ==
  ASSUME ~RecordsExpire, WellFormed, OwnerOK, SendingOK, UnsentOK, [Next]_vars
  PROVE  UnsentOK'
<1> USE BusAssumption DEF WellFormed, TypeOK, LocalsOK, OriginsOK, UnsentOK,
      DefiniteFailureUnsent, NotSent, redisVars, streamVars, idVars,
      callerVars, workerVars, handlerVars, runnerVars, mqttVars
<1>1. ASSUME NEW r \in Requests, CallerStep(r)
      PROVE  UnsentOK'
  BY <1>1 DEF OwnerOK, CallerStep, ReserveCheckCode, EnqueueCommand,
       WaitResult, GiveUp, DeadlinePasses
<1>2. ASSUME NEW r \in Requests,
             BrokerTakes(r) \/ DeviceExecutes(r) \/ RecordExpires(r)
      PROVE  UnsentOK'
  BY <1>2 DEF BrokerTakes, DeviceExecutes, RecordExpires
<1>3. ASSUME NEW w \in Workers,
             \/ StartWorker(w) \/ Connect(w) \/ Disconnect(w)
             \/ Crash(w) \/ Abandon(w)
             \/ ReadCommand(w) \/ ClaimStale(w)
      PROVE  UnsentOK'
  BY <1>3 DEF StartWorker, Connect, Disconnect, Crash, Abandon, Drop,
       ReadCommand, ClaimStale, Take
<1>4. ASSUME NEW w \in Workers, Lookup(w)
      PROVE  UnsentOK'
  BY <1>4 DEF SendingOK, Lookup, InDoubt, Goto, Conclude, WorkerOnly,
       Statuses, Pending
<1>5. ASSUME NEW w \in Workers, CheckDeadline(w) \/ MarkPublishing(w)
      PROVE  UnsentOK'
  BY <1>5 DEF CheckDeadline, MarkPublishing, Goto, Conclude, WorkerOnly
<1>6. ASSUME NEW w \in Workers, PublishRefused(w)
      PROVE  UnsentOK'
  BY <1>6 DEF SendingOK, PublishRefused, Goto, Conclude, WorkerOnly
<1>7. ASSUME NEW w \in Workers, HandOver(w)
      PROVE  UnsentOK'
  <2>1. \A v \in Workers : v # w => pc[v] = "idle"
    BY <1>7 DEF HandOver, OwnerOK
  <2>2. status[msg[w]] # "absent"
    BY <1>7 DEF HandOver, SendingOK
  <2> QED
    BY <1>7, <2>1, <2>2 DEF HandOver, Goto
<1>8. ASSUME NEW w \in Workers, WaitPuback(w) \/ AwaitDevice(w)
      PROVE  UnsentOK'
  BY <1>8 DEF WaitPuback, AwaitDevice, Goto, Conclude, WorkerOnly
<1>9. ASSUME NEW w \in Workers, TransitionAwaiting(w) \/ AckCommand(w)
      PROVE  UnsentOK'
  BY <1>9 DEF TransitionAwaiting, AckCommand, Goto, Drop
<1>10. ASSUME NEW w \in Workers, Complete(w)
       PROVE  UnsentOK'
  <2>1. \A v \in Workers : v # w => pc[v] = "idle"
    BY <1>10 DEF Complete, OwnerOK
  <2> QED
    BY <1>10, <2>1 DEF Complete, CompleteIfPending, Goto, Terminal
<1>11. CASE HandlerStep
  BY <1>11 DEF HandlerStep, LookupCheckCode, CompleteAcked, CompleteIfPending,
       DeleteCheckCode, AbandonAck
<1>12. ASSUME NEW c \in Codes, CodeExpires(c)
       PROVE  UnsentOK'
  BY <1>12 DEF CodeExpires
<1>13. CASE UNCHANGED vars
  BY <1>13 DEF vars
<1> QED
  BY <1>1, <1>2, <1>3, <1>4, <1>5, <1>6, <1>7, <1>8, <1>9, <1>10, <1>11,
     <1>12, <1>13 DEF Next, Process

\* The definite failures are true.
LEMMA BusUnsent ==
  ASSUME SingleOwner, ~RecordsExpire
  PROVE  Spec => []UnsentOK
<1>1. Init => UnsentOK
  BY DEF Init, UnsentOK, DefiniteFailureUnsent, NotSent
<1>2. WellFormed /\ OwnerOK /\ SendingOK /\ UnsentOK /\ [Next]_vars
        => UnsentOK'
  BY UnsentStep
<1>3. Spec => [](OwnerOK /\ SendingOK)
  BY BusOwner, BusSending, PTL
<1> QED
  BY <1>1, <1>2, <1>3, BusTypes, PTL DEF Spec

\* A status that says that nothing was sent is true, as long as every entry
\* is settled before its hash expires.
THEOREM BusDefiniteFailureUnsent ==
  ASSUME SingleOwner, ~RecordsExpire
  PROVE  Spec => []DefiniteFailureUnsent
<1>1. UnsentOK => DefiniteFailureUnsent
  BY DEF UnsentOK
<1> QED
  BY <1>1, BusUnsent, PTL
-----------------------------------------------------------------------------
(* The order of the stream                                                 *)

\* Behind an entry that is new, or that a worker has in hand for the first
\* time, everything is new: XREADGROUP gives the oldest entry, one worker has
\* one entry in hand, and only what was delivered before is claimed.
OrderOK ==
  /\ \A r \in Requests : pos[r] <= lastId /\ (entry[r] = "none" => pos[r] = 0)
  /\ \A r, q \in Requests :
       entry[r] = "new" /\ pos[q] > pos[r] => entry[q] = "new"
  /\ \A w \in Workers, q \in Requests :
       pc[w] # "idle" /\ ~recovered[w] /\ pos[q] > pos[msg[w]] =>
         entry[q] = "new"

\* Every step keeps what is behind an entry new.
LEMMA OrderStep ==
  ASSUME WellFormed, OwnerOK, OrderOK, [Next]_vars
  PROVE  OrderOK'
<1> USE BusAssumption DEF WellFormed, TypeOK, LocalsOK, OriginsOK, OrderOK,
      redisVars, streamVars, idVars, callerVars, workerVars, handlerVars,
      runnerVars, mqttVars
<1>1. ASSUME NEW r \in Requests, EnqueueCommand(r)
      PROVE  OrderOK'
  <2>1. entry[r] = "none" /\ \A w \in Workers : pc[w] # "idle" => msg[w] # r
    BY <1>1 DEF EnqueueCommand
  <2>2. UNCHANGED <<pc, msg, recovered>>
    BY <1>1 DEF EnqueueCommand
  <2>3. CASE UNCHANGED streamVars
    BY <2>2, <2>3
  <2>4. CASE /\ entry' = [entry EXCEPT ![r] = "new"]
             /\ lastId' = lastId + 1
             /\ pos' = [pos EXCEPT ![r] = lastId + 1]
    <3>1. \A q \in Requests : pos'[q] <= lastId' /\ (entry'[q] = "none" => pos'[q] = 0)
      BY <2>4
    <3>2. \A x, q \in Requests :
            entry'[x] = "new" /\ pos'[q] > pos'[x] => entry'[q] = "new"
      BY <2>4
    <3>3. \A w \in Workers, q \in Requests :
            pc'[w] # "idle" /\ ~recovered'[w] /\ pos'[q] > pos'[msg'[w]] =>
              entry'[q] = "new"
      BY <2>1, <2>2, <2>4
    <3> QED
      BY <3>1, <3>2, <3>3
  <2> QED
    BY <1>1, <2>3, <2>4 DEF EnqueueCommand
<1>2. ASSUME NEW w \in Workers, NEW r \in Requests, NEW again \in BOOLEAN,
             Take(w, r, again), entry[r] # "none",
             again \/ IsNext(r), again => entry[r] = "pending"
      PROVE  OrderOK'
  <2>1. /\ entry' = [entry EXCEPT ![r] = "pending"]
        /\ UNCHANGED <<pos, lastId>>
        /\ pc' = [pc EXCEPT ![w] = "lookup"]
        /\ msg' = [msg EXCEPT ![w] = r]
        /\ recovered' = [recovered EXCEPT ![w] = again]
    BY <1>2 DEF Take
  <2>2. \A x \in Requests : entry[x] = "new" /\ x # r => pos[r] <= pos[x]
    BY <1>2 DEF IsNext
  <2>3. \A v \in Workers \ {w} : pc[v] = "idle"
    BY <1>2 DEF Take, OwnerOK
  <2>4. \A x, q \in Requests :
          entry'[x] = "new" /\ pos'[q] > pos'[x] => entry'[q] = "new"
    BY <2>1, <2>2
  <2>5. \A v \in Workers, q \in Requests :
          pc'[v] # "idle" /\ ~recovered'[v] /\ pos'[q] > pos'[msg'[v]] =>
            entry'[q] = "new"
    BY <1>2, <2>1, <2>3 DEF IsNext
  <2>6. \A q \in Requests : pos'[q] <= lastId' /\ (entry'[q] = "none" => pos'[q] = 0)
    BY <2>1
  <2> QED
    BY <2>4, <2>5, <2>6
<1>3. ASSUME NEW w \in Workers, ReadCommand(w) \/ ClaimStale(w)
      PROVE  OrderOK'
  BY <1>2, <1>3 DEF ReadCommand, ClaimStale, IsNext
<1>4. ASSUME NEW w \in Workers, AckCommand(w)
      PROVE  OrderOK'
  <2>1. entry[msg[w]] = "pending" /\ msg[w] \in Requests
    BY <1>4 DEF AckCommand, OwnerOK
  <2>2. \A v \in Workers \ {w} : pc[v] = "idle"
    BY <1>4 DEF AckCommand, OwnerOK
  <2> QED
    BY <1>4, <2>1, <2>2 DEF AckCommand, Drop
<1>5. ASSUME NEW w \in Workers, Crash(w) \/ Abandon(w)
      PROVE  OrderOK'
  BY <1>5 DEF Crash, Abandon, Drop
<1>6. ASSUME NEW w \in Workers,
             \/ StartWorker(w) \/ Connect(w) \/ Disconnect(w)
             \/ Lookup(w) \/ CheckDeadline(w)
             \/ MarkPublishing(w) \/ PublishRefused(w) \/ HandOver(w)
             \/ WaitPuback(w) \/ TransitionAwaiting(w) \/ AwaitDevice(w)
             \/ Complete(w)
      PROVE  UNCHANGED <<entry, pos, lastId, msg, recovered>> /\
             \A v \in Workers : pc'[v] # "idle" => pc[v] # "idle"
  BY <1>6 DEF StartWorker, Connect, Disconnect, Lookup, CheckDeadline,
       MarkPublishing, PublishRefused, HandOver, WaitPuback,
       TransitionAwaiting, AwaitDevice, Complete, Goto, Conclude, WorkerOnly
<1>7. ASSUME UNCHANGED <<entry, pos, lastId, msg, recovered>>,
             \A v \in Workers : pc'[v] # "idle" => pc[v] # "idle"
      PROVE  OrderOK'
  BY <1>7
<1>8. ASSUME NEW r \in Requests,
             \/ ReserveCheckCode(r) \/ WaitResult(r) \/ GiveUp(r)
             \/ DeadlinePasses(r) \/ BrokerTakes(r) \/ DeviceExecutes(r)
             \/ RecordExpires(r)
      PROVE  OrderOK'
  BY <1>8 DEF ReserveCheckCode, WaitResult, GiveUp, DeadlinePasses,
       BrokerTakes, DeviceExecutes, RecordExpires
<1>9. CASE HandlerStep \/ \E c \in Codes : CodeExpires(c)
  BY <1>9 DEF HandlerStep, LookupCheckCode, CompleteAcked, DeleteCheckCode,
       AbandonAck, CodeExpires
<1>10. CASE UNCHANGED vars
  BY <1>10 DEF vars
<1> QED
  BY <1>1, <1>3, <1>4, <1>5, <1>6, <1>7, <1>8, <1>9, <1>10
     DEF Next, CallerStep, Process

\* One step sends in the order of the stream.
LEMMA SendsInOrder ==
  ASSUME WellFormed, OwnerOK, SendingOK, OrderOK, [Next]_vars,
         NEW r \in Requests, NEW q \in Requests, NEW w \in Workers,
         sent'[r] > sent[r], msg[w] = r, ~recovered[w], pos[q] > pos[r]
  PROVE  sent[q] = 0
<1>1. pc[w] # "idle"
  BY DEF WellFormed, LocalsOK
<1>2. entry[q] = "new"
  BY <1>1 DEF OrderOK
<1> QED
  BY <1>2 DEF SendingOK

\* The commands that no fault has left pending are sent in the order in which
\* they were put into the stream, while one worker is alive.
THEOREM BusSentInStreamOrder ==
  ASSUME SingleOwner
  PROVE  Spec => SentInStreamOrder
<1>1. Init => OrderOK
  BY DEF Init, OrderOK
<1>2. WellFormed /\ OwnerOK /\ OrderOK /\ [Next]_vars => OrderOK'
  BY OrderStep
<1>3. Spec => [](OwnerOK /\ SendingOK)
  BY BusOwner, BusSending, PTL
<1>4. Spec => []OrderOK
  BY <1>1, <1>2, <1>3, BusTypes, PTL DEF Spec
<1>5. WellFormed /\ OwnerOK /\ SendingOK /\ OrderOK /\ [Next]_vars =>
        [\A r, q \in Requests, w \in Workers :
           /\ sent'[r] > sent[r] /\ msg[w] = r /\ ~recovered[w]
           /\ pos[q] > pos[r]
           => sent[q] = 0]_vars
  BY SendsInOrder
<1> QED
  BY <1>3, <1>4, <1>5, BusTypes, PTL DEF Spec, SentInStreamOrder

-----------------------------------------------------------------------------
\* What the loss of request hashes leaves intact: no second publish, no false
\* confirmation and no entry without a result.
THEOREM BusSafeWithoutRecords ==
  ASSUME SingleOwner, FreshCodes
  PROVE  Spec => []SafeWithoutRecords
<1>1. AtMostOncePublish /\ OkIsGenuine /\ NoSilentDrop => SafeWithoutRecords
  BY DEF SafeWithoutRecords
<1> QED
  BY <1>1, BusAtMostOncePublish, BusOkIsGenuine, BusNoSilentDrop, PTL
=============================================================================
