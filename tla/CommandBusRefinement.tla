------------------------ MODULE CommandBusRefinement ------------------------
(***************************************************************************)
(* The command bus implements CommandRequest, for every set of requests,   *)
(* resources, codes and workers and every number of faults, while the      *)
(* runner lease works, no check code is drawn twice and every entry is     *)
(* settled before its hash expires.                                        *)
(***************************************************************************)
EXTENDS CommandBusProofs

\* What else the promise asks for: an accepted request has a hash, a status
\* that only follows a publish follows one, and only a caller that asked for
\* the device gets its acknowledgement.
PromiseOK ==
  /\ \A r \in Requests :
       /\ entry[r] # "none" => status[r] # "absent"
       /\ status[r] = "awaiting_device_ack" => sent[r] = 1
       /\ codeOf[r] # None => r \in NeedsAck
  /\ \A w \in Workers :
       /\ pc[w] \in {"puback", "transition", "wait"} => sent[msg[w]] = 1
       /\ pc[w] = "complete" =>
            /\ verdict[w] = "broker_acked" => msg[w] \notin NeedsAck
            /\ verdict[w] \in {"broker_acked", "device_ack_timeout"} =>
                 sent[msg[w]] = 1
  /\ hpc # "idle" => hreq \in NeedsAck

\* Every step keeps it so.
LEMMA PromiseStep ==
  ASSUME ~RecordsExpire, WellFormed, CodesOK, OwnerOK, SendingOK, PromiseOK,
         [Next]_vars
  PROVE  PromiseOK'
<1> USE BusAssumption DEF WellFormed, TypeOK, LocalsOK, OriginsOK, PromiseOK,
      redisVars, streamVars, idVars, callerVars, workerVars, handlerVars,
      runnerVars, mqttVars
<1>1. ASSUME NEW r \in Requests, CallerStep(r)
      PROVE  PromiseOK'
  BY <1>1 DEF OwnerOK, CallerStep, ReserveCheckCode, EnqueueCommand,
       WaitResult, GiveUp, DeadlinePasses
<1>2. ASSUME NEW r \in Requests,
             BrokerTakes(r) \/ DeviceExecutes(r) \/ RecordExpires(r)
      PROVE  PromiseOK'
  BY <1>2 DEF BrokerTakes, DeviceExecutes, RecordExpires
<1>3. ASSUME NEW w \in Workers,
             \/ StartWorker(w) \/ Connect(w) \/ Disconnect(w)
             \/ Crash(w) \/ Abandon(w)
             \/ ReadCommand(w) \/ ClaimStale(w)
      PROVE  PromiseOK'
  BY <1>3 DEF StartWorker, Connect, Disconnect, Crash, Abandon, Drop,
       ReadCommand, IsNext, ClaimStale, Take
<1>4. ASSUME NEW w \in Workers, Lookup(w) \/ CheckDeadline(w)
      PROVE  PromiseOK'
  BY <1>4 DEF Lookup, CheckDeadline, Goto, Conclude, WorkerOnly
<1>5. ASSUME NEW w \in Workers, MarkPublishing(w) \/ TransitionAwaiting(w)
      PROVE  PromiseOK'
  BY <1>5 DEF MarkPublishing, TransitionAwaiting, Goto
<1>6. ASSUME NEW w \in Workers, HandOver(w)
      PROVE  PromiseOK'
  <2>1. \A v \in Workers : v # w => pc[v] = "idle"
    BY <1>6 DEF HandOver, OwnerOK
  <2>2. sent[msg[w]] = 0 /\ \A r \in Requests : sent[r] <= 1
    BY <1>6 DEF HandOver, SendingOK, AtMostOncePublish
  <2>3. status[msg[w]] # "awaiting_device_ack"
    BY <2>2, <1>6 DEF HandOver
  <2> QED
    BY <1>6, <2>1, <2>2, <2>3 DEF HandOver, Goto
<1>7. ASSUME NEW w \in Workers,
             PublishRefused(w) \/ WaitPuback(w) \/ AwaitDevice(w)
      PROVE  PromiseOK'
  BY <1>7 DEF PublishRefused, WaitPuback, AwaitDevice, Goto, Conclude,
       WorkerOnly
<1>8. ASSUME NEW w \in Workers, Complete(w) \/ AckCommand(w)
      PROVE  PromiseOK'
  BY <1>8 DEF Complete, CompleteIfPending, AckCommand, Goto, Drop, Terminal
<1>9. CASE HandlerStep
  BY <1>9 DEF CodesOK, HandlerStep, LookupCheckCode, Resolves, CompleteAcked,
       CompleteIfPending, DeleteCheckCode, AbandonAck
<1>10. ASSUME NEW c \in Codes, CodeExpires(c)
       PROVE  PromiseOK'
  BY <1>10 DEF CodeExpires
<1>11. CASE UNCHANGED vars
  BY <1>11 DEF vars
<1> QED
  BY <1>1, <1>2, <1>3, <1>4, <1>5, <1>6, <1>7, <1>8, <1>9, <1>10, <1>11
     DEF Next, Process

-----------------------------------------------------------------------------
(* The step simulation                                                     *)

\* Everything that is known of a reachable state.
BusInv ==
  /\ WellFormed /\ CodesOK /\ Genuine /\ OwnerOK
  /\ SendingOK /\ FinalOK /\ UnsentOK /\ PromiseOK

\* A step of the promise, or none.
RequestStep == Request!Next \/ UNCHANGED <<PhaseOf, sent, AnswerOf>>

\* The phase of each kind of status.
LEMMA PhaseValues ==
  /\ Phase("absent") = "new"
  /\ \A s \in Pending : Phase(s) = "pending"
  /\ \A s \in Terminal : Phase(s) = s
BY DEF Phase, Pending, Terminal

\* One status is written.
LEMMA PhaseChange ==
  ASSUME TypeOK, NEW r \in Requests, NEW s,
         status' = [status EXCEPT ![r] = s]
  PROVE  PhaseOf' = [PhaseOf EXCEPT ![r] = Phase(s)]
BY DEF TypeOK, PhaseOf

\* One caller moves on.
LEMMA AnswerChange ==
  ASSUME TypeOK, NEW r \in Requests, NEW c,
         caller' = [caller EXCEPT ![r] = c]
  PROVE  AnswerOf' = [AnswerOf EXCEPT ![r] = Answer(c)]
BY DEF TypeOK, AnswerOf

\* A caller that is told of a failure.
LEMMA Failing ==
  ASSUME TypeOK, NEW r \in Requests, caller[r] \notin {"ok", "failed"},
         caller' = [caller EXCEPT ![r] = "failed"], UNCHANGED <<status, sent>>
  PROVE  RequestStep
<1>1. AnswerOf[r] = "none"
  BY DEF AnswerOf, Answer
<1>2. AnswerOf' = [AnswerOf EXCEPT ![r] = "failed"]
  BY AnswerChange DEF Answer
<1>3. UNCHANGED <<PhaseOf, sent>>
  BY DEF PhaseOf
<1>4. Request!AnswerFailed(r)
  BY <1>1, <1>2, <1>3 DEF Request!AnswerFailed
<1> QED
  BY <1>4 DEF RequestStep, Request!Next

\* A caller accepts its request, is told of a result or gives up.
LEMMA CallerSimulates ==
  ASSUME BusInv, NEW r \in Requests, CallerStep(r)
  PROVE  RequestStep
<1> TypeOK
  BY DEF BusInv, WellFormed
<1> USE DEF redisVars, streamVars, idVars, mqttVars
<1>1. CASE ReserveCheckCode(r)
  <2>1. caller[r] = "idle" /\ UNCHANGED <<status, sent>>
    BY <1>1 DEF ReserveCheckCode
  <2>2. CASE caller' = [caller EXCEPT ![r] = "failed"]
    BY <2>1, <2>2, Failing
  <2>3. CASE caller' = [caller EXCEPT ![r] = "reserved"]
    <3>1. AnswerOf' = [AnswerOf EXCEPT ![r] = Answer("reserved")]
      BY <2>3, AnswerChange
    <3>2. AnswerOf' = AnswerOf
      BY <2>1, <3>1 DEF AnswerOf, Answer
    <3> QED
      BY <2>1, <3>2 DEF RequestStep, PhaseOf
  <2> QED
    BY <1>1, <2>2, <2>3 DEF ReserveCheckCode
<1>2. CASE EnqueueCommand(r)
  <2>1. caller[r] \in {"idle", "reserved"} /\ UNCHANGED sent
    BY <1>2 DEF EnqueueCommand
  <2>2. CASE UNCHANGED status
    <3>1. caller' = [caller EXCEPT ![r] = "failed"]
      BY <1>2, <2>1, <2>2 DEF EnqueueCommand, BusInv, WellFormed, OriginsOK,
           FinalOK, TypeOK
    <3> QED
      BY <2>1, <2>2, <3>1, Failing
  <2>3. CASE status' = [status EXCEPT ![r] = "queued"]
    <3>1. PICK c \in {"waiting", "failed"} : caller' = [caller EXCEPT ![r] = c]
      BY <1>2 DEF EnqueueCommand
    <3>2. AnswerOf' = [AnswerOf EXCEPT ![r] = Answer(c)]
      BY <3>1, AnswerChange
    <3>3. Answer(c) \in {"none", "failed"}
      BY <3>1 DEF Answer
    <3>4. PhaseOf' = [PhaseOf EXCEPT ![r] = "pending"]
      <4>1. PhaseOf' = [PhaseOf EXCEPT ![r] = Phase("queued")]
        BY <2>3, PhaseChange
      <4>2. Phase("queued") = "pending"
        BY PhaseValues DEF Pending
      <4> QED
        BY <4>1, <4>2
    <3>5. PhaseOf[r] = "new" /\ AnswerOf[r] = "none"
      <4>1. OriginsOK /\ FinalOK
        BY DEF BusInv, WellFormed
      <4>2. entry[r] = "none"
        BY <2>1, <4>1 DEF OriginsOK
      <4>3. status[r] = "absent"
        BY <4>1, <4>2 DEF FinalOK
      <4> QED
        BY <2>1, <4>3, PhaseValues DEF PhaseOf, AnswerOf, Answer
    <3>6. Request!Accept(r, Answer(c))
      BY <2>1, <3>2, <3>3, <3>4, <3>5 DEF Request!Accept
    <3> QED
      BY <3>3, <3>6 DEF RequestStep, Request!Next
  <2> QED
    BY <1>2, <2>2, <2>3 DEF EnqueueCommand
<1>3. CASE WaitResult(r)
  <2>1. caller[r] = "waiting" /\ UNCHANGED <<status, sent>>
    BY <1>3 DEF WaitResult
  <2>2. CASE status[r] = Expected(r)
    <3>1. PhaseOf[r] = Request!Expected(r)
      BY <2>2, PhaseValues
         DEF Expected, Request!Expected, PhaseOf, Terminal
    <3>2. AnswerOf[r] = "none"
      BY <2>1 DEF AnswerOf, Answer
    <3>3. caller' = [caller EXCEPT ![r] = "ok"]
      BY <1>3, <2>2 DEF WaitResult
    <3>4. AnswerOf' = [AnswerOf EXCEPT ![r] = "ok"]
      BY <3>3, AnswerChange DEF Answer
    <3>5. UNCHANGED <<PhaseOf, sent>>
      BY <2>1 DEF PhaseOf
    <3>6. Request!AnswerOk(r)
      BY <3>1, <3>2, <3>4, <3>5 DEF Request!AnswerOk
    <3> QED
      BY <3>6 DEF RequestStep, Request!Next
  <2>3. CASE status[r] # Expected(r)
    BY <1>3, <2>1, <2>3, Failing DEF WaitResult
  <2> QED
    BY <2>2, <2>3
<1>4. CASE GiveUp(r)
  BY <1>4, Failing DEF GiveUp
<1>5. CASE DeadlinePasses(r)
  BY <1>5 DEF DeadlinePasses, RequestStep, PhaseOf, AnswerOf
<1> QED
  BY <1>1, <1>2, <1>3, <1>4, <1>5 DEF CallerStep

\* A status that is not terminal, of a request that has a hash, is replaced
\* by another one: the promise does not see it.
LEMMA StillPendingStutters ==
  ASSUME TypeOK, NEW r \in Requests, status[r] \in Pending, NEW s \in Pending,
         status' = [status EXCEPT ![r] = s], UNCHANGED <<sent, caller>>
  PROVE  RequestStep
<1>1. PhaseOf' = [PhaseOf EXCEPT ![r] = "pending"]
  <2>1. PhaseOf' = [PhaseOf EXCEPT ![r] = Phase(s)]
    BY PhaseChange
  <2>2. Phase(s) = "pending"
    BY PhaseValues
  <2> QED
    BY <2>1, <2>2
<1>2. PhaseOf[r] = "pending"
  BY PhaseValues DEF PhaseOf
<1>3. PhaseOf' = PhaseOf
  BY <1>1, <1>2 DEF PhaseOf
<1> QED
  BY <1>3 DEF RequestStep, AnswerOf

\* complete_if_pending settles the request, or leaves its result alone.
LEMMA CompletionSettles ==
  ASSUME TypeOK, NEW r \in Requests, NEW s \in Terminal, status[r] # "absent",
         s \in NotSent => status[r] \in Terminal \/ sent[r] = 0,
         s \in {"broker_acked", "device_acked", "device_ack_timeout"} =>
           sent[r] = 1,
         s \in {"broker_acked", "device_acked"} => s = Expected(r),
         CompleteIfPending(r, s), UNCHANGED <<sent, caller>>
  PROVE  RequestStep
<1>1. CASE StillPending(r)
  <2>1. status' = [status EXCEPT ![r] = s]
    BY <1>1 DEF CompleteIfPending
  <2>2. PhaseOf' = [PhaseOf EXCEPT ![r] = s]
    <3>1. PhaseOf' = [PhaseOf EXCEPT ![r] = Phase(s)]
      BY <2>1, PhaseChange
    <3>2. Phase(s) = s
      BY PhaseValues
    <3> QED
      BY <3>1, <3>2
  <2>3. status[r] \in Pending
    BY <1>1 DEF StillPending, TypeOK, Statuses
  <2>4. PhaseOf[r] = "pending"
    BY <2>3, PhaseValues DEF PhaseOf
  <2>5. /\ s \in Request!Terminal
        /\ s \in Request!NotSent => sent[r] = 0
        /\ s \in Request!Acknowledged => sent[r] = 1
        /\ s \in {"broker_acked", "device_acked"} => s = Request!Expected(r)
    BY <1>1 DEF StillPending, Terminal, NotSent, Expected, Request!Terminal,
         Request!NotSent, Request!Acknowledged, Request!Expected
  <2>6. Request!Settle(r, s)
    BY <2>2, <2>4, <2>5 DEF Request!Settle, AnswerOf
  <2> QED
    BY <2>5, <2>6 DEF RequestStep, Request!Next
<1>2. CASE ~StillPending(r)
  BY <1>2 DEF CompleteIfPending, RequestStep, PhaseOf, AnswerOf
<1> QED
  BY <1>1, <1>2

\* A worker sends the command, settles the request or does what nobody sees.
LEMMA WorkerSimulates ==
  ASSUME BusInv, NEW w \in Workers, Process(w)
  PROVE  RequestStep
<1> TypeOK /\ LocalsOK /\ OriginsOK /\ OwnerOK /\ PromiseOK
  BY DEF BusInv, WellFormed
<1> USE DEF redisVars, streamVars, callerVars, mqttVars
<1> DEFINE r == msg[w]
<1>1. CASE UNCHANGED <<status, sent, caller>>
  BY <1>1 DEF RequestStep, PhaseOf, AnswerOf
<1>2. pc[w] # "idle" => /\ r \in Requests /\ status[r] # "absent"
  BY DEF LocalsOK, OriginsOK, PromiseOK
<1>3. CASE MarkPublishing(w)
  <2>1. status[r] \in Pending
    BY <1>2, <1>3 DEF MarkPublishing, BusInv, FinalOK, TypeOK, Statuses
  <2>2. status' = [status EXCEPT ![r] = "publishing"]
    BY <1>3 DEF MarkPublishing
  <2> QED
    BY <1>2, <1>3, <2>1, <2>2, StillPendingStutters DEF MarkPublishing, Pending
<1>4. CASE HandOver(w)
  <2>1. status[r] \in Pending /\ sent[r] = 0
    BY <1>2, <1>4 DEF HandOver, BusInv, FinalOK, SendingOK, TypeOK, Statuses
  <2>2. PhaseOf[r] = "pending"
    BY <1>2, <1>4, <2>1, PhaseValues DEF HandOver, PhaseOf
  <2>3. sent' = [sent EXCEPT ![r] = 1] /\ UNCHANGED <<PhaseOf, AnswerOf>>
    BY <2>1, <1>4 DEF HandOver, PhaseOf, AnswerOf
  <2>4. Request!Send(r)
    BY <2>1, <2>2, <2>3 DEF Request!Send
  <2> QED
    BY <1>2, <1>4, <2>4 DEF HandOver, RequestStep, Request!Next
<1>5. CASE TransitionAwaiting(w)
  <2>1. CASE StillPending(r)
    <3>1. status[r] \in Pending
      BY <1>2, <1>5, <2>1 DEF TransitionAwaiting, StillPending, TypeOK,
           Statuses
    <3>2. status' = [status EXCEPT ![r] = "awaiting_device_ack"]
      BY <1>5, <2>1 DEF TransitionAwaiting
    <3> QED
      BY <1>2, <1>5, <3>1, <3>2, StillPendingStutters
         DEF TransitionAwaiting, Pending
  <2>2. CASE ~StillPending(r)
    BY <1>1, <1>5, <2>2 DEF TransitionAwaiting
  <2> QED
    BY <2>1, <2>2
<1>6. CASE Complete(w)
  <2> DEFINE s == verdict[w]
  <2>1. r \in Requests /\ status[r] # "absent" /\ s \in Terminal
    BY <1>2, <1>6 DEF Complete, LocalsOK
  <2>2. s \in NotSent => sent[r] = 0
    BY <1>6 DEF Complete, BusInv, UnsentOK
  <2>3. s # "device_acked"
    BY <1>6 DEF Complete, BusInv, Genuine
  <2>4. /\ s \in {"broker_acked", "device_ack_timeout"} => sent[r] = 1
        /\ s = "broker_acked" => s = Expected(r)
    BY <1>6 DEF Complete, PromiseOK, Expected
  <2>5. CompleteIfPending(r, s) /\ UNCHANGED <<sent, caller>>
    BY <1>6 DEF Complete
  <2> QED
    BY <2>1, <2>2, <2>3, <2>4, <2>5, CompletionSettles
<1>7. CASE Lookup(w) \/ CheckDeadline(w) \/ PublishRefused(w) \/ WaitPuback(w)
           \/ AwaitDevice(w) \/ AckCommand(w)
  BY <1>1, <1>7 DEF Lookup, CheckDeadline, PublishRefused, WaitPuback,
       AwaitDevice, AckCommand, WorkerOnly
<1> QED
  BY <1>3, <1>4, <1>5, <1>6, <1>7 DEF Process

\* An acknowledgement settles its request: it was sent, and asked for it.
LEMMA HandlerSimulates ==
  ASSUME BusInv, HandlerStep
  PROVE  RequestStep
<1> USE DEF redisVars, streamVars, callerVars, mqttVars
<1>1. CASE CompleteAcked
  <2>1. TypeOK /\ LocalsOK /\ OriginsOK /\ CodesOK /\ SendingOK /\ PromiseOK
    BY DEF BusInv, WellFormed
  <2>2. hreq \in Requests /\ hreq \in NeedsAck /\ sent[hreq] > 0
    BY <1>1, <2>1 DEF CompleteAcked, LocalsOK, OriginsOK, CodesOK, PromiseOK
  <2>3. sent[hreq] = 1
    BY <2>1, <2>2 DEF SendingOK, AtMostOncePublish, TypeOK
  <2>4. status[hreq] # "absent"
    BY <2>1, <2>2 DEF OriginsOK, PromiseOK
  <2>5. CompleteIfPending(hreq, "device_acked") /\ UNCHANGED <<sent, caller>>
    BY <1>1 DEF CompleteAcked
  <2> QED
    BY <2>1, <2>2, <2>3, <2>4, <2>5, CompletionSettles
       DEF Terminal, NotSent, Expected
<1>2. CASE LookupCheckCode \/ DeleteCheckCode \/ AbandonAck
  BY <1>2 DEF LookupCheckCode, DeleteCheckCode, AbandonAck, RequestStep,
       PhaseOf, AnswerOf
<1> QED
  BY <1>1, <1>2 DEF HandlerStep

\* Every step of the bus is a step of the promise or none.
LEMMA StepSimulates ==
  ASSUME ~RecordsExpire, BusInv, [Next]_vars
  PROVE  RequestStep
<1> USE DEF redisVars, streamVars, callerVars, mqttVars
<1>1. ASSUME NEW r \in Requests,
             BrokerTakes(r) \/ DeviceExecutes(r) \/ RecordExpires(r)
      PROVE  UNCHANGED <<status, sent, caller>>
  BY <1>1 DEF BrokerTakes, DeviceExecutes, RecordExpires
<1>2. ASSUME NEW w \in Workers,
             \/ StartWorker(w) \/ Connect(w) \/ Disconnect(w)
             \/ Crash(w) \/ Abandon(w)
             \/ ReadCommand(w) \/ ClaimStale(w)
      PROVE  UNCHANGED <<status, sent, caller>>
  BY <1>2 DEF StartWorker, Connect, Disconnect, Crash, Abandon, ReadCommand,
       ClaimStale, Take
<1>3. ASSUME NEW c \in Codes, CodeExpires(c)
      PROVE  UNCHANGED <<status, sent, caller>>
  BY <1>3 DEF CodeExpires
<1>4. UNCHANGED vars => UNCHANGED <<status, sent, caller>>
  BY DEF vars
<1>5. UNCHANGED <<status, sent, caller>> => RequestStep
  BY DEF RequestStep, PhaseOf, AnswerOf
<1> QED
  BY <1>1, <1>2, <1>3, <1>4, <1>5, CallerSimulates, WorkerSimulates,
     HandlerSimulates DEF Next

\* The command bus implements the promise of CommandRequest.
THEOREM BusImplementsRequest ==
  ASSUME SingleOwner, FreshCodes, ~RecordsExpire
  PROVE  Spec => ImplementsRequest
<1>1. Init => Request!Init
  BY PhaseValues DEF Init, Request!Init, PhaseOf, AnswerOf, Answer
<1>2. Init => PromiseOK /\ Genuine
  BY DEF Init, PromiseOK, Genuine, OkIsGenuine
<1>3. Spec => [](WellFormed /\ CodesOK /\ OwnerOK /\ SendingOK /\ FinalOK /\ UnsentOK)
  BY BusTypes, BusCodes, BusOwner, BusSending, BusFinal, BusUnsent, PTL
<1>4. WellFormed /\ CodesOK /\ OwnerOK /\ SendingOK /\ PromiseOK /\ Genuine
        /\ [Next]_vars => PromiseOK' /\ Genuine'
  BY PromiseStep, GenuineStep
<1>5. Spec => []BusInv
  BY <1>2, <1>3, <1>4, PTL DEF Spec, BusInv
<1>6. BusInv /\ [Next]_vars => [Request!Next]_<<PhaseOf, sent, AnswerOf>>
  BY StepSimulates DEF RequestStep
<1> QED
  BY <1>1, <1>5, <1>6, PTL
     DEF Spec, ImplementsRequest, Request!Spec, Request!reqVars
=============================================================================
