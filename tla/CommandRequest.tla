--------------------------- MODULE CommandRequest ---------------------------
(***************************************************************************)
(* What the MQTT command bus promises about one command request, whatever  *)
(* Redis, the runner, the broker and the device do: a request that was     *)
(* accepted is handed to the MQTT client at most once, ends in one         *)
(* terminal status that never changes, a status that says "nothing was     *)
(* sent" is true, a status that says "acknowledged" is only reached after  *)
(* the command was sent, and the caller is told "ok" only for the          *)
(* acknowledgement it asked for.                                           *)
(***************************************************************************)
EXTENDS Integers

CONSTANTS
  Requests,   \* request ids
  NeedsAck    \* the requests sent with require_device_ack

VARIABLES
  phase,      \* "new", "pending" or a terminal status
  sends,      \* how often the command was handed to the MQTT client
  answer      \* what the caller of the command was told

reqVars == <<phase, sends, answer>>

Terminal ==
  {"broker_acked", "device_acked", "expired_before_publish",
   "broker_timeout", "broker_unavailable", "device_ack_timeout",
   "delivery_unknown", "rejected"}

\* The terminal statuses that state that the command did not leave the runner.
NotSent == {"expired_before_publish", "broker_unavailable", "rejected"}

\* The terminal status that the caller of request r counts as success.
Expected(r) == IF r \in NeedsAck THEN "device_acked" ELSE "broker_acked"

\* A status that can only be reported after the command was handed over.
Acknowledged == {"broker_acked", "device_acked", "device_ack_timeout"}

Init ==
  /\ phase = [r \in Requests |-> "new"]
  /\ sends = [r \in Requests |-> 0]
  /\ answer = [r \in Requests |-> "none"]

\* The request and its stream entry are stored; the reply to the caller may
\* be lost, in which case the caller reports a failure.
Accept(r, told) ==
  /\ phase[r] = "new" /\ answer[r] = "none"
  /\ told \in {"none", "failed"}
  /\ phase' = [phase EXCEPT ![r] = "pending"]
  /\ answer' = [answer EXCEPT ![r] = told]
  /\ UNCHANGED sends

Send(r) ==
  /\ phase[r] = "pending" /\ sends[r] = 0
  /\ sends' = [sends EXCEPT ![r] = 1]
  /\ UNCHANGED <<phase, answer>>

Settle(r, s) ==
  /\ phase[r] = "pending"
  /\ s \in Terminal
  /\ s \in NotSent => sends[r] = 0
  /\ s \in Acknowledged => sends[r] = 1
  /\ s \in {"broker_acked", "device_acked"} => s = Expected(r)
  /\ phase' = [phase EXCEPT ![r] = s]
  /\ UNCHANGED <<sends, answer>>

AnswerOk(r) ==
  /\ phase[r] = Expected(r) /\ answer[r] = "none"
  /\ answer' = [answer EXCEPT ![r] = "ok"]
  /\ UNCHANGED <<phase, sends>>

\* The caller gives up, or is told of another status than the expected one.
AnswerFailed(r) ==
  /\ answer[r] = "none"
  /\ answer' = [answer EXCEPT ![r] = "failed"]
  /\ UNCHANGED <<phase, sends>>

Next ==
  \E r \in Requests :
    \/ \E told \in {"none", "failed"} : Accept(r, told)
    \/ Send(r)
    \/ \E s \in Terminal : Settle(r, s)
    \/ AnswerOk(r)
    \/ AnswerFailed(r)

Spec == Init /\ [][Next]_reqVars
=============================================================================
