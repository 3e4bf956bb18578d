----------------------------- MODULE ConfigReload -----------------------------
(***************************************************************************)
(* How a change of the broker's configuration reaches the MQTT client.     *)
(*                                                                         *)
(* An administrator, or the configure command, saves the configuration and *)
(* then puts a reload request into the control stream.  The main loop of   *)
(* the runner reads the stream, and what another runner has left pending   *)
(* in it, and rebuilds the client from the database.  The notification may *)
(* be missing or lost; every thirty seconds the loop also compares the     *)
(* fingerprint of the database with the one that it has applied.           *)
(*                                                                         *)
(* A version of the configuration is its number; one of the Unusable ones  *)
(* cannot be loaded or started.  A runner that lost its lease goes on      *)
(* until it notices (MqttRunner has the details); the threads of the       *)
(* client are in MqttConnection.                                           *)
(***************************************************************************)
EXTENDS Naturals

CONSTANTS
  CfRunners,
  CfRequests,                \* the reload requests
  CfMaxVersion, CfUnusable,  \* bound on the changes; the versions that fail
  CfMaxFaults,               \* bound on failures of Redis, takeovers and crashes
  CfNobody

ASSUME ConfigAssumption ==
  /\ CfNobody \notin CfRunners \cup CfRequests
  /\ CfMaxVersion \in Nat \ {0} /\ CfUnusable \subseteq 2 .. CfMaxVersion
  /\ CfMaxFaults \in Nat

VARIABLES
  cfVersion,  \* the version in the database
  cfAsked,    \* the version in the database when a reload was requested
  cfStatus,   \* the hash of each request
  cfEntry,    \* its entry in the control stream: none, new, pending or gone
  cfOwner,    \* the runner that has the lease
  cfRunner,   \* the runners: where the main loop is, and the client's version
  cfFaults

cfVars == <<cfVersion, cfAsked, cfStatus, cfEntry, cfOwner, cfRunner, cfFaults>>

CfTerminal == {"reload_applied", "reload_failed"}
CfOff == [at |-> "off", batch |-> {}, req |-> CfNobody, client |-> 0, applied |-> 0]

CfTypeOK ==
  /\ cfVersion \in 1 .. CfMaxVersion
  /\ cfAsked \in [CfRequests -> 0 .. CfMaxVersion]
  /\ cfStatus \in [CfRequests -> {"none", "queued", "reloading"} \cup CfTerminal]
  /\ cfEntry \in [CfRequests -> {"none", "new", "pending", "gone"}]
  /\ cfOwner \in CfRunners \cup {CfNobody}
  /\ cfRunner \in [CfRunners ->
       [at : {"off", "loop", "handle", "stop", "connect", "report", "ack"},
        batch : SUBSET CfRequests, req : CfRequests \cup {CfNobody},
        client : 0 .. CfMaxVersion, applied : 0 .. CfMaxVersion]]
  /\ cfFaults \in 0 .. CfMaxFaults

CfInit ==
  /\ cfVersion = 1
  /\ cfAsked = [q \in CfRequests |-> 0]
  /\ cfStatus = [q \in CfRequests |-> "none"]
  /\ cfEntry = [q \in CfRequests |-> "none"]
  /\ cfOwner = CfNobody
  /\ cfRunner = [c \in CfRunners |-> CfOff]
  /\ cfFaults = 0

-----------------------------------------------------------------------------
(* The web process and the configure command.                              *)

CfSave ==
  /\ cfVersion < CfMaxVersion /\ cfVersion' = cfVersion + 1
  /\ UNCHANGED <<cfAsked, cfStatus, cfEntry, cfOwner, cfRunner, cfFaults>>

\* Without Redis nothing is written.
CfEnqueueReload(q) ==
  /\ cfStatus[q] = "none"
  /\ cfStatus' = [cfStatus EXCEPT ![q] = "queued"]
  /\ cfEntry' = [cfEntry EXCEPT ![q] = "new"]
  /\ cfAsked' = [cfAsked EXCEPT ![q] = cfVersion]
  /\ UNCHANGED <<cfVersion, cfOwner, cfRunner, cfFaults>>

-----------------------------------------------------------------------------
(* A runner.                                                               *)

CfGo(c, at) == cfRunner' = [cfRunner EXCEPT ![c].at = at]

\* connect_async: an existing client is left alone.  What cannot be loaded
\* leaves no client, and the fingerprint as it was.
CfConnected(c) ==
  IF cfRunner[c].client # 0 \/ cfVersion \in CfUnusable THEN cfRunner[c]
  ELSE [cfRunner[c] EXCEPT !.client = cfVersion, !.applied = cfVersion]

CfStart(c) ==
  /\ cfOwner = CfNobody /\ cfRunner[c].at = "off"
  /\ cfOwner' = c
  /\ cfRunner' = [cfRunner EXCEPT ![c] = [CfConnected(c) EXCEPT !.at = "loop"]]
  /\ UNCHANGED <<cfVersion, cfAsked, cfStatus, cfEntry, cfFaults>>

CfInLoop(c) == cfRunner[c].at = "loop"

\* Without a client it is tried again every five seconds.
CfRetryConnect(c) ==
  /\ CfInLoop(c) /\ cfRunner[c].client = 0 /\ cfVersion \notin CfUnusable
  /\ cfRunner' = [cfRunner EXCEPT ![c] = CfConnected(c)]
  /\ UNCHANGED <<cfVersion, cfAsked, cfStatus, cfEntry, cfOwner, cfFaults>>

\* Mutant: only the stream tells of a change.
CfPollNothing(c) == FALSE /\ UNCHANGED cfVars

\* The fingerprints differ: stop and connect in one go of the loop.
CfPoll(c) ==
  /\ CfInLoop(c) /\ cfVersion \notin CfUnusable
  /\ cfRunner[c].applied \notin {0, cfVersion}
  /\ cfRunner' = [cfRunner EXCEPT ![c].at = "stop", ![c].req = CfNobody]
  /\ UNCHANGED <<cfVersion, cfAsked, cfStatus, cfEntry, cfOwner, cfFaults>>

CfNewControls == {q \in CfRequests : cfEntry[q] = "new"}

CfStaleControls == {q \in CfRequests : cfEntry[q] = "pending"}

\* New entries, and now and then those that were left pending.
CfReadControls(c) ==
  /\ CfInLoop(c)
  /\ \E old \in {{}, CfStaleControls} :
       LET batch == CfNewControls \cup old IN
       /\ batch # {}
       /\ cfRunner' = [cfRunner EXCEPT ![c].at = "handle", ![c].batch = batch]
       /\ cfEntry' = [q \in CfRequests |-> IF q \in batch THEN "pending" ELSE cfEntry[q]]
  /\ UNCHANGED <<cfVersion, cfAsked, cfStatus, cfOwner, cfFaults>>

\* A request that was answered already is only acknowledged.
CfHandle(c) ==
  /\ cfRunner[c].at = "handle"
  /\ IF cfRunner[c].batch = {} THEN CfGo(c, "loop")
     ELSE \E q \in cfRunner[c].batch :
            cfRunner' = [cfRunner EXCEPT ![c].req = q, ![c].batch = @ \ {q},
                           ![c].at = IF cfStatus[q] \in CfTerminal THEN "ack" ELSE "stop"]
  /\ UNCHANGED <<cfVersion, cfAsked, cfStatus, cfEntry, cfOwner, cfFaults>>

\* Mutant: the client that is there is not stopped.
CfStopNot(c) ==
  /\ cfRunner[c].at = "stop" /\ CfGo(c, "connect")
  /\ UNCHANGED <<cfVersion, cfAsked, cfStatus, cfEntry, cfOwner, cfFaults>>

\* set_state "reloading", whatever has been set meanwhile, and stop().
CfStop(c) ==
  LET q == cfRunner[c].req IN
  /\ cfRunner[c].at = "stop"
  /\ cfStatus' = IF q = CfNobody THEN cfStatus ELSE [cfStatus EXCEPT ![q] = "reloading"]
  /\ cfRunner' = [cfRunner EXCEPT ![c].at = "connect", ![c].client = 0]
  /\ UNCHANGED <<cfVersion, cfAsked, cfEntry, cfOwner, cfFaults>>

CfReconnect(c) ==
  /\ cfRunner[c].at = "connect"
  /\ cfRunner' = [cfRunner EXCEPT ![c] =
       [CfConnected(c) EXCEPT !.at = IF cfRunner[c].req = CfNobody THEN "loop" ELSE "report"]]
  /\ UNCHANGED <<cfVersion, cfAsked, cfStatus, cfEntry, cfOwner, cfFaults>>

\* complete_if_pending.
CfComplete(c) ==
  LET q == cfRunner[c].req IN
  /\ cfRunner[c].at = "report" /\ CfGo(c, "ack")
  /\ cfStatus' = [cfStatus EXCEPT ![q] =
       IF @ \in CfTerminal THEN @
       ELSE IF cfRunner[c].client # 0 THEN "reload_applied" ELSE "reload_failed"]
  /\ UNCHANGED <<cfVersion, cfAsked, cfEntry, cfOwner, cfFaults>>

CfAckControl(c) ==
  /\ cfRunner[c].at = "ack"
  /\ cfRunner' = [cfRunner EXCEPT ![c].at = "handle", ![c].req = CfNobody]
  /\ cfEntry' = [cfEntry EXCEPT ![cfRunner[c].req] = "gone"]
  /\ UNCHANGED <<cfVersion, cfAsked, cfStatus, cfOwner, cfFaults>>

-----------------------------------------------------------------------------
(* What goes wrong.                                                        *)

CfFault == cfFaults < CfMaxFaults /\ cfFaults' = cfFaults + 1

\* Redis fails in the middle of a batch: the rest of it stays pending.
CfRedisFails(c) ==
  /\ cfRunner[c].at \in {"handle", "stop", "report", "ack"} /\ CfFault
  /\ cfRunner[c].at = "handle" \/ cfRunner[c].req # CfNobody
  /\ cfRunner' = [cfRunner EXCEPT ![c].at = "loop", ![c].batch = {}, ![c].req = CfNobody]
  /\ UNCHANGED <<cfVersion, cfAsked, cfStatus, cfEntry, cfOwner>>

\* Another process takes the lease that this one has not renewed.
CfExpire ==
  /\ cfOwner # CfNobody /\ CfFault /\ cfOwner' = CfNobody
  /\ UNCHANGED <<cfVersion, cfAsked, cfStatus, cfEntry, cfRunner>>

\* The loop ends when the lease cannot be renewed.
CfLapse(c) ==
  /\ CfInLoop(c) /\ cfOwner # c
  /\ cfRunner' = [cfRunner EXCEPT ![c] = CfOff]
  /\ UNCHANGED <<cfVersion, cfAsked, cfStatus, cfEntry, cfOwner, cfFaults>>

CfDies(c) ==
  /\ cfRunner[c].at # "off" /\ CfFault
  /\ cfOwner' = IF cfOwner = c THEN CfNobody ELSE cfOwner
  /\ cfRunner' = [cfRunner EXCEPT ![c] = CfOff]
  /\ UNCHANGED <<cfVersion, cfAsked, cfStatus, cfEntry>>

CfLoopStep(c) ==
  \/ CfRetryConnect(c) \/ CfReadControls(c) \/ CfHandle(c) \/ CfStop(c)
  \/ CfReconnect(c) \/ CfComplete(c) \/ CfAckControl(c) \/ CfLapse(c)

CfRunnerStep(c) == CfStart(c) \/ CfPoll(c) \/ CfLoopStep(c) \/ CfRedisFails(c) \/ CfDies(c)

CfNext ==
  \/ CfSave \/ CfExpire
  \/ \E q \in CfRequests : CfEnqueueReload(q)
  \/ \E c \in CfRunners : CfRunnerStep(c)

\* The main loop goes on, its timers come up again and again, a container is
\* started again.
CfFairness ==
  \A c \in CfRunners :
    /\ WF_cfVars(CfLoopStep(c)) /\ SF_cfVars(CfPoll(c))
    /\ WF_cfVars(CfStart(c))

CfSpec == CfInit /\ [][CfNext]_cfVars /\ CfFairness

-----------------------------------------------------------------------------
(* Who is told that a reload was applied finds it applied: the runner that *)
(* reports it has a client with the configuration of the request, or a     *)
(* later one, however requests, edits, takeovers and failures are mixed    *)
(* (mqtt_runner.py: the control loop; mqtt_service.py: reconnect_async).   *)
AppliedIsNew ==
  [][\A q \in CfRequests :
       cfStatus[q] # "reload_applied" /\ cfStatus'[q] = "reload_applied" =>
         \E c \in CfRunners : cfRunner[c].req = q /\ cfRunner[c].client >= cfAsked[q]]_cfVars

(* The configuration in the database is applied at last by the runner that *)
(* has the lease, also when no request was sent or it was lost, and after  *)
(* versions that could not be loaded (mqtt_runner.py: the fingerprint      *)
(* poll and the retry of the connection).                                  *)
ConfigApplied ==
  []<>(\/ cfVersion \in CfUnusable
       \/ \E c \in CfRunners : cfOwner = c /\ cfRunner[c].client = cfVersion)
=============================================================================
