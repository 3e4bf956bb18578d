----------------------------- MODULE MqttRunner -----------------------------
(***************************************************************************)
(* The lease that makes one MQTT runner the owner of the broker connection *)
(* (sensors/management/commands/mqtt_runner.py and the lease operations of *)
(* services/mqtt_command_bus.py).                                          *)
(*                                                                         *)
(* A runner waits for the lease, then connects and starts the command      *)
(* worker.  Its main loop renews the lease when the last attempt is        *)
(* RenewEvery ago, and it gives everything up when the renewal fails.  In  *)
(* between it reloads the client, once for each control message and once   *)
(* for a changed fingerprint, whatever has become of the lease: for each   *)
(* reload it waits for _lifecycle_lock, which the worker holds while it    *)
(* publishes, and then for the network thread of the old client.           *)
(*                                                                         *)
(* Time passes in ticks.  A step of a runner that has a limit is over      *)
(* before the tick that would exceed it.  The time-outs of the program are *)
(* limits; LoopLimit, RedisLimit and CloseLimit are assumptions on Redis,  *)
(* the database and paho.                                                  *)
(***************************************************************************)
EXTENDS Integers

CONSTANTS
  Runners,      \* the runner processes
  NoRunner,     \* no owner
  TTL,          \* MQTT_RUNNER_LEASE_TTL
  RenewEvery,   \* the time between two renewals
  LoopLimit,    \* the longest pass of the main loop, its reloads apart
  MaxReloads,   \* the reloads of one pass: 10 new and 20 claimed control
                \* messages and a changed fingerprint
  CloseLimit,   \* the longest time to stop a client, and in a reload to start
                \* the next; loop_stop joins the network thread without a bound
  RedisLimit,   \* the longest time a renewal takes
  JoinLimit,    \* the time-out of command_worker.join
  StopLimit,    \* that time-out and the one of stop_scheduler
  PublishLimit, \* MQTT_COMMAND_BROKER_ACK_TIMEOUT
  MaxBatch      \* bound on the entries claimed at once

ASSUME RunnerAssumption ==
  /\ NoRunner \notin Runners
  /\ TTL \in Nat \ {0} /\ RenewEvery \in Nat \ {0}
  /\ LoopLimit \in Nat \ {0} /\ MaxReloads \in Nat /\ CloseLimit \in Nat
  /\ RedisLimit \in Nat
  /\ JoinLimit \in Nat /\ StopLimit \in Nat /\ JoinLimit <= StopLimit
  /\ PublishLimit \in Nat \ {0} /\ MaxBatch \in Nat

VARIABLES
  lease,   \* the value of the lease key, NoRunner if there is no key
  left,    \* its time to live
  pc,      \* the step of each main thread
  clock,   \* the time since each runner's last_heartbeat
  spent,   \* how long the main thread has been in its step, a pass of the
           \* loop being one, the time in reloads apart
  busy,    \* how long it has been stopping or swapping its client
  reloads, \* the reloads begun in this pass
  pub,     \* the time that is left to a publish in progress, or 0
  batch,   \* the claimed entries that the worker has not begun
  refused  \* a stopping runner has given up and deleted an entry

leaseVars  == <<lease, left>>
clockVars  == <<clock, spent, busy, reloads>>
workerVars == <<pub, batch, refused>>
vars == <<leaseVars, pc, clockVars, workerVars>>

Steps == {"down", "waiting", "loop", "lock", "reload", "renew",
          "stop", "halt", "close", "release", "exit"}

\* The main loop, a reload inside a pass included.
InLoop == {"loop", "lock", "reload", "renew"}

\* The runner has a client that may be connected to the broker.  Afterwards,
\* in release and exit, its worker may still live: it can publish nothing, but
\* it still answers and deletes entries (Refuse).
Acting(r) == pc[r] \in InLoop \cup {"stop", "halt", "close"}

TypeOK ==
  /\ lease \in Runners \cup {NoRunner}
  /\ left \in 0 .. TTL
  /\ pc \in [Runners -> Steps]
  /\ clock \in [Runners -> Nat]
  /\ spent \in [Runners -> Nat]
  /\ busy \in [Runners -> 0 .. CloseLimit]
  /\ reloads \in [Runners -> 0 .. MaxReloads]
  /\ pub \in [Runners -> 0 .. PublishLimit]
  /\ batch \in [Runners -> 0 .. MaxBatch]
  /\ refused \in BOOLEAN

Init ==
  /\ lease = NoRunner /\ left = 0
  /\ pc = [r \in Runners |-> "down"]
  /\ clock = [r \in Runners |-> 0]
  /\ spent = [r \in Runners |-> 0]
  /\ busy = [r \in Runners |-> 0]
  /\ reloads = [r \in Runners |-> 0]
  /\ pub = [r \in Runners |-> 0]
  /\ batch = [r \in Runners |-> 0]
  /\ refused = FALSE

Goto(r, step) ==
  /\ pc' = [pc EXCEPT ![r] = step]
  /\ spent' = [spent EXCEPT ![r] = 0]
  /\ busy' = [busy EXCEPT ![r] = 0]

-----------------------------------------------------------------------------
(* The lease key.                                                          *)

SetLease(r) == lease' = r /\ left' = TTL

DeleteLease == lease' = NoRunner /\ left' = 0

\* Mutant: the key has no expiry.
LeaseStays == UNCHANGED leaseVars

LeaseAges ==
  /\ left' = IF left > 0 THEN left - 1 ELSE 0
  /\ lease' = IF left > 1 THEN lease ELSE NoRunner

-----------------------------------------------------------------------------
(* A runner starts.                                                        *)

Start(r) ==
  /\ pc[r] = "down"
  /\ Goto(r, "waiting")
  /\ UNCHANGED <<leaseVars, clock, reloads, workerVars>>

\* The first pass of the main loop includes the set-up; last_heartbeat is 0,
\* so that a renewal is due at once.
Acquire(r) ==
  /\ pc[r] = "waiting" /\ left = 0
  /\ SetLease(r)
  /\ Goto(r, "loop")
  /\ clock' = [clock EXCEPT ![r] = RenewEvery]
  /\ reloads' = [reloads EXCEPT ![r] = 0]
  /\ UNCHANGED workerVars

\* Redis sets the key but the answer is lost: the runner tries again, and now
\* waits for its own lease to expire.
AcquireUnanswered(r) ==
  /\ pc[r] = "waiting" /\ left = 0
  /\ SetLease(r)
  /\ UNCHANGED <<pc, clockVars, workerVars>>

-----------------------------------------------------------------------------
(* The main loop.                                                          *)

\* A pass ends; the next one begins with the renewal when it is due, or the
\* loop is left because of a signal or an exception.
NextPass(r) ==
  /\ pc[r] = "loop"
  /\ \/ /\ clock[r] < RenewEvery
        /\ Goto(r, "loop") /\ UNCHANGED clock
     \/ /\ clock[r] >= RenewEvery
        /\ Goto(r, "renew") /\ clock' = [clock EXCEPT ![r] = 0]
     \/ Goto(r, "stop") /\ UNCHANGED clock
  /\ reloads' = [reloads EXCEPT ![r] = 0]
  /\ UNCHANGED <<leaseVars, workerVars>>

\* A reload begins, however old the lease is; it needs the lock.
BeginReload(r) ==
  /\ pc[r] = "loop" /\ reloads[r] < MaxReloads
  /\ pc' = [pc EXCEPT ![r] = "lock"]
  /\ reloads' = [reloads EXCEPT ![r] = @ + 1]
  /\ UNCHANGED <<leaseVars, clock, spent, busy, workerVars>>

\* The publish in progress is over and the main thread has the lock.
TakeLock(r) ==
  /\ pc[r] = "lock" /\ pub[r] = 0
  /\ pc' = [pc EXCEPT ![r] = "reload"]
  /\ UNCHANGED <<leaseVars, clockVars, workerVars>>

\* The old client is gone and the next one started.
EndReload(r) ==
  /\ pc[r] = "reload"
  /\ pc' = [pc EXCEPT ![r] = "loop"]
  /\ busy' = [busy EXCEPT ![r] = 0]
  /\ UNCHANGED <<leaseVars, clock, spent, reloads, workerVars>>

Renew(r) ==
  /\ pc[r] = "renew"
  /\ IF lease = r THEN SetLease(r) /\ Goto(r, "loop")
                  ELSE UNCHANGED leaseVars /\ Goto(r, "stop")
  /\ UNCHANGED <<clock, reloads, workerVars>>

\* Redis does not answer: the renewal may have been done or not.
RenewFails(r) ==
  /\ pc[r] = "renew"
  /\ \/ UNCHANGED leaseVars
     \/ lease = r /\ SetLease(r)
  /\ Goto(r, "stop")
  /\ UNCHANGED <<clock, reloads, workerVars>>

-----------------------------------------------------------------------------
(* The runner stops.                                                       *)

\* join returns when the worker has ended, or with its time-out.
JoinWorker(r) ==
  /\ pc[r] = "stop"
  /\ (batch[r] = 0 /\ pub[r] = 0) \/ spent[r] >= JoinLimit
  /\ Goto(r, "halt")
  /\ UNCHANGED <<leaseVars, clock, reloads, workerVars>>

\* stop() has the lock when no publish is in progress any more.
StopClient(r) ==
  /\ pc[r] = "halt" /\ pub[r] = 0
  /\ Goto(r, "close")
  /\ UNCHANGED <<leaseVars, clock, reloads, workerVars>>

\* disconnect and loop_stop are done: the client is not connected any more.
ClientClosed(r) ==
  /\ pc[r] = "close"
  /\ Goto(r, "release")
  /\ UNCHANGED <<leaseVars, clock, reloads, workerVars>>

\* Mutant: DEL without the comparison.
ReleaseAnyway(r) ==
  /\ pc[r] = "release" /\ DeleteLease /\ Goto(r, "exit")
  /\ UNCHANGED <<clock, reloads, workerVars>>

\* The lease may be somebody else's by now, or Redis does not answer.
Release(r) ==
  /\ pc[r] = "release"
  /\ \/ lease = r /\ DeleteLease
     \/ UNCHANGED leaseVars
  /\ Goto(r, "exit")
  /\ UNCHANGED <<clock, reloads, workerVars>>

\* The process ends, its worker and all it remembers with it.
End(r) ==
  /\ Goto(r, "down")
  /\ clock' = [clock EXCEPT ![r] = 0]
  /\ reloads' = [reloads EXCEPT ![r] = 0]
  /\ pub' = [pub EXCEPT ![r] = 0]
  /\ batch' = [batch EXCEPT ![r] = 0]
  /\ UNCHANGED <<leaseVars, refused>>

Exit(r) == pc[r] = "exit" /\ End(r)

Crash(r) == pc[r] # "down" /\ End(r)

-----------------------------------------------------------------------------
(* The command worker.                                                     *)

ClaimBatch(r) ==
  /\ pc[r] \in InLoop /\ batch[r] = 0
  /\ \E n \in 1 .. MaxBatch : batch' = [batch EXCEPT ![r] = n]
  /\ UNCHANGED <<leaseVars, pc, clockVars, pub, refused>>

\* The worker publishes its next entry; a main thread that already waits for
\* the lock gets it first, as the worker has Redis to ask before it comes back.
\* The rest of the batch does not ask for stop_event.
BeginPublish(r) ==
  /\ pc[r] \in {"loop", "renew", "stop"} /\ pub[r] = 0 /\ batch[r] > 0
  /\ pub' = [pub EXCEPT ![r] = PublishLimit]
  /\ batch' = [batch EXCEPT ![r] = @ - 1]
  /\ UNCHANGED <<leaseVars, pc, clockVars, refused>>

\* The PUBACK comes before the time-out.
EndPublish(r) ==
  /\ pub[r] > 0
  /\ pub' = [pub EXCEPT ![r] = 0]
  /\ UNCHANGED <<leaseVars, pc, clockVars, batch, refused>>

\* Redis does not answer while an entry is processed: the worker leaves the
\* batch, whose entries stay pending.
LeaveBatch(r) ==
  /\ batch[r] > 0
  /\ batch' = [batch EXCEPT ![r] = 0]
  /\ UNCHANGED <<leaseVars, pc, clockVars, pub, refused>>

\* Without a client the rest of the batch is answered broker_unavailable and
\* deleted from the stream.
Refuse(r) ==
  /\ pc[r] \in {"release", "exit"} /\ batch[r] > 0
  /\ batch' = [batch EXCEPT ![r] = @ - 1]
  /\ refused' = TRUE
  /\ UNCHANGED <<leaseVars, pc, clockVars, pub>>

-----------------------------------------------------------------------------
Limit(step) == CASE step = "loop" -> LoopLimit
                 [] step = "renew" -> RedisLimit
                 [] step = "stop" -> StopLimit

\* The steps that are measured in spent, and those in busy.
Timed == {"loop", "renew", "stop"}
Closing == {"reload", "close"}

\* Runner r can let a tick pass: its step may go on, or it waits for the lock.
\* A stop waits for the scheduler and then for the worker, if it still lives,
\* which does not wait for devices any more: it publishes one entry of its
\* batch after the other.
Patient(r) ==
  /\ pc[r] \in Timed => spent[r] < Limit(pc[r])
  /\ pc[r] \in Closing => busy[r] < CloseLimit
  /\ pc[r] \in {"lock", "halt"} => pub[r] > 0
  /\ pc[r] = "stop" => \/ pub[r] > 0
                       \/ batch[r] = 0 /\ spent[r] < StopLimit - JoinLimit

Tick ==
  /\ \A r \in Runners : Patient(r)
  /\ LeaseAges
  /\ clock' = [r \in Runners |->
                 IF pc[r] \in InLoop THEN clock[r] + 1 ELSE clock[r]]
  /\ spent' = [r \in Runners |->
                 IF pc[r] \in Timed THEN spent[r] + 1 ELSE spent[r]]
  /\ busy' = [r \in Runners |->
                IF pc[r] \in Closing THEN busy[r] + 1 ELSE busy[r]]
  /\ pub' = [r \in Runners |-> IF pub[r] > 0 THEN pub[r] - 1 ELSE 0]
  /\ UNCHANGED <<pc, reloads, batch, refused>>

MainStep(r) ==
  \/ NextPass(r) \/ BeginReload(r) \/ TakeLock(r) \/ EndReload(r)
  \/ Renew(r) \/ RenewFails(r)
  \/ JoinWorker(r) \/ StopClient(r) \/ ClientClosed(r) \/ Release(r) \/ Exit(r)

WorkerStep(r) ==
  ClaimBatch(r) \/ BeginPublish(r) \/ EndPublish(r) \/ LeaveBatch(r) \/ Refuse(r)

Next ==
  \/ Tick
  \/ \E r \in Runners :
       \/ Start(r) \/ Acquire(r) \/ AcquireUnanswered(r) \/ Crash(r)
       \/ MainStep(r) \/ WorkerStep(r)

Spec == Init /\ [][Next]_vars

\* Time goes on, a main thread goes on, and Redis does not lose the answer to
\* every attempt of a waiting runner.
Fairness ==
  /\ SF_vars(Tick)
  /\ \A r \in Runners : WF_vars(MainStep(r)) /\ SF_vars(Acquire(r))

FairSpec == Spec /\ Fairness
-----------------------------------------------------------------------------
(* Properties                                                              *)

\* The times in which the lease is safe: from one renewal to the end of the
\* client of a runner that fails to renew it.  The program does not see to it:
\* with a PUBACK time-out of 2 s, ten control messages in one pass take longer
\* than the default lease of 20 s.
InTime ==
  TTL > RenewEvery - 1 + LoopLimit + MaxReloads * (PublishLimit + CloseLimit)
          + RedisLimit + StopLimit + PublishLimit + CloseLimit

\* acquire_runner_lease: "at one time there is only one owner of MQTT and the
\* scheduler", here of the connection.  Two clients with one client id would
\* throw each other out of the broker, and two workers may publish one command
\* twice.
SingleRunner == \A r, s \in Runners : Acting(r) /\ Acting(s) => r = s

\* Release notes 0.11: a stopping runner leaves the commands it has not finished
\* pending, they are not deleted by mistake.
StopKeepsPending == ~refused

\* When the owner has died another runner takes over, unless none is left: a
\* lease that nobody renews does not block the others for ever.
Takeover ==
  (\E r \in Runners : pc[r] = "waiting") ~>
    ((\E r \in Runners : Acting(r)) \/ (\A r \in Runners : pc[r] = "down"))
=============================================================================
