---------------------------- MODULE SimulationRuns ----------------------------
(***************************************************************************)
(* The runs of the simulation's web UI (simulation/webui): a run is a row  *)
(* of its database and a process, run.py, in a session of its own.  The    *)
(* web UI starts and stops it, watches it in a thread, and forgets the row *)
(* when the process has ended.  When the web UI starts again it takes over *)
(* the processes that it finds in its rows.                                *)
(*                                                                         *)
(* Groups, manifests, log lines and the events of the page are left out; a *)
(* process is never mistaken for another one with the same pid.            *)
(***************************************************************************)
EXTENDS Naturals

CONSTANTS
  SmRuns,
  SmMaxStarts  \* bound on the starts of the web UI

ASSUME SimulationAssumption == SmMaxStarts \in Nat \ {0}

VARIABLES
  smWeb,    \* the web UI, and how often it has been started
  smRow,    \* the row of each run: none, with pid 0, or with its pid
  smProc,   \* its process
  smStart,  \* the request that starts it
  smTail,   \* the thread that watches it, as a child or as a pid, or finishes it
  smKill,   \* the runs with a thread that will send SIGKILL
  smLost    \* the runs whose start the end of the web UI has cut off

smVars == <<smWeb, smRow, smProc, smStart, smTail, smKill, smLost>>

SmTypeOK ==
  /\ smWeb \in [state : {"up", "closing", "stopping", "down"}, starts : 1 .. SmMaxStarts]
  /\ smRow \in [SmRuns -> {"none", "pid0", "pid"}]
  /\ smProc \in [SmRuns -> {"none", "alive", "term", "zombie", "gone"}]
  /\ smStart \in [SmRuns -> {"idle", "row", "spawned", "done"}]
  /\ smTail \in [SmRuns -> {"off", "child", "pid", "finish"}]
  /\ smKill \subseteq SmRuns /\ smLost \subseteq SmRuns

SmInit ==
  /\ smWeb = [state |-> "up", starts |-> 1]
  /\ smRow = [r \in SmRuns |-> "none"]
  /\ smProc = [r \in SmRuns |-> "none"]
  /\ smStart = [r \in SmRuns |-> "idle"]
  /\ smTail = [r \in SmRuns |-> "off"]
  /\ smKill = {} /\ smLost = {}

SmRuntime == smWeb.state # "down"
SmLives(r) == smProc[r] \in {"alive", "term"}

-----------------------------------------------------------------------------
(* start_run: the row comes first, to have the number of the run.          *)

SmCreateRun(r) ==
  /\ smWeb.state = "up" /\ smStart[r] = "idle"
  /\ smRow' = [smRow EXCEPT ![r] = "pid0"]
  /\ smStart' = [smStart EXCEPT ![r] = "row"]
  /\ UNCHANGED <<smWeb, smProc, smTail, smKill, smLost>>

\* Writing the files or starting the process may fail; the row stays.
SmSpawn(r) ==
  /\ SmRuntime /\ smStart[r] = "row"
  /\ \/ /\ smProc' = [smProc EXCEPT ![r] = "alive"]
        /\ smStart' = [smStart EXCEPT ![r] = "spawned"]
     \/ smStart' = [smStart EXCEPT ![r] = "done"] /\ UNCHANGED smProc
  /\ UNCHANGED <<smWeb, smRow, smTail, smKill, smLost>>

SmRecordPid(r) ==
  /\ SmRuntime /\ smStart[r] = "spawned"
  /\ smRow' = [smRow EXCEPT ![r] = "pid"]
  /\ smStart' = [smStart EXCEPT ![r] = "done"]
  /\ smTail' = [smTail EXCEPT ![r] = "child"]
  /\ UNCHANGED <<smWeb, smProc, smKill, smLost>>

-----------------------------------------------------------------------------
(* The process.                                                            *)

\* Its parent has to ask for the exit code; a process that was taken over has
\* another parent.
SmEnded(r) == IF SmRuntime /\ smTail[r] # "pid" THEN "zombie" ELSE "gone"

SmExits(r) ==
  /\ SmLives(r)
  /\ smProc' = [smProc EXCEPT ![r] = SmEnded(r)]
  /\ UNCHANGED <<smWeb, smRow, smStart, smTail, smKill, smLost>>

\* SIGTERM, as a function of the process.
SmSignalled(p) == IF p = "alive" THEN "term" ELSE p

\* Mutant: the run is over as soon as it has been told to stop.
SmStopForgets(r) ==
  /\ smWeb.state = "up" /\ smRow[r] = "pid"
  /\ smProc' = [smProc EXCEPT ![r] = SmSignalled(@)]
  /\ smRow' = [smRow EXCEPT ![r] = "none"]
  /\ UNCHANGED <<smWeb, smStart, smTail, smKill, smLost>>

\* stop_run: a pid of 0 is the process group of the web UI itself.  Without
\* the process the row goes, otherwise SIGTERM, and SIGKILL after five seconds.
SmStopRun(r) ==
  /\ smWeb.state = "up" /\ smRow[r] # "none"
  /\ IF smRow[r] = "pid0"
     THEN smWeb' = [smWeb EXCEPT !.state = "closing"] /\ UNCHANGED <<smRow, smProc, smKill>>
     ELSE /\ IF smProc[r] = "gone"
             THEN smRow' = [smRow EXCEPT ![r] = "none"] /\ UNCHANGED <<smProc, smKill>>
             ELSE /\ smProc' = [smProc EXCEPT ![r] = SmSignalled(@)]
                  /\ smKill' = smKill \cup {r} /\ UNCHANGED smRow
          /\ UNCHANGED smWeb
  /\ UNCHANGED <<smStart, smTail, smLost>>

SmForceKill(r) ==
  /\ SmRuntime /\ r \in smKill
  /\ smKill' = smKill \ {r}
  /\ smProc' = IF SmLives(r) THEN [smProc EXCEPT ![r] = SmEnded(r)] ELSE smProc
  /\ UNCHANGED <<smWeb, smRow, smStart, smTail, smLost>>

-----------------------------------------------------------------------------
(* The watching thread.                                                    *)

SmTailLog(r) ==
  /\ SmRuntime
  /\ \/ smTail[r] = "child" /\ smProc[r] = "zombie"
     \/ smTail[r] = "pid" /\ smProc[r] = "gone"
  /\ smProc' = [smProc EXCEPT ![r] = "gone"]
  /\ smTail' = [smTail EXCEPT ![r] = "finish"]
  /\ UNCHANGED <<smWeb, smRow, smStart, smKill, smLost>>

SmFinish(r) ==
  /\ SmRuntime /\ smTail[r] = "finish"
  /\ smRow' = [smRow EXCEPT ![r] = "none"]
  /\ smTail' = [smTail EXCEPT ![r] = "off"]
  /\ UNCHANGED <<smWeb, smProc, smStart, smKill, smLost>>

-----------------------------------------------------------------------------
(* The end of the web UI, and its next start.                              *)

SmShutdown ==
  /\ smWeb.state = "up" /\ smWeb' = [smWeb EXCEPT !.state = "closing"]
  /\ UNCHANGED <<smRow, smProc, smStart, smTail, smKill, smLost>>

\* lifespan: requests under way have ended; every run is stopped.
SmStopAll ==
  /\ smWeb.state = "closing"
  /\ \A r \in SmRuns : smStart[r] \in {"idle", "done"}
  /\ smWeb' = [smWeb EXCEPT !.state = "stopping"]
  /\ LET has == {r \in SmRuns : smRow[r] = "pid"} IN
     /\ smProc' = [r \in SmRuns |-> IF r \in has THEN SmSignalled(smProc[r]) ELSE smProc[r]]
     /\ smKill' = smKill \cup {r \in has : smProc[r] # "gone"}
     /\ smRow' = [r \in SmRuns |-> IF r \in has /\ smProc[r] = "gone" THEN "none" ELSE smRow[r]]
  /\ UNCHANGED <<smStart, smTail, smLost>>

\* After the grace period, with the processes ended or not; or at any time.
SmGone ==
  /\ smWeb.state \in {"up", "stopping"}
  /\ smWeb' = [smWeb EXCEPT !.state = "down"]
  /\ smLost' = smLost \cup {r \in SmRuns : smStart[r] = "spawned"}
  /\ smProc' = [r \in SmRuns |-> IF smProc[r] = "zombie" THEN "gone" ELSE smProc[r]]
  /\ smStart' = [r \in SmRuns |-> IF smStart[r] = "idle" THEN "idle" ELSE "done"]
  /\ smTail' = [r \in SmRuns |-> "off"]
  /\ smKill' = {}
  /\ UNCHANGED smRow

SmRecover ==
  /\ smWeb.state = "down" /\ smWeb.starts < SmMaxStarts
  /\ smWeb' = [state |-> "up", starts |-> smWeb.starts + 1]
  /\ LET found == {r \in SmRuns : smRow[r] = "pid" /\ SmLives(r)} IN
     /\ smRow' = [r \in SmRuns |-> IF r \in found THEN "pid" ELSE "none"]
     /\ smTail' = [r \in SmRuns |-> IF r \in found THEN "pid" ELSE "off"]
  /\ UNCHANGED <<smProc, smStart, smKill, smLost>>

SmRunStep(r) ==
  \/ SmCreateRun(r) \/ SmSpawn(r) \/ SmRecordPid(r) \/ SmExits(r) \/ SmStopRun(r)
  \/ SmForceKill(r) \/ SmTailLog(r) \/ SmFinish(r)

SmNext ==
  \/ \E r \in SmRuns : SmRunStep(r)
  \/ SmShutdown \/ SmStopAll \/ SmGone \/ SmRecover

SmSpec == SmInit /\ [][SmNext]_smVars

-----------------------------------------------------------------------------
(* A process that is there is a run that is shown, and can be stopped: not *)
(* while it is ending, and not after the web UI ended before it; only a    *)
(* start that the end of the web UI cut off leaves one behind              *)
(* (process_manager.py: start_run, stop_run, _finish, recover).            *)
RunIsShown == \A r \in SmRuns \ smLost : SmLives(r) => smRow[r] # "none"
=============================================================================
