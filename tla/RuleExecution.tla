---------------------------- MODULE RuleExecution ----------------------------
(***************************************************************************)
(* The execution of automation rules (automation/scheduler.py, executor.py,*)
(* engine.py, views.py).                                                   *)
(*                                                                         *)
(* The scheduler thread of the runner lists the launched rules that are    *)
(* due and executes them one after the other; a web request executes one   *)
(* rule.  Each execution takes the Redis lock of its rule, spawns a child  *)
(* process that runs the script, waits for its result until a deadline,    *)
(* ends the child and its process group, and gives the lock back.  An      *)
(* executor is the scheduler or a web request; it runs one execution at a  *)
(* time.                                                                   *)
(*                                                                         *)
(* A lock is the executor that owns it: a later execution of the same      *)
(* executor has another owner id, so what a dead or refused execution      *)
(* leaves behind belongs to Lost.  The database answers at once; the       *)
(* sidecar files, logs and messages are left out.                          *)
(***************************************************************************)
EXTENDS Integers

CONSTANTS
  Rules,
  Requests,    \* the web requests that execute a rule
  Timeout,     \* AUTOMATION_SCRIPT_TIMEOUT_SECONDS
  TermGrace,   \* _TERMINATE_GRACE_SECONDS
  KillGrace,   \* _KILL_GRACE_SECONDS
  Margin,      \* _LOCK_SAFETY_MARGIN_SECONDS
  MaxDelay,    \* bound on the time that an execution loses outside its waits
  MaxCrashes,  \* bound on the processes that end in the middle of an execution
  None, Lost

ASSUME TimeAssumption ==
  /\ Timeout \in Nat \ {0} /\ TermGrace \in Nat /\ KillGrace \in Nat
  /\ Margin \in Nat /\ MaxDelay \in Nat /\ MaxDelay < Margin

Scheduler == "scheduler"

ASSUME ExecutorAssumption ==
  /\ Scheduler \notin Requests
  /\ None \notin Requests \cup {Scheduler, Lost} /\ Lost \notin Requests \cup {Scheduler}
  /\ MaxCrashes \in Nat

Executors == Requests \cup {Scheduler}

VARIABLES
  enabled,  \* AUTOMATION_SCRIPT_EXECUTION_ENABLED of this deployment
  row,      \* the rules in the database: is_launched and process_status,
            \* which are always written together
  due,      \* the rules whose interval has passed since last_run_time
  batch,    \* the rows that the scheduler's pass has read and not yet handled
  lock,     \* the lock of each rule: owner and time to live
  exec,     \* the execution of each executor, as its process sees it
  child,    \* its child process
  strays,   \* the rules of which a process is left that nobody waits for
  crashes

dbVars == <<row, due>>
vars == <<enabled, dbVars, batch, lock, exec, child, strays, crashes>>

Rows     == {"running", "stopped", "deleted"}
Outcomes == {"none", "true", "failed"}
Leased   == {"start", "wait", "join", "reap", "term", "kill", "release"}
Phases   == Leased \cup {"idle", "acquire", "done"}

\* Mutant: the lock lives as long as the deadline of the child.
TTLBare == Timeout

TTL == Timeout + TermGrace + KillGrace + Margin

NoExec  == [phase |-> "idle", rule |-> None, left |-> 0, slack |-> 0,
            group |-> FALSE, outcome |-> "none"]
NoChild == [state |-> "none", group |-> FALSE, ready |-> FALSE,
            payload |-> "none", kids |-> FALSE]

Alive(c) == child[c].state \in {"starting", "ready", "script", "sent"}

TypeOK ==
  /\ enabled \in BOOLEAN
  /\ row \in [Rules -> Rows]
  /\ due \subseteq Rules /\ batch \subseteq Rules
  /\ lock \in [Rules -> [owner : Executors \cup {None, Lost}, left : 0 .. TTL]]
  /\ exec \in [Executors -> [phase : Phases, rule : Rules \cup {None}, left : Nat,
                             slack : 0 .. MaxDelay, group : BOOLEAN, outcome : Outcomes]]
  /\ child \in [Executors -> [state : {"none", "starting", "ready", "script", "sent", "exited"},
                              group : BOOLEAN, ready : BOOLEAN,
                              payload : Outcomes, kids : BOOLEAN]]
  /\ strays \subseteq Rules
  /\ crashes \in 0 .. MaxCrashes

Init ==
  /\ enabled \in BOOLEAN
  /\ row \in [Rules -> {"running", "stopped"}]
  /\ due = Rules
  /\ batch = {}
  /\ lock = [r \in Rules |-> [owner |-> None, left |-> 0]]
  /\ exec = [c \in Executors |-> NoExec]
  /\ child = [c \in Executors |-> NoChild]
  /\ strays = {} /\ crashes = 0

-----------------------------------------------------------------------------
(* The rules as the operators see them.                                    *)

\* POST launch and POST stop.
Launch(r) ==
  /\ enabled /\ row[r] # "deleted"
  /\ row' = [row EXCEPT ![r] = "running"]
  /\ due' = due \cup {r}
  /\ UNCHANGED <<enabled, batch, lock, exec, child, strays, crashes>>

Stop(r) ==
  /\ row[r] # "deleted"
  /\ row' = [row EXCEPT ![r] = "stopped"]
  /\ UNCHANGED <<enabled, due, batch, lock, exec, child, strays, crashes>>

Destroy(r) ==
  /\ row' = [row EXCEPT ![r] = "deleted"]
  /\ UNCHANGED <<enabled, due, batch, lock, exec, child, strays, crashes>>

\* poll_interval has passed since last_run_time.
Elapse(r) ==
  /\ r \notin due
  /\ due' = due \cup {r}
  /\ UNCHANGED <<enabled, row, batch, lock, exec, child, strays, crashes>>

-----------------------------------------------------------------------------
(* The scheduler's pass.                                                   *)

Begin(c, r) == exec' = [exec EXCEPT ![c] = [NoExec EXCEPT !.phase = "acquire", !.rule = r]]

Polled(r) == row[r] = "running"

ListRules ==
  /\ batch = {} /\ exec[Scheduler].phase = "idle"
  /\ batch' = {r \in Rules : Polled(r) /\ (enabled => r \in due)}
  /\ batch' # {}
  /\ UNCHANGED <<enabled, dbVars, lock, exec, child, strays, crashes>>

\* save(update_fields=...) of a row that was deleted meanwhile raises, and the
\* rest of the pass is given up.
StopDisabled(r) ==
  /\ ~enabled /\ r \in batch
  /\ row' = IF row[r] = "deleted" THEN row ELSE [row EXCEPT ![r] = "stopped"]
  /\ batch' = IF row[r] = "deleted" THEN {} ELSE batch \ {r}
  /\ UNCHANGED <<enabled, due, lock, exec, child, strays, crashes>>

RunRule(r) ==
  /\ enabled /\ r \in batch /\ exec[Scheduler].phase = "idle"
  /\ IF row[r] = "deleted"
     THEN batch' = {} /\ UNCHANGED <<due, exec>>
     ELSE /\ batch' = batch \ {r}
          /\ due' = due \ {r}
          /\ Begin(Scheduler, r)
  /\ UNCHANGED <<enabled, row, lock, child, strays, crashes>>

\* A rule whose execution did not return TRUE is stopped, whatever the reason.
RuleDone ==
  LET r == exec[Scheduler].rule IN
  /\ exec[Scheduler].phase = "done"
  /\ exec' = [exec EXCEPT ![Scheduler] = NoExec]
  /\ IF exec[Scheduler].outcome = "true"
     THEN UNCHANGED <<row, batch>>
     ELSE IF row[r] = "deleted"
     THEN batch' = {} /\ UNCHANGED row
     ELSE row' = [row EXCEPT ![r] = "stopped"] /\ UNCHANGED batch
  /\ UNCHANGED <<enabled, due, lock, child, strays, crashes>>

\* POST execute, and its answer.
Execute(q, r) ==
  /\ exec[q].phase = "idle" /\ row[r] # "deleted" /\ enabled
  /\ Begin(q, r)
  /\ UNCHANGED <<enabled, dbVars, batch, lock, child, strays, crashes>>

Answer(q) ==
  /\ exec[q].phase = "done"
  /\ exec' = [exec EXCEPT ![q] = NoExec]
  /\ UNCHANGED <<enabled, dbVars, batch, lock, child, strays, crashes>>

-----------------------------------------------------------------------------
(* One execution in its process.                                           *)

Active(c) == exec[c].phase \in Leased

Enter(c, p) == exec' = [exec EXCEPT ![c].phase = p]

\* SET NX EX: taken, refused, or Redis fails with the request applied or not.
Acquire(c) ==
  LET r == exec[c].rule IN
  /\ exec[c].phase = "acquire"
  /\ IF lock[r].owner = None
     THEN /\ lock' = [lock EXCEPT ![r] = [owner |-> c, left |-> TTL]]
          /\ exec' = [exec EXCEPT ![c].phase = "start", ![c].slack = MaxDelay]
     ELSE /\ exec' = [exec EXCEPT ![c].phase = "done", ![c].outcome = "failed"]
          /\ UNCHANGED lock
  /\ UNCHANGED <<enabled, dbVars, batch, child, strays, crashes>>

\* Mutant: SET NX without EX.
AcquireFailsForever(c) ==
  LET r == exec[c].rule IN
  /\ exec[c].phase = "acquire" /\ lock[r].owner = None
  /\ exec' = [exec EXCEPT ![c].phase = "done", ![c].outcome = "failed"]
  /\ lock' = [lock EXCEPT ![r] = [owner |-> Lost, left |-> 0]]
  /\ UNCHANGED <<enabled, dbVars, batch, child, strays, crashes>>

AcquireFails(c) ==
  LET r == exec[c].rule IN
  /\ exec[c].phase = "acquire"
  /\ exec' = [exec EXCEPT ![c].phase = "done", ![c].outcome = "failed"]
  /\ \/ UNCHANGED lock
     \/ /\ lock[r].owner = None
        /\ lock' = [lock EXCEPT ![r] = [owner |-> Lost, left |-> TTL]]
  /\ UNCHANGED <<enabled, dbVars, batch, child, strays, crashes>>

\* The deadline counts from before process.start().
Spawn(c) ==
  /\ exec[c].phase = "start"
  /\ exec' = [exec EXCEPT ![c].phase = "wait", ![c].left = Timeout]
  /\ child' = [child EXCEPT ![c] = [NoChild EXCEPT !.state = "starting"]]
  /\ UNCHANGED <<enabled, dbVars, batch, lock, strays, crashes>>

\* No message is read once the deadline has passed.
ReadReady(c) ==
  /\ exec[c].phase = "wait" /\ exec[c].left > 0 /\ child[c].ready
  /\ exec' = [exec EXCEPT ![c].group = child[c].group]
  /\ child' = [child EXCEPT ![c].ready = FALSE]
  /\ UNCHANGED <<enabled, dbVars, batch, lock, strays, crashes>>

ReadResult(c) ==
  /\ exec[c].phase = "wait" /\ exec[c].left > 0
  /\ ~child[c].ready /\ child[c].payload # "none"
  /\ Enter(c, "join")
  /\ UNCHANGED <<enabled, dbVars, batch, lock, child, strays, crashes>>

\* The child ended without a result.
ReadEnd(c) ==
  /\ exec[c].phase = "wait" /\ exec[c].left > 0
  /\ ~child[c].ready /\ child[c].payload = "none" /\ child[c].state = "exited"
  /\ exec' = [exec EXCEPT ![c].phase = "reap", ![c].outcome = "failed"]
  /\ UNCHANGED <<enabled, dbVars, batch, lock, child, strays, crashes>>

Joined(c) ==
  /\ exec[c].phase = "join" /\ ~Alive(c)
  /\ exec' = [exec EXCEPT ![c].phase = "reap", ![c].outcome = child[c].payload]
  /\ UNCHANGED <<enabled, dbVars, batch, lock, child, strays, crashes>>

\* Mutant: only the message tells of the child's session.
GroupKnownByMessage(c) == exec[c].group

\* process_group_ready, from the message or from the shared flag.
GroupKnown(c) == exec[c].group \/ child[c].group

SignalGroup(c, known) ==
  child' = IF known THEN [child EXCEPT ![c].kids = FALSE] ELSE child

Expire(c) ==
  /\ exec[c].phase = "wait" \/ (exec[c].phase = "join" /\ Alive(c))
  /\ exec[c].left = 0
  /\ exec' = [exec EXCEPT ![c].phase = "term", ![c].left = TermGrace,
                ![c].outcome = "failed", ![c].group = GroupKnown(c)]
  /\ UNCHANGED <<enabled, dbVars, batch, lock, child, strays, crashes>>

\* The child has ended by itself; what it left in its session is killed.
Reap(c) ==
  /\ exec[c].phase = "reap"
  /\ SignalGroup(c, GroupKnown(c))
  /\ Enter(c, "release")
  /\ UNCHANGED <<enabled, dbVars, batch, lock, strays, crashes>>

\* SIGTERM was sent; after the join, SIGKILL to a child that is left and to
\* its group.
Kill(c) ==
  /\ exec[c].phase = "term" /\ (~Alive(c) \/ exec[c].left = 0)
  /\ exec' = [exec EXCEPT ![c].phase = "kill", ![c].left = KillGrace]
  /\ SignalGroup(c, exec[c].group)
  /\ UNCHANGED <<enabled, dbVars, batch, lock, strays, crashes>>

\* Mutant: a join without a limit.
KilledWaits(c) ==
  /\ exec[c].phase = "kill" /\ ~Alive(c)
  /\ Enter(c, "release")
  /\ UNCHANGED <<enabled, dbVars, batch, lock, child, strays, crashes>>

Killed(c) ==
  /\ exec[c].phase = "kill"
  /\ \/ ~Alive(c) /\ Enter(c, "release") /\ UNCHANGED <<child, strays>>
     \/ /\ Alive(c) /\ exec[c].left = 0
        /\ exec' = [exec EXCEPT ![c].phase = "release", ![c].outcome = "failed"]
        /\ child' = [child EXCEPT ![c] = NoChild]
        /\ strays' = strays \cup {exec[c].rule}
  /\ UNCHANGED <<enabled, dbVars, batch, lock, crashes>>

\* Compare and delete; a lock that is lost, or an answer that is, fails an
\* execution that had succeeded.  Without a session of its own the child may
\* leave processes behind.
Release(c) ==
  LET r == exec[c].rule IN
  /\ exec[c].phase = "release"
  /\ strays' = IF child[c].kids THEN strays \cup {r} ELSE strays
  /\ child' = [child EXCEPT ![c] = NoChild]
  /\ \/ /\ lock' = IF lock[r].owner = c
                    THEN [lock EXCEPT ![r] = [owner |-> None, left |-> 0]] ELSE lock
        /\ exec' = [exec EXCEPT ![c].phase = "done", ![c].slack = 0, ![c].left = 0,
                      ![c].outcome = IF lock[r].owner = c THEN @ ELSE "failed"]
     \/ /\ lock' = IF lock[r].owner = c THEN [lock EXCEPT ![r].owner = Lost] ELSE lock
        /\ exec' = [exec EXCEPT ![c].phase = "done", ![c].slack = 0, ![c].left = 0,
                      ![c].outcome = "failed"]
  /\ UNCHANGED <<enabled, dbVars, batch, crashes>>

-----------------------------------------------------------------------------
(* The child process.  SIGTERM ends it unless the script is running, which  *)
(* may ignore it; after SIGKILL it does nothing more.                      *)

\* setsid, which may fail, and the ready message.
ChildReady(c) ==
  /\ child[c].state = "starting" /\ exec[c].phase = "wait"
  /\ \E g \in BOOLEAN :
        child' = [child EXCEPT ![c].state = "ready", ![c].group = g, ![c].ready = TRUE]
  /\ UNCHANGED <<enabled, dbVars, batch, lock, exec, strays, crashes>>

\* Django is set up, the rule is read again, and its resources are checked
\* against its room; each of this may fail.
ChildLoads(c) ==
  /\ child[c].state = "ready" /\ exec[c].phase = "wait"
  /\ \/ /\ row[exec[c].rule] # "deleted"
        /\ child' = [child EXCEPT ![c].state = "script"]
     \/ child' = [child EXCEPT ![c].state = "sent", ![c].payload = "failed"]
  /\ UNCHANGED <<enabled, dbVars, batch, lock, exec, strays, crashes>>

ScriptForks(c) ==
  /\ child[c].state = "script" /\ exec[c].phase # "kill" /\ ~child[c].kids
  /\ child' = [child EXCEPT ![c].kids = TRUE]
  /\ UNCHANGED <<enabled, dbVars, batch, lock, exec, strays, crashes>>

ScriptEnds(c) ==
  /\ child[c].state = "script" /\ exec[c].phase # "kill"
  /\ \E p \in {"true", "failed"} :
        child' = [child EXCEPT ![c].state = "sent", ![c].payload = p]
  /\ UNCHANGED <<enabled, dbVars, batch, lock, exec, strays, crashes>>

\* It exits, dies of a signal or ends itself, with its result sent or not.
ChildEnds(c) ==
  /\ Alive(c)
  /\ child' = [child EXCEPT ![c].state = "exited"]
  /\ UNCHANGED <<enabled, dbVars, batch, lock, exec, strays, crashes>>

StrayEnds(r) ==
  /\ r \in strays
  /\ strays' = strays \ {r}
  /\ UNCHANGED <<enabled, dbVars, batch, lock, exec, child, crashes>>

-----------------------------------------------------------------------------
(* The process of an executor ends: killed, it leaves the child behind; at *)
(* a regular exit multiprocessing terminates the daemonic child first.  A  *)
(* scheduler that comes back begins with a new pass.                       *)

ProcessEnds(c) ==
  LET r == exec[c].rule
      left == Alive(c) \/ child[c].kids IN
  /\ Active(c) /\ crashes < MaxCrashes
  /\ crashes' = crashes + 1
  /\ exec' = [exec EXCEPT ![c] = NoExec]
  /\ child' = [child EXCEPT ![c] = NoChild]
  /\ \/ strays' = IF left THEN strays \cup {r} ELSE strays
     \/ strays' = IF child[c].kids THEN strays \cup {r} ELSE strays
  /\ lock' = IF lock[r].owner = c THEN [lock EXCEPT ![r].owner = Lost] ELSE lock
  /\ batch' = IF c = Scheduler THEN {} ELSE batch
  /\ UNCHANGED <<enabled, dbVars>>

\* A unit of time.  An execution that is not in a bounded wait, or whose wait
\* is over, may lose MaxDelay units in all.
Tick ==
  /\ \A c \in Executors : Active(c) => exec[c].left > 0 \/ exec[c].slack > 0
  /\ exec' = [c \in Executors |->
       IF ~Active(c) THEN exec[c]
       ELSE IF exec[c].left > 0 THEN [exec[c] EXCEPT !.left = @ - 1]
       ELSE [exec[c] EXCEPT !.slack = @ - 1]]
  /\ lock' = [r \in Rules |->
       IF lock[r].left = 1 THEN [owner |-> None, left |-> 0]
       ELSE IF lock[r].left > 1 THEN [lock[r] EXCEPT !.left = @ - 1]
       ELSE lock[r]]
  /\ UNCHANGED <<enabled, dbVars, batch, child, strays, crashes>>

ChildStep(c) ==
  \/ ChildReady(c) \/ ChildLoads(c) \/ ScriptForks(c) \/ ScriptEnds(c) \/ ChildEnds(c)

ExecStep(c) ==
  \/ Acquire(c) \/ AcquireFails(c) \/ Spawn(c) \/ ReadReady(c) \/ ReadResult(c)
  \/ ReadEnd(c) \/ Joined(c) \/ Expire(c) \/ Reap(c) \/ Kill(c) \/ Killed(c)
  \/ Release(c)

PassStep == ListRules \/ RuleDone \/ \E r \in Rules : StopDisabled(r) \/ RunRule(r)

OperatorStep(r) ==
  Launch(r) \/ Stop(r) \/ Destroy(r)

Next ==
  \/ PassStep \/ Tick
  \/ \E r \in Rules : OperatorStep(r) \/ Elapse(r) \/ StrayEnds(r)
  \/ \E q \in Requests : Answer(q) \/ (\E r \in Rules : Execute(q, r))
  \/ \E c \in Executors : ExecStep(c) \/ ChildStep(c) \/ ProcessEnds(c)

Spec == Init /\ [][Next]_vars

\* The scheduler's loop and the executions go on, time passes; a script need
\* not end, and no operator need act.
RuleFairness ==
  /\ WF_vars(PassStep) /\ WF_vars(Tick)
  /\ \A r \in Rules : WF_vars(Elapse(r))
  /\ \A c \in Executors : WF_vars(ExecStep(c))

FairSpec == Spec /\ RuleFairness

-----------------------------------------------------------------------------
(* Two executions of one rule never have a child, or descendants of one,   *)
(* at the same time: the lock outlives every wait and clean-up of its      *)
(* execution, and is given back after the child has ended (executor.py:    *)
(* _acquire_execution_lease, _execute_rule_process).  What a killed        *)
(* executor leaves behind is not counted here.                             *)
SingleFlight ==
  \A c, d \in Executors :
    c # d /\ exec[c].rule = exec[d].rule =>
      ~((Alive(c) \/ child[c].kids) /\ (Alive(d) \/ child[d].kids))

(* When the lock is given back nothing of the execution runs any more,     *)
(* whatever order the ready message, the shared flag, the deadline and the *)
(* child's end came in; only descendants of a child that got no session of *)
(* its own are out of reach (executor.py: _terminate_kill_join and the     *)
(* finally of _execute_rule_process_under_lease).                          *)
CleanedBeforeRelease ==
  \A c \in Executors :
    exec[c].phase \notin {"wait", "join", "reap", "term", "kill"} =>
      ~Alive(c) /\ (child[c].kids => ~child[c].group)

(* A launched rule that stays launched is executed by the scheduler again  *)
(* and again: no execution, of this rule or another, blocks the pass for   *)
(* good, and neither does a lock that a dead process has left              *)
(* (scheduler.py: _process_automation_rules).                              *)
PolledRuns ==
  \A r \in Rules :
    Polled(r) ~> (~Polled(r) \/ (exec[Scheduler].rule = r /\ exec[Scheduler].phase = "done"))

(* A lock that nobody gives back any more - its owner was killed, or the   *)
(* answer of Redis was lost - is free again after its time to live         *)
(* (executor.py: SET ... EX in _acquire_execution_lease).                  *)
LockFreed == \A r \in Rules : lock[r].owner = Lost ~> lock[r].owner # Lost
=============================================================================
