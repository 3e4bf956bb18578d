----------------------------- MODULE ControlLoop -----------------------------
(***************************************************************************)
(* One control scheme (on-off, PI or PID) and everybody who acts on it     *)
(* (automation/scheduler.py, controllers.py and views.py).                 *)
(*                                                                         *)
(* The scheduler thread of the runner takes the time, lists the schemes    *)
(* that are due, and runs one tick of each: under the lock of its database *)
(* row it looks again whether the scheme is due, reads the process value,  *)
(* computes the output, sends the command and saves the state.  The web    *)
(* processes enable, disable and edit the scheme and run manual ticks.     *)
(* The commit of a tick, and every UPDATE, waits for the row lock.         *)
(*                                                                         *)
(* The integral of the controller appears as the time that it stands for:  *)
(* each tick integrates over its dt.  Ages are relative, so that nothing   *)
(* grows without bound; an age of Old stands for a last_run_time of NULL   *)
(* too, which is treated alike, and an age of 0 for a positive time below  *)
(* one unit.  A clock that is set back is left out.                        *)
(***************************************************************************)
EXTENDS Integers

CONSTANTS
  Interval,  \* sample_interval
  MaxGap,    \* 10: the longest dt, in intervals
  MaxLag     \* bound on the delay between the scheduler's clock and its lock

ASSUME ControlAssumption ==
  Interval \in Nat \ {0} /\ MaxGap \in Nat \ {0} /\ MaxLag \in Nat

VARIABLES
  enabled,   \* is_enabled
  status,    \* status
  age,       \* the time since last_run_time
  unspent,   \* history: the time that the integral does not contain yet
  wanted,    \* history: the scheme has been enabled, and not disabled or
             \* stopped by a failed tick since
  lock,      \* the transaction that holds the row lock
  phase,     \* how far the tick of that transaction has come
  spent,     \* the time since that tick took its now
  dt,        \* its time step
  dry,       \* send=False
  sched,     \* the step of the scheduler thread
  lag,       \* the time since the scheduler took its now
  snap       \* the row as an edit in progress has read it

rowVars   == <<enabled, status, age, unspent, wanted>>
tickVars  == <<lock, phase, spent, dt, dry>>
schedVars == <<sched, lag>>
vars == <<rowVars, tickVars, schedVars, snap>>

GapLimit == Interval * MaxGap

\* From here on the exact age does not matter.
Old == GapLimit + MaxLag + 1

Statuses == {"idle", "running", "error"}

Row == [enabled : BOOLEAN, status : Statuses, age : 0 .. Old, unspent : Int]

TypeOK ==
  /\ enabled \in BOOLEAN /\ status \in Statuses
  /\ age \in 0 .. Old /\ unspent \in Int /\ wanted \in BOOLEAN
  /\ lock \in {"none", "scheduler", "manual"}
  /\ phase \in {"none", "read", "send", "save", "mark"}
  /\ spent \in 0 .. Old /\ dt \in 0 .. GapLimit /\ dry \in BOOLEAN
  /\ sched \in {"idle", "pass", "due", "ticking", "stop"}
  /\ lag \in 0 .. MaxLag
  /\ snap \subseteq Row

Init ==
  /\ enabled = FALSE /\ status = "idle"
  /\ age = Old /\ unspent = Interval /\ wanted = FALSE
  /\ lock = "none" /\ phase = "none" /\ spent = 0 /\ dt = 0 /\ dry = FALSE
  /\ sched = "idle" /\ lag = 0
  /\ snap = {}

-----------------------------------------------------------------------------
(* A pass of the scheduler.                                                *)

Running == enabled /\ status = "running"

\* Mutant: the age is compared with the gap.
DueNever == age - lag > Old

\* (now - last_run_time) >= interval, where now is the scheduler's.
Due == age - lag >= Interval

BeginPass ==
  /\ sched = "idle"
  /\ sched' = "pass" /\ lag' = 0
  /\ UNCHANGED <<rowVars, tickVars, snap>>

ListSchemes ==
  /\ sched = "pass"
  /\ sched' = IF Running /\ Due THEN "due" ELSE "idle"
  /\ UNCHANGED <<lag, rowVars, tickVars, snap>>

\* No value, or one that is older than GapLimit, gives the interval.
TimeStep == IF age > GapLimit THEN Interval ELSE age

BeginTick(actor) ==
  /\ lock = "none"
  /\ lock' = actor /\ phase' = "read" /\ spent' = 0 /\ dt' = TimeStep

\* Mutant: what the list said is not looked at again.
LockRowUnchecked ==
  /\ sched = "due" /\ BeginTick("scheduler")
  /\ sched' = "ticking" /\ dry' = FALSE
  /\ UNCHANGED <<lag, rowVars, snap>>

\* run_control_scheme_locked with due_at.
LockRow ==
  /\ sched = "due" /\ lock = "none"
  /\ \/ /\ Running /\ Due
        /\ BeginTick("scheduler")
        /\ sched' = "ticking" /\ dry' = FALSE
        /\ UNCHANGED <<lag, rowVars, snap>>
     \/ /\ ~(Running /\ Due)
        /\ sched' = "idle"
        /\ UNCHANGED <<lag, rowVars, tickVars, snap>>

\* The lock is not granted in time, or the database fails.
LockFails ==
  /\ sched = "due"
  /\ sched' = "stop"
  /\ UNCHANGED <<lag, rowVars, tickVars, snap>>

\* An exception has left the tick: the scheduler stops the scheme, without
\* another look at it, unless the database still fails.
StopScheme ==
  /\ sched = "stop"
  /\ sched' = "idle"
  /\ \/ /\ lock = "none"
        /\ enabled' = FALSE /\ status' = "error" /\ wanted' = FALSE
        /\ UNCHANGED <<age, unspent>>
     \/ UNCHANGED rowVars
  /\ UNCHANGED <<lag, tickVars, snap>>

-----------------------------------------------------------------------------
(* A tick, under the row lock (run_control_scheme).                        *)

\* A manual tick does not ask whether the scheme is enabled or due.
Step ==
  /\ BeginTick("manual")
  /\ dry' \in BOOLEAN
  /\ UNCHANGED <<schedVars, rowVars, snap>>

\* The process value and the command are there or not.
ReadPv ==
  /\ phase = "read"
  /\ phase' \in {IF dry THEN "save" ELSE "send", "mark"}
  /\ UNCHANGED <<lock, spent, dt, dry, schedVars, rowVars, snap>>

SendCommand ==
  /\ phase = "send"
  /\ phase' \in {"save", "mark"}
  /\ UNCHANGED <<lock, spent, dt, dry, schedVars, rowVars, snap>>

\* The transaction ends; the scheduler goes on with step next.
EndTick(next) ==
  /\ lock' = "none" /\ phase' = "none"
  /\ sched' = IF lock = "scheduler" THEN next ELSE sched
  /\ UNCHANGED <<spent, dt, dry, lag, snap>>

\* Mutant: last_run_time is not among the saved fields.
SaveUntimed ==
  /\ phase = "save"
  /\ unspent' = unspent - dt
  /\ status' = IF enabled THEN "running" ELSE "idle"
  /\ EndTick("idle")
  /\ UNCHANGED <<enabled, age, wanted>>

Save ==
  /\ phase = "save"
  /\ age' = spent /\ unspent' = unspent - dt
  /\ status' = IF enabled THEN "running" ELSE "idle"
  /\ EndTick("idle")
  /\ UNCHANGED <<enabled, wanted>>

\* save() fails within the tick, which goes on to stop the loop.
SaveRefused ==
  /\ phase = "save"
  /\ phase' = "mark"
  /\ UNCHANGED <<lock, spent, dt, dry, schedVars, rowVars, snap>>

\* A failed tick stops the loop (_mark_scheme_error).
MarkError ==
  /\ phase = "mark"
  /\ enabled' = FALSE /\ status' = "error" /\ age' = spent /\ wanted' = FALSE
  /\ EndTick("idle")
  /\ UNCHANGED unspent

\* The database refuses to save or to commit.
Rollback ==
  /\ phase \in {"save", "mark"}
  /\ EndTick("stop")
  /\ UNCHANGED rowVars

SchedulerDies ==
  /\ sched # "idle"
  /\ sched' = "idle"
  /\ IF lock = "scheduler" THEN lock' = "none" /\ phase' = "none"
                           ELSE UNCHANGED <<lock, phase>>
  /\ UNCHANGED <<spent, dt, dry, lag, rowVars, snap>>

StepDies ==
  /\ lock = "manual"
  /\ EndTick("idle")
  /\ UNCHANGED rowVars

-----------------------------------------------------------------------------
(* Requests of the users.                                                  *)

Enable ==
  /\ lock = "none"
  /\ enabled' = TRUE /\ status' = "running" /\ wanted' = TRUE
  /\ age' = Old /\ unspent' = Interval
  /\ UNCHANGED <<tickVars, schedVars, snap>>

Disable ==
  /\ lock = "none"
  /\ enabled' = FALSE /\ status' = "idle" /\ wanted' = FALSE
  /\ UNCHANGED <<age, unspent, tickVars, schedVars, snap>>

\* PUT and PATCH read the row, change its settings and save all of it, unless
\* the settings are refused.
BeginEdit ==
  /\ snap = {}
  /\ snap' = {[enabled |-> enabled, status |-> status,
               age |-> age, unspent |-> unspent]}
  /\ UNCHANGED <<rowVars, tickVars, schedVars>>

SaveEdit ==
  /\ snap # {}
  /\ snap' = {}
  /\ \/ /\ lock = "none"
        /\ \E row \in snap : /\ enabled' = row.enabled /\ status' = row.status
                            /\ age' = row.age /\ unspent' = row.unspent
     \/ UNCHANGED <<enabled, status, age, unspent>>
  /\ UNCHANGED <<wanted, tickVars, schedVars>>

-----------------------------------------------------------------------------
Older(t) == IF t < Old THEN t + 1 ELSE Old

\* Nor does the exact unspent time, when it suffices for any two ticks.
Grown(t) == IF t < Old + GapLimit THEN t + 1 ELSE t

Tick ==
  /\ sched \in {"pass", "due"} => lag < MaxLag
  /\ age' = Older(age) /\ unspent' = Grown(unspent)
  /\ spent' = IF lock # "none" THEN Older(spent) ELSE spent
  /\ lag' = IF sched \in {"pass", "due"} THEN lag + 1 ELSE lag
  /\ snap' = {[row EXCEPT !.age = Older(@), !.unspent = Grown(@)] : row \in snap}
  /\ UNCHANGED <<enabled, status, wanted, lock, phase, dt, dry, sched>>

TickStep ==
  ReadPv \/ SendCommand \/ Save \/ SaveRefused \/ MarkError \/ Rollback

SchedStep == BeginPass \/ ListSchemes \/ LockFails \/ StopScheme

Next ==
  \/ SchedStep \/ LockRow \/ SchedulerDies
  \/ Step \/ StepDies \/ TickStep
  \/ Enable \/ Disable
  \/ Tick

Spec == Init /\ [][Next]_vars

\* The same, with edits of the settings.
EditNext == Next \/ BeginEdit \/ SaveEdit

EditSpec == Init /\ [][EditNext]_vars

\* The threads and the time go on; the runner does not die in every pass, and
\* the database does not refuse the lock every time.
Fairness ==
  /\ WF_vars(Tick) /\ WF_vars(TickStep) /\ WF_vars(SchedStep)
  /\ SF_vars(ListSchemes) /\ SF_vars(LockRow)

FairSpec == Spec /\ Fairness
-----------------------------------------------------------------------------
(* Properties                                                              *)

SchedulerSends ==
  phase = "send" /\ lock = "scheduler" /\ phase' \in {"save", "mark"}

\* Acceptance list of the project guide: a scheme that has been disabled, or
\* that a failed tick has stopped, sends no command of its own any more, although the
\* scheduler works from a list that may be older than the request.
DisableHolds == [][SchedulerSends => wanted]_vars

\* A scheduled tick comes at least one interval after the last tick, a manual
\* one included: due_at is compared again under the lock.
Spaced ==
  [][phase = "none" /\ phase' = "read" /\ lock' = "scheduler" =>
       age >= Interval]_vars

\* No stretch of time is integrated twice, however scheduled, manual and failed
\* ticks, rolled back transactions and restarts follow each other; the first
\* tick after a reset counts one interval.
TimeIntegratedOnce == unspent >= 0

\* The two fields that say whether the loop is on agree in every committed row,
\* whoever wrote it last.
StatusAgrees == enabled <=> status = "running"

\* A scheme that is enabled is driven, or somebody stops it.
Driven == enabled ~> (phase # "none" \/ ~enabled)
=============================================================================
