-------------------------- MODULE ControlLoopProofs --------------------------
(* Proofs about ControlLoop, for every interval, gap and delay.            *)
EXTENDS ControlLoop, TLAPS

\* The time that a tick integrates when the last one was t ago.
Span(t) == IF t > GapLimit THEN Interval ELSE t

\* Locked ticks and phases belong together.
LockInv == lock = "none" <=> phase = "none"

\* What has not been integrated suffices for the tick that may begin now, and
\* for the one in progress together with the one after it.  A row that an edit
\* has read is as good as the committed one.
TimeInv ==
  /\ unspent >= Span(age)
  /\ lock # "none" => unspent >= dt + Span(spent)
  /\ \A row \in snap : row.unspent >= Span(row.age)

StatusInv ==
  StatusAgrees /\ \A row \in snap : row.enabled <=> row.status = "running"

\* A tick of the scheduler runs only while the scheme is on.
EnabledInv == (enabled => wanted) /\ (lock = "scheduler" => enabled)

LoopInv == TypeOK /\ LockInv /\ TimeInv /\ StatusInv

-----------------------------------------------------------------------------
LEMMA Limits ==
  /\ Interval \in Nat \ {0} /\ MaxLag \in Nat /\ GapLimit \in Nat
  /\ Interval <= GapLimit /\ Old = GapLimit + MaxLag + 1 /\ Old \in Nat
<1>1. \A i, g \in Nat \ {0} : i * g \in Nat /\ i <= i * g
  OBVIOUS
<1> QED
  BY <1>1, ControlAssumption DEF GapLimit, Old

\* A span is short, and grows by one unit at most.
LEMMA Spans ==
  ASSUME NEW t \in Nat
  PROVE  /\ Span(t) \in 0 .. GapLimit
         /\ Span(Older(t)) <= Span(t) + 1
         /\ t <= Old => Older(t) \in 0 .. Old
BY Limits DEF Span, Older

LEMMA LoopInvInit ==
  ASSUME Init
  PROVE  LoopInv
<1>1. /\ enabled \in BOOLEAN /\ wanted \in BOOLEAN /\ dry \in BOOLEAN
      /\ status \in Statuses
  BY DEF Init, Statuses
<1>2. age \in 0 .. Old /\ unspent \in Int /\ spent \in 0 .. Old
      /\ dt \in 0 .. GapLimit /\ lag \in 0 .. MaxLag
  BY Limits DEF Init
<1>3. TypeOK
  BY <1>1, <1>2 DEF Init, TypeOK
<1>4. Span(age) = Interval
  BY Limits DEF Init, Span
<1>5. LockInv /\ TimeInv /\ StatusInv
  BY <1>4, Limits DEF Init, LockInv, TimeInv, StatusInv, StatusAgrees
<1> QED
  BY <1>3, <1>5 DEF LoopInv

\* Time passes.
LEMMA TickKeeps ==
  ASSUME LoopInv, Tick
  PROVE  LoopInv'
<1> USE DEF LoopInv
<1>1. /\ age \in Nat /\ age <= Old /\ spent \in Nat /\ spent <= Old
      /\ unspent \in Int /\ dt \in 0 .. GapLimit
  BY Limits DEF TypeOK
<1>2. \A row \in snap : row \in Row
  BY DEF TypeOK
<1>3. \A t \in Nat, u \in Int :
        u >= Span(t) => Grown(u) \in Int /\ Grown(u) >= Span(Older(t))
  <2> TAKE t \in Nat, u \in Int
  <2> HAVE u >= Span(t)
  <2>1. /\ Span(t) \in 0 .. GapLimit /\ Span(Older(t)) <= Span(t) + 1
        /\ Older(t) \in Nat
    BY Spans, Limits DEF Older
  <2>2. Span(Older(t)) \in 0 .. GapLimit
    BY <2>1, Spans
  <2> QED
    BY <2>1, <2>2, Limits DEF Grown
<1>4. \A row \in snap :
        [row EXCEPT !.age = Older(@), !.unspent = Grown(@)] \in Row
  <2> TAKE row \in snap
  <2>1. row \in Row /\ row.age \in Nat /\ row.age <= Old /\ row.unspent \in Int
    BY <1>2, Limits DEF Row
  <2>2. Older(row.age) \in 0 .. Old /\ Grown(row.unspent) \in Int
    BY <2>1, Spans, Limits DEF Grown
  <2> QED
    BY <2>1, <2>2 DEF Row
<1>5. TypeOK'
  <2>1. age' \in 0 .. Old /\ unspent' \in Int /\ spent' \in 0 .. Old
    <3>1. /\ Older(age) \in 0 .. Old /\ Older(spent) \in 0 .. Old
          /\ Grown(unspent) \in Int /\ spent \in 0 .. Old
      BY <1>1, Spans, Limits DEF Grown
    <3> QED
      BY <3>1 DEF Tick
  <2>2. lag' \in 0 .. MaxLag
    <3>1. lag \in 0 .. MaxLag
      BY DEF TypeOK
    <3>2. /\ lag' = (IF sched \in {"pass", "due"} THEN lag + 1 ELSE lag)
          /\ sched \in {"pass", "due"} => lag < MaxLag
      BY DEF Tick
    <3> QED
      BY <3>1, <3>2, Limits
  <2>3. snap' \subseteq Row
    BY <1>4 DEF Tick
  <2>4. /\ enabled' \in BOOLEAN /\ wanted' \in BOOLEAN /\ dry' \in BOOLEAN
    BY DEF Tick, TypeOK
  <2> QED
    BY <2>1, <2>2, <2>3, <2>4 DEF Tick, TypeOK
<1>6. TimeInv'
  <2>1. unspent' >= Span(age')
    BY <1>1, <1>3 DEF Tick, TimeInv
  <2>2. ASSUME lock' # "none" PROVE unspent' >= dt' + Span(spent')
    <3>1. lock # "none" /\ spent' = Older(spent) /\ dt' = dt
      BY <2>2 DEF Tick
    <3>2. unspent >= dt + Span(spent)
      BY <3>1 DEF TimeInv
    <3>3. Span(spent) \in 0 .. GapLimit /\ Span(Older(spent)) \in 0 .. GapLimit
          /\ Span(Older(spent)) <= Span(spent) + 1
      BY <1>1, Spans
    <3>4. unspent' = Grown(unspent)
      BY DEF Tick
    <3> QED
      BY <1>1, <3>1, <3>2, <3>3, <3>4, Limits DEF Grown
  <2>3. \A row \in snap' : row.unspent >= Span(row.age)
    <3>1. \A row \in snap : row.age \in Nat /\ row.unspent \in Int
      BY <1>2, Limits DEF Row
    <3>2. \A row \in snap : Grown(row.unspent) >= Span(Older(row.age))
      BY <1>3, <3>1 DEF TimeInv
    <3> QED
      BY <1>2, <3>2 DEF Tick, Row
  <2> QED
    BY <2>1, <2>2, <2>3 DEF TimeInv
<1>7. StatusInv'
  BY <1>2 DEF Tick, StatusInv, StatusAgrees, Row
<1>8. LockInv'
  BY DEF Tick, LockInv
<1> QED
  BY <1>5, <1>6, <1>7, <1>8

\* The steps of the scheduler, of a tick and of the users.
LEMMA StepsKeep ==
  ASSUME LoopInv, EditNext, ~Tick
  PROVE  LoopInv'
<1> USE DEF LoopInv
<1>1. /\ age \in Nat /\ age <= Old /\ spent \in Nat /\ spent <= Old
      /\ unspent \in Int /\ dt \in 0 .. GapLimit
  BY Limits DEF TypeOK
<1>2. /\ Span(age) \in 0 .. GapLimit /\ Span(spent) \in 0 .. GapLimit
      /\ Span(0) = 0 /\ Span(Old) = Interval /\ TimeStep = Span(age)
  BY <1>1, Spans, Limits DEF Span, TimeStep
<1>3. CASE BeginPass \/ ListSchemes \/ LockFails
  BY <1>3, Limits DEF BeginPass, ListSchemes, LockFails, rowVars, tickVars, TypeOK,
     LockInv, TimeInv, StatusInv, StatusAgrees
<1>4. CASE StopScheme
  <2>1. CASE UNCHANGED rowVars
    BY <1>4, <2>1 DEF StopScheme, rowVars, tickVars, TypeOK, LockInv, TimeInv,
       StatusInv, StatusAgrees
  <2>2. CASE /\ enabled' = FALSE /\ status' = "error" /\ wanted' = FALSE
             /\ UNCHANGED <<age, unspent>>
    <3>1. enabled' \in BOOLEAN /\ wanted' \in BOOLEAN /\ status' \in Statuses
      BY <2>2 DEF Statuses
    <3>2. TypeOK'
      BY <1>4, <2>2, <3>1 DEF StopScheme, tickVars, TypeOK
    <3> QED
      BY <1>4, <2>2, <3>2 DEF StopScheme, tickVars, LockInv, TimeInv, StatusInv,
         StatusAgrees
  <2> QED
    BY <1>4, <2>1, <2>2 DEF StopScheme
<1>5. ASSUME NEW actor \in {"scheduler", "manual"}, BeginTick(actor),
             UNCHANGED <<lag, rowVars, snap>>, dry' \in BOOLEAN,
             sched' \in {"idle", "pass", "due", "ticking", "stop"}
      PROVE  LoopInv'
  BY <1>1, <1>2, <1>5, Limits DEF BeginTick, rowVars, TypeOK, LockInv, TimeInv,
     StatusInv, StatusAgrees
<1>6. CASE LockRow
  <2>1. CASE BeginTick("scheduler") /\ sched' = "ticking" /\ dry' = FALSE
             /\ UNCHANGED <<lag, rowVars, snap>>
    BY <1>5, <2>1
  <2>2. CASE sched' = "idle" /\ UNCHANGED <<lag, rowVars, tickVars, snap>>
    BY <2>2 DEF rowVars, tickVars, TypeOK, LockInv, TimeInv, StatusInv, StatusAgrees
  <2> QED
    BY <1>6, <2>1, <2>2 DEF LockRow
<1>7. CASE Step
  <2>1. sched' = sched /\ sched \in {"idle", "pass", "due", "ticking", "stop"}
    BY <1>7 DEF Step, schedVars, TypeOK
  <2> QED
    BY <1>5, <1>7, <2>1 DEF Step, schedVars
<1>8. CASE ReadPv \/ SendCommand \/ SaveRefused
  BY <1>8 DEF ReadPv, SendCommand, SaveRefused, schedVars, rowVars, TypeOK,
     LockInv, TimeInv, StatusInv, StatusAgrees
<1>9. CASE Save
  BY <1>1, <1>2, <1>9 DEF Save, EndTick, TypeOK, LockInv, TimeInv, StatusInv,
     StatusAgrees, Statuses
<1>10. CASE MarkError
  <2>1. enabled' \in BOOLEAN /\ wanted' \in BOOLEAN /\ status' \in Statuses
    BY <1>10 DEF MarkError, Statuses
  <2>2. TypeOK'
    BY <1>1, <1>10, <2>1 DEF MarkError, EndTick, TypeOK
  <2>3. TimeInv'
    BY <1>1, <1>2, <1>10 DEF MarkError, EndTick, TimeInv, LockInv
  <2> QED
    BY <1>10, <2>2, <2>3 DEF MarkError, EndTick, LockInv, StatusInv, StatusAgrees
<1>11. CASE Rollback \/ StepDies
  BY <1>11 DEF Rollback, StepDies, EndTick, rowVars, TypeOK, LockInv, TimeInv,
     StatusInv, StatusAgrees
<1>12. CASE SchedulerDies
  BY <1>12 DEF SchedulerDies, rowVars, TypeOK, LockInv, TimeInv, StatusInv,
     StatusAgrees
<1>13. CASE Enable
  BY <1>1, <1>2, <1>13, Limits DEF Enable, tickVars, schedVars, TypeOK, LockInv,
     TimeInv, StatusInv, StatusAgrees, Statuses
<1>14. CASE Disable
  BY <1>14 DEF Disable, tickVars, schedVars, TypeOK, LockInv, TimeInv, StatusInv,
     StatusAgrees, Statuses
<1>15. CASE BeginEdit
  BY <1>15 DEF BeginEdit, rowVars, tickVars, schedVars, TypeOK, LockInv, TimeInv,
     StatusInv, StatusAgrees, Row
<1>16. CASE SaveEdit
  BY <1>16 DEF SaveEdit, tickVars, schedVars, TypeOK, LockInv, TimeInv,
     StatusInv, StatusAgrees, Row
<1> QED
  BY <1>3, <1>4, <1>6, <1>7, <1>8, <1>9, <1>10, <1>11, <1>12, <1>13, <1>14,
     <1>15, <1>16 DEF EditNext, Next, TickStep, SchedStep

LEMMA LoopInvHolds == EditSpec => []LoopInv
<1>1. LoopInv /\ UNCHANGED vars => LoopInv'
  BY DEF vars, rowVars, tickVars, schedVars, LoopInv, TypeOK, LockInv, TimeInv,
     StatusInv, StatusAgrees, Span, Row, Statuses
<1>2. LoopInv /\ [EditNext]_vars => LoopInv'
  BY <1>1, TickKeeps, StepsKeep
<1> QED
  BY LoopInvInit, <1>2, PTL DEF EditSpec

\* Type correctness of the control loop, with edits of the settings.
THEOREM ControlTypeCorrect == EditSpec => []TypeOK
BY LoopInvHolds, PTL DEF LoopInv

\* No stretch of time enters the integral twice (run_control_scheme takes dt
\* from last_run_time and saves both in one UPDATE), not even when an edit
\* writes back the row that it has read before.
THEOREM ControlTimeIntegratedOnce == EditSpec => []TimeIntegratedOnce
<1>1. LoopInv => TimeIntegratedOnce
  BY Spans, Limits DEF LoopInv, TypeOK, TimeInv, TimeIntegratedOnce
<1> QED
  BY <1>1, LoopInvHolds, PTL

\* is_enabled and status agree in every committed row, with edits as well.
THEOREM ControlStatusAgrees == EditSpec => []StatusAgrees
<1>1. LoopInv => StatusAgrees
  BY DEF LoopInv, StatusInv
<1> QED
  BY <1>1, LoopInvHolds, PTL

-----------------------------------------------------------------------------
\* Without edits.
LEMMA NoEdits == Spec => EditSpec
<1>1. [Next]_vars => [EditNext]_vars
  BY DEF EditNext
<1> QED
  BY <1>1, PTL DEF Spec, EditSpec

LEMMA EnabledStep ==
  ASSUME LoopInv, EnabledInv, Next
  PROVE  EnabledInv'
<1> USE DEF EnabledInv, rowVars, tickVars, schedVars
<1>1. CASE SchedStep
  BY <1>1 DEF SchedStep, BeginPass, ListSchemes, LockFails, StopScheme
<1>2. CASE LockRow \/ Step
  BY <1>2 DEF LockRow, Step, BeginTick, Running
<1>3. CASE SchedulerDies \/ StepDies \/ TickStep
  BY <1>3 DEF SchedulerDies, StepDies, TickStep, ReadPv, SendCommand, Save,
     SaveRefused, MarkError, Rollback, EndTick
<1>4. CASE Enable
  BY <1>4 DEF Enable
<1>5. CASE Disable
  BY <1>5 DEF Disable
<1>6. CASE Tick
  BY <1>6 DEF Tick
<1> QED
  BY <1>1, <1>2, <1>3, <1>4, <1>5, <1>6 DEF Next

LEMMA EnabledInvHolds == Spec => [](LoopInv /\ EnabledInv)
<1>1. Init => EnabledInv
  BY DEF Init, EnabledInv
<1>2. LoopInv /\ EnabledInv /\ [Next]_vars => EnabledInv'
  BY EnabledStep DEF vars, rowVars, tickVars, EnabledInv
<1> QED
  BY NoEdits, LoopInvHolds, <1>1, <1>2, PTL DEF Spec

\* No command of a disabled or stopped scheme: the tick of the scheduler holds
\* the row lock from its second look at is_enabled to its commit.
THEOREM ControlDisableHolds == Spec => DisableHolds
<1>1. EnabledInv => (SchedulerSends => wanted)
  BY DEF EnabledInv, SchedulerSends
<1> QED
  BY <1>1, EnabledInvHolds, PTL DEF DisableHolds

\* Two ticks of which the second is the scheduler's are an interval apart,
\* however late the scheduler gets the lock.
THEOREM ControlSpaced == Spec => Spaced
<1>1. ASSUME LoopInv, Next, phase = "none", phase' = "read", lock' = "scheduler"
      PROVE  age >= Interval
  <2>1. LockRow
    BY <1>1 DEF Next, SchedStep, BeginPass, ListSchemes, LockFails, StopScheme,
       SchedulerDies, Step, BeginTick, StepDies, TickStep, ReadPv, SendCommand,
       Save, SaveRefused, MarkError, Rollback, EndTick, Enable, Disable, Tick,
       tickVars
  <2>2. Due
    BY <1>1, <2>1 DEF LockRow, tickVars
  <2> QED
    BY <1>1, <2>2, Limits DEF Due, LoopInv, TypeOK
<1>2. LoopInv /\ [Next]_vars =>
        [phase = "none" /\ phase' = "read" /\ lock' = "scheduler" =>
           age >= Interval]_vars
  BY <1>1
<1> QED
  BY <1>2, EnabledInvHolds, PTL DEF Spec, Spaced
=============================================================================
