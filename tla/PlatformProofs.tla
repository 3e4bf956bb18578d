---------------------------- MODULE PlatformProofs ----------------------------
(***************************************************************************)
(* Proofs about the execution of rules and what is kept of their output,   *)
(* the way of a report into the database, the runs of the simulation, the  *)
(* confirmations of the MCP server, the reload of the configuration,       *)
(* projects with their rooms, and the simulated nodes: for any number of   *)
(* rules, executors, messages, receivers, runs, calls, tokens, requests,   *)
(* rooms and commands, and for all times and limits that the assumptions   *)
(* of these modules admit.                                                 *)
(***************************************************************************)
EXTENDS RuleExecution, InboundDelivery, SimulationRuns, McpServer, ConfigReload,
        ProjectRooms, SimulatedNodes, BoundedCapture, SequenceTheorems, TLAPS

-----------------------------------------------------------------------------
(* Rules.  The lock of a rule outlives its execution: what is left of it   *)
(* exceeds the waits still to come and the time that may still be lost.    *)

RestOf(p) ==
  IF p = "start" THEN Timeout + TermGrace + KillGrace
  ELSE IF p \in {"wait", "join"} THEN TermGrace + KillGrace
  ELSE IF p = "term" THEN KillGrace ELSE 0

LeaseHeld(c) ==
  LET r == exec[c].rule IN
  /\ exec[c].phase # "idle" => r \in Rules
  /\ exec[c].phase = "acquire" => exec[c].left = 0
  /\ Active(c) =>
       /\ lock[r].owner = c
       /\ lock[r].left > exec[c].left + exec[c].slack + RestOf(exec[c].phase)

\* An execution that is not under way has no child; one that is past its
\* waits has ended it, and what was in its session.
ChildHeld(c) ==
  /\ exec[c].phase \in {"idle", "acquire", "done", "start"} => child[c] = NoChild
  /\ exec[c].phase \in {"reap", "release"} => ~Alive(c)
  /\ exec[c].phase = "term" => (child[c].group => exec[c].group)
  /\ exec[c].phase \in {"kill", "release"} => (child[c].kids => ~child[c].group)

RuleInv == TypeOK /\ \A c \in Executors : LeaseHeld(c) /\ ChildHeld(c)

ExecRec ==
  [phase : Phases, rule : Rules \cup {None}, left : Nat,
   slack : 0 .. MaxDelay, group : BOOLEAN, outcome : Outcomes]
ChildRec ==
  [state : {"none", "starting", "ready", "script", "sent", "exited"},
   group : BOOLEAN, ready : BOOLEAN, payload : Outcomes, kids : BOOLEAN]
LockRec == [owner : Executors \cup {None, Lost}, left : 0 .. TTL]

ExecTyped  == exec \in [Executors -> ExecRec]
ChildTyped == child \in [Executors -> ChildRec]
LockTyped  == lock \in [Rules -> LockRec]
RestTyped ==
  /\ enabled \in BOOLEAN /\ row \in [Rules -> Rows]
  /\ due \subseteq Rules /\ batch \subseteq Rules /\ strays \subseteq Rules
  /\ crashes \in 0 .. MaxCrashes

LEMMA TypesApart == TypeOK <=> ExecTyped /\ ChildTyped /\ LockTyped /\ RestTyped
BY DEF TypeOK, ExecTyped, ChildTyped, LockTyped, RestTyped, ExecRec, ChildRec, LockRec

LEMMA TypesApartNext == TypeOK' <=> ExecTyped' /\ ChildTyped' /\ LockTyped' /\ RestTyped'
BY DEF TypeOK, ExecTyped, ChildTyped, LockTyped, RestTyped, ExecRec, ChildRec, LockRec

\* What the types of the records need to know of the constants.
LEMMA Fields ==
  /\ "idle" \in Phases /\ "acquire" \in Phases /\ "start" \in Phases /\ "wait" \in Phases
  /\ "join" \in Phases /\ "reap" \in Phases /\ "term" \in Phases /\ "kill" \in Phases
  /\ "release" \in Phases /\ "done" \in Phases
  /\ "none" \in Outcomes /\ "true" \in Outcomes /\ "failed" \in Outcomes
  /\ 0 \in Nat /\ Timeout \in Nat /\ TermGrace \in Nat /\ KillGrace \in Nat
  /\ MaxDelay \in 0 .. MaxDelay /\ 0 \in 0 .. MaxDelay /\ TTL \in 0 .. TTL /\ 0 \in 0 .. TTL
BY TimeAssumption DEF Phases, Leased, Outcomes, TTL

LEMMA RecordsTyped ==
  /\ NoExec \in ExecRec /\ NoChild \in ChildRec
  /\ [owner |-> None, left |-> 0] \in LockRec
  /\ [owner |-> Lost, left |-> TTL] \in LockRec
  /\ \A c \in Executors : [owner |-> c, left |-> TTL] \in LockRec
  /\ \A k \in LockRec : [k EXCEPT !.owner = Lost] \in LockRec
  /\ \A k \in ChildRec : [k EXCEPT !.kids = FALSE] \in ChildRec
  /\ \A k \in ChildRec : [k EXCEPT !.ready = FALSE] \in ChildRec
  /\ [NoChild EXCEPT !.state = "starting"] \in ChildRec
BY Fields DEF NoExec, NoChild, ExecRec, ChildRec, LockRec

LEMMA BudgetNat ==
  /\ TTL \in Nat /\ \A p \in Phases : RestOf(p) \in Nat
  /\ TTL > MaxDelay + RestOf("start")
BY TimeAssumption DEF TTL, RestOf

\* What an executor does to its own execution, its child and its lock does
\* not touch the other executions.
LEMMA OthersHold ==
  ASSUME RuleInv, NEW c \in Executors, NEW d \in Executors, d # c,
         exec'[d] = exec[d], child'[d] = child[d],
         \A r \in Rules : lock'[r] = lock[r] \/ lock[r].owner \in {None, c}
  PROVE  LeaseHeld(d)' /\ ChildHeld(d)'
<1>1. LeaseHeld(d) /\ ChildHeld(d)
  BY DEF RuleInv
<1>2. Active(d) => lock'[exec[d].rule] = lock[exec[d].rule]
  <2>1. None \notin Executors
    BY ExecutorAssumption DEF Executors
  <2>2. SUFFICES ASSUME Active(d) PROVE lock'[exec[d].rule] = lock[exec[d].rule]
    OBVIOUS
  <2>3. exec[d].rule \in Rules /\ lock[exec[d].rule].owner = d
    BY <1>1, <2>2 DEF LeaseHeld, Active, Leased
  <2> QED
    BY <2>1, <2>3
<1> QED
  BY <1>1, <1>2 DEF LeaseHeld, ChildHeld, Active, Alive

\* The executor that takes a step, in the terms of the steps themselves.
LEMMA StepHolds ==
  ASSUME RuleInv, TypeOK', NEW c \in Executors, LeaseHeld(c)', ChildHeld(c)',
         \A d \in Executors \ {c} : exec'[d] = exec[d] /\ child'[d] = child[d],
         \A r \in Rules : lock'[r] = lock[r] \/ lock[r].owner \in {None, c}
  PROVE  RuleInv'
<1>1. ASSUME NEW d \in Executors, d # c PROVE LeaseHeld(d)' /\ ChildHeld(d)'
  BY <1>1, OthersHold
<1> QED
  BY <1>1 DEF RuleInv
\* What every action of an executor or a child leaves alone.
StepOf(c) ==
  /\ \A d \in Executors \ {c} : exec'[d] = exec[d] /\ child'[d] = child[d]
  /\ \A r \in Rules : lock'[r] = lock[r] \/ lock[r].owner \in {None, c}

LEMMA ExecKeeps ==
  ASSUME RuleInv, NEW c \in Executors, ExecStep(c)
  PROVE  RuleInv'
<1>1. SUFFICES TypeOK' /\ LeaseHeld(c)' /\ ChildHeld(c)' /\ StepOf(c)
  BY StepHolds DEF StepOf
<1>2. TypeOK /\ LeaseHeld(c) /\ ChildHeld(c)
  BY DEF RuleInv
<1>3. ExecTyped /\ ChildTyped /\ LockTyped /\ RestTyped
  BY <1>2, TypesApart
<1>4. /\ exec[c] \in ExecRec /\ child[c] \in ChildRec
      /\ child[c].group \in BOOLEAN /\ child[c].payload \in Outcomes
      /\ GroupKnown(c) \in BOOLEAN
      /\ exec[c].phase # "idle" => exec[c].rule \in Rules
  BY <1>2, <1>3 DEF LeaseHeld, ExecTyped, ChildTyped, ChildRec, GroupKnown, ExecRec
<1>5. CASE Acquire(c)
  <2>1. /\ [exec[c] EXCEPT !.phase = "start", !.slack = MaxDelay] \in ExecRec
        /\ [exec[c] EXCEPT !.phase = "done", !.outcome = "failed"] \in ExecRec
    BY <1>4, Fields DEF ExecRec
  <2>2. ExecTyped'
    BY <1>3, <1>5, <2>1 DEF Acquire, ExecTyped, Enter
  <2>3. ChildTyped' /\ LockTyped'
    BY <1>3, <1>4, <1>5, RecordsTyped DEF Acquire, ChildTyped, LockTyped, SignalGroup
  <2>4. RestTyped'
    BY <1>3, <1>4, <1>5 DEF Acquire, RestTyped, dbVars, ExecRec
  <2>5. LeaseHeld(c)'
    BY <1>2, <1>5, BudgetNat, TimeAssumption DEF Acquire, TypeOK, LeaseHeld, Active, Phases, Leased, Outcomes, Enter, RestOf, NoExec
  <2>6. ChildHeld(c)'
    BY <1>2, <1>5 DEF Acquire, TypeOK, ChildHeld, Alive, Phases, Leased, Outcomes, Enter, SignalGroup, GroupKnown, NoChild
  <2>7. StepOf(c)
    BY <1>2, <1>5 DEF Acquire, TypeOK, StepOf, Enter, SignalGroup
  <2> QED
    BY <2>2, <2>3, <2>4, <2>5, <2>6, <2>7, TypesApartNext
<1>6. CASE AcquireFails(c)
  <2>1. [exec[c] EXCEPT !.phase = "done", !.outcome = "failed"] \in ExecRec
    BY <1>4, Fields DEF ExecRec
  <2>2. ExecTyped'
    BY <1>3, <1>6, <2>1 DEF AcquireFails, ExecTyped, Enter
  <2>3. ChildTyped' /\ LockTyped'
    BY <1>3, <1>4, <1>6, RecordsTyped DEF AcquireFails, ChildTyped, LockTyped, SignalGroup
  <2>4. RestTyped'
    BY <1>3, <1>4, <1>6 DEF AcquireFails, RestTyped, dbVars, ExecRec
  <2>5. LeaseHeld(c)'
    BY <1>2, <1>6, BudgetNat, TimeAssumption DEF AcquireFails, TypeOK, LeaseHeld, Active, Phases, Leased, Outcomes, Enter, RestOf, NoExec
  <2>6. ChildHeld(c)'
    BY <1>2, <1>6 DEF AcquireFails, TypeOK, ChildHeld, Alive, Phases, Leased, Outcomes, Enter, SignalGroup, GroupKnown, NoChild
  <2>7. StepOf(c)
    BY <1>2, <1>6 DEF AcquireFails, TypeOK, StepOf, Enter, SignalGroup
  <2> QED
    BY <2>2, <2>3, <2>4, <2>5, <2>6, <2>7, TypesApartNext
<1>7. CASE Spawn(c)
  <2>1. [exec[c] EXCEPT !.phase = "wait", !.left = Timeout] \in ExecRec
    BY <1>4, Fields DEF ExecRec
  <2>2. ExecTyped'
    BY <1>3, <1>7, <2>1 DEF Spawn, ExecTyped, Enter
  <2>3. ChildTyped' /\ LockTyped'
    BY <1>3, <1>4, <1>7, RecordsTyped DEF Spawn, ChildTyped, LockTyped, SignalGroup
  <2>4. RestTyped'
    BY <1>3, <1>4, <1>7 DEF Spawn, RestTyped, dbVars, ExecRec
  <2>5. LeaseHeld(c)'
    BY <1>2, <1>7, BudgetNat, TimeAssumption DEF Spawn, TypeOK, LeaseHeld, Active, Phases, Leased, Outcomes, Enter, RestOf, NoExec
  <2>6. ChildHeld(c)'
    BY <1>2, <1>7 DEF Spawn, TypeOK, ChildHeld, Alive, Phases, Leased, Outcomes, Enter, SignalGroup, GroupKnown, NoChild
  <2>7. StepOf(c)
    BY <1>2, <1>7 DEF Spawn, TypeOK, StepOf, Enter, SignalGroup
  <2> QED
    BY <2>2, <2>3, <2>4, <2>5, <2>6, <2>7, TypesApartNext
<1>8. CASE ReadReady(c)
  <2>1. [exec[c] EXCEPT !.group = child[c].group] \in ExecRec
    BY <1>4, Fields DEF ExecRec
  <2>2. ExecTyped'
    BY <1>3, <1>8, <2>1 DEF ReadReady, ExecTyped, Enter
  <2>3. ChildTyped' /\ LockTyped'
    BY <1>3, <1>4, <1>8, RecordsTyped DEF ReadReady, ChildTyped, LockTyped, SignalGroup
  <2>4. RestTyped'
    BY <1>3, <1>4, <1>8 DEF ReadReady, RestTyped, dbVars, ExecRec
  <2>5. LeaseHeld(c)'
    BY <1>2, <1>8, BudgetNat, TimeAssumption DEF ReadReady, TypeOK, LeaseHeld, Active, Phases, Leased, Outcomes, Enter, RestOf, NoExec
  <2>6. ChildHeld(c)'
    BY <1>2, <1>8 DEF ReadReady, TypeOK, ChildHeld, Alive, Phases, Leased, Outcomes, Enter, SignalGroup, GroupKnown, NoChild
  <2>7. StepOf(c)
    BY <1>2, <1>8 DEF ReadReady, TypeOK, StepOf, Enter, SignalGroup
  <2> QED
    BY <2>2, <2>3, <2>4, <2>5, <2>6, <2>7, TypesApartNext
<1>9. CASE ReadResult(c)
  <2>1. [exec[c] EXCEPT !.phase = "join"] \in ExecRec
    BY <1>4, Fields DEF ExecRec
  <2>2. ExecTyped'
    BY <1>3, <1>9, <2>1 DEF ReadResult, ExecTyped, Enter
  <2>3. ChildTyped' /\ LockTyped'
    BY <1>3, <1>4, <1>9, RecordsTyped DEF ReadResult, ChildTyped, LockTyped, SignalGroup
  <2>4. RestTyped'
    BY <1>3, <1>4, <1>9 DEF ReadResult, RestTyped, dbVars, ExecRec
  <2>5. LeaseHeld(c)'
    BY <1>2, <1>9, BudgetNat, TimeAssumption DEF ReadResult, TypeOK, LeaseHeld, Active, Phases, Leased, Outcomes, Enter, RestOf, NoExec
  <2>6. ChildHeld(c)'
    BY <1>2, <1>9 DEF ReadResult, TypeOK, ChildHeld, Alive, Phases, Leased, Outcomes, Enter, SignalGroup, GroupKnown, NoChild
  <2>7. StepOf(c)
    BY <1>2, <1>9 DEF ReadResult, TypeOK, StepOf, Enter, SignalGroup
  <2> QED
    BY <2>2, <2>3, <2>4, <2>5, <2>6, <2>7, TypesApartNext
<1>10. CASE ReadEnd(c)
  <2>1. [exec[c] EXCEPT !.phase = "reap", !.outcome = "failed"] \in ExecRec
    BY <1>4, Fields DEF ExecRec
  <2>2. ExecTyped'
    BY <1>3, <1>10, <2>1 DEF ReadEnd, ExecTyped, Enter
  <2>3. ChildTyped' /\ LockTyped'
    BY <1>3, <1>4, <1>10, RecordsTyped DEF ReadEnd, ChildTyped, LockTyped, SignalGroup
  <2>4. RestTyped'
    BY <1>3, <1>4, <1>10 DEF ReadEnd, RestTyped, dbVars, ExecRec
  <2>5. LeaseHeld(c)'
    BY <1>2, <1>10, BudgetNat, TimeAssumption DEF ReadEnd, TypeOK, LeaseHeld, Active, Phases, Leased, Outcomes, Enter, RestOf, NoExec
  <2>6. ChildHeld(c)'
    BY <1>2, <1>10 DEF ReadEnd, TypeOK, ChildHeld, Alive, Phases, Leased, Outcomes, Enter, SignalGroup, GroupKnown, NoChild
  <2>7. StepOf(c)
    BY <1>2, <1>10 DEF ReadEnd, TypeOK, StepOf, Enter, SignalGroup
  <2> QED
    BY <2>2, <2>3, <2>4, <2>5, <2>6, <2>7, TypesApartNext
<1>11. CASE Joined(c)
  <2>1. [exec[c] EXCEPT !.phase = "reap", !.outcome = child[c].payload] \in ExecRec
    BY <1>4, Fields DEF ExecRec
  <2>2. ExecTyped'
    BY <1>3, <1>11, <2>1 DEF Joined, ExecTyped, Enter
  <2>3. ChildTyped' /\ LockTyped'
    BY <1>3, <1>4, <1>11, RecordsTyped DEF Joined, ChildTyped, LockTyped, SignalGroup
  <2>4. RestTyped'
    BY <1>3, <1>4, <1>11 DEF Joined, RestTyped, dbVars, ExecRec
  <2>5. LeaseHeld(c)'
    BY <1>2, <1>11, BudgetNat, TimeAssumption DEF Joined, TypeOK, LeaseHeld, Active, Phases, Leased, Outcomes, Enter, RestOf, NoExec
  <2>6. ChildHeld(c)'
    BY <1>2, <1>11 DEF Joined, TypeOK, ChildHeld, Alive, Phases, Leased, Outcomes, Enter, SignalGroup, GroupKnown, NoChild
  <2>7. StepOf(c)
    BY <1>2, <1>11 DEF Joined, TypeOK, StepOf, Enter, SignalGroup
  <2> QED
    BY <2>2, <2>3, <2>4, <2>5, <2>6, <2>7, TypesApartNext
<1>12. CASE Expire(c)
  <2>1. [exec[c] EXCEPT !.phase = "term", !.left = TermGrace, !.outcome = "failed", !.group = GroupKnown(c)] \in ExecRec
    BY <1>4, Fields DEF ExecRec
  <2>2. ExecTyped'
    BY <1>3, <1>12, <2>1 DEF Expire, ExecTyped, Enter
  <2>3. ChildTyped' /\ LockTyped'
    BY <1>3, <1>4, <1>12, RecordsTyped DEF Expire, ChildTyped, LockTyped, SignalGroup
  <2>4. RestTyped'
    BY <1>3, <1>4, <1>12 DEF Expire, RestTyped, dbVars, ExecRec
  <2>5. LeaseHeld(c)'
    BY <1>2, <1>12, BudgetNat, TimeAssumption DEF Expire, TypeOK, LeaseHeld, Active, Phases, Leased, Outcomes, Enter, RestOf, NoExec
  <2>6. ChildHeld(c)'
    BY <1>2, <1>12 DEF Expire, TypeOK, ChildHeld, Alive, Phases, Leased, Outcomes, Enter, SignalGroup, GroupKnown, NoChild
  <2>7. StepOf(c)
    BY <1>2, <1>12 DEF Expire, TypeOK, StepOf, Enter, SignalGroup
  <2> QED
    BY <2>2, <2>3, <2>4, <2>5, <2>6, <2>7, TypesApartNext
<1>13. CASE Reap(c)
  <2>1. [exec[c] EXCEPT !.phase = "release"] \in ExecRec
    BY <1>4, Fields DEF ExecRec
  <2>2. ExecTyped'
    BY <1>3, <1>13, <2>1 DEF Reap, ExecTyped, Enter
  <2>3. ChildTyped' /\ LockTyped'
    BY <1>3, <1>4, <1>13, RecordsTyped DEF Reap, ChildTyped, LockTyped, SignalGroup
  <2>4. RestTyped'
    BY <1>3, <1>4, <1>13 DEF Reap, RestTyped, dbVars, ExecRec
  <2>5. LeaseHeld(c)'
    BY <1>2, <1>13, BudgetNat, TimeAssumption DEF Reap, TypeOK, LeaseHeld, Active, Phases, Leased, Outcomes, Enter, RestOf, NoExec
  <2>6. ChildHeld(c)'
    BY <1>2, <1>13 DEF Reap, TypeOK, ChildHeld, Alive, Phases, Leased, Outcomes, Enter, SignalGroup, GroupKnown, NoChild
  <2>7. StepOf(c)
    BY <1>2, <1>13 DEF Reap, TypeOK, StepOf, Enter, SignalGroup
  <2> QED
    BY <2>2, <2>3, <2>4, <2>5, <2>6, <2>7, TypesApartNext
<1>14. CASE Kill(c)
  <2>1. [exec[c] EXCEPT !.phase = "kill", !.left = KillGrace] \in ExecRec
    BY <1>4, Fields DEF ExecRec
  <2>2. ExecTyped'
    BY <1>3, <1>14, <2>1 DEF Kill, ExecTyped, Enter
  <2>3. ChildTyped' /\ LockTyped'
    BY <1>3, <1>4, <1>14, RecordsTyped DEF Kill, ChildTyped, LockTyped, SignalGroup
  <2>4. RestTyped'
    BY <1>3, <1>4, <1>14 DEF Kill, RestTyped, dbVars, ExecRec
  <2>5. LeaseHeld(c)'
    BY <1>2, <1>14, BudgetNat, TimeAssumption DEF Kill, TypeOK, LeaseHeld, Active, Phases, Leased, Outcomes, Enter, RestOf, NoExec
  <2>6. ChildHeld(c)'
    BY <1>2, <1>14 DEF Kill, TypeOK, ChildHeld, Alive, Phases, Leased, Outcomes, Enter, SignalGroup, GroupKnown, NoChild
  <2>7. StepOf(c)
    BY <1>2, <1>14 DEF Kill, TypeOK, StepOf, Enter, SignalGroup
  <2> QED
    BY <2>2, <2>3, <2>4, <2>5, <2>6, <2>7, TypesApartNext
<1>15. CASE Killed(c)
  <2>1. /\ [exec[c] EXCEPT !.phase = "release"] \in ExecRec
        /\ [exec[c] EXCEPT !.phase = "release", !.outcome = "failed"] \in ExecRec
    BY <1>4, Fields DEF ExecRec
  <2>2. ExecTyped'
    BY <1>3, <1>15, <2>1 DEF Killed, ExecTyped, Enter
  <2>3. ChildTyped' /\ LockTyped'
    BY <1>3, <1>4, <1>15, RecordsTyped DEF Killed, ChildTyped, LockTyped, SignalGroup
  <2>4. RestTyped'
    BY <1>3, <1>4, <1>15 DEF Killed, RestTyped, dbVars, ExecRec
  <2>5. LeaseHeld(c)'
    BY <1>2, <1>15, BudgetNat, TimeAssumption DEF Killed, TypeOK, LeaseHeld, Active, Phases, Leased, Outcomes, Enter, RestOf, NoExec
  <2>6. ChildHeld(c)'
    BY <1>2, <1>15 DEF Killed, TypeOK, ChildHeld, Alive, Phases, Leased, Outcomes, Enter, SignalGroup, GroupKnown, NoChild
  <2>7. StepOf(c)
    BY <1>2, <1>15 DEF Killed, TypeOK, StepOf, Enter, SignalGroup
  <2> QED
    BY <2>2, <2>3, <2>4, <2>5, <2>6, <2>7, TypesApartNext
<1>16. CASE Release(c)
  <2>1. /\ [exec[c] EXCEPT !.phase = "done", !.slack = 0, !.left = 0, !.outcome = "failed"] \in ExecRec
        /\ [exec[c] EXCEPT !.phase = "done", !.slack = 0, !.left = 0, !.outcome = IF lock[exec[c].rule].owner = c THEN @ ELSE "failed"] \in ExecRec
    BY <1>4, Fields DEF ExecRec
  <2>2. ExecTyped'
    BY <1>3, <1>16, <2>1 DEF Release, ExecTyped, Enter
  <2>3. ChildTyped' /\ LockTyped'
    BY <1>3, <1>4, <1>16, RecordsTyped DEF Release, ChildTyped, LockTyped, SignalGroup
  <2>4. RestTyped'
    BY <1>3, <1>4, <1>16 DEF Release, RestTyped, dbVars, ExecRec
  <2>5. LeaseHeld(c)'
    BY <1>2, <1>16, BudgetNat, TimeAssumption DEF Release, TypeOK, LeaseHeld, Active, Phases, Leased, Outcomes, Enter, RestOf, NoExec
  <2>6. ChildHeld(c)'
    BY <1>2, <1>16 DEF Release, TypeOK, ChildHeld, Alive, Phases, Leased, Outcomes, Enter, SignalGroup, GroupKnown, NoChild
  <2>7. StepOf(c)
    BY <1>2, <1>16 DEF Release, TypeOK, StepOf, Enter, SignalGroup
  <2> QED
    BY <2>2, <2>3, <2>4, <2>5, <2>6, <2>7, TypesApartNext
<1> QED
  BY <1>5, <1>6, <1>7, <1>8, <1>9, <1>10, <1>11, <1>12, <1>13, <1>14, <1>15, <1>16 DEF ExecStep

LEMMA ChildKeeps ==
  ASSUME RuleInv, NEW c \in Executors, ChildStep(c)
  PROVE  RuleInv'
<1>1. SUFFICES TypeOK' /\ LeaseHeld(c)' /\ ChildHeld(c)' /\ StepOf(c)
  BY StepHolds DEF StepOf
<1>2. TypeOK /\ LeaseHeld(c) /\ ChildHeld(c)
  BY DEF RuleInv
<1>3. ExecTyped /\ ChildTyped /\ LockTyped /\ RestTyped
  BY <1>2, TypesApart
<1>4. child[c] \in ChildRec
  BY <1>3 DEF ChildTyped
<1>5. ASSUME NEW g \in BOOLEAN, NEW p \in Outcomes
      PROVE  /\ [child[c] EXCEPT !.state = "ready", !.group = g, !.ready = TRUE] \in ChildRec
             /\ [child[c] EXCEPT !.state = "script"] \in ChildRec
             /\ [child[c] EXCEPT !.state = "sent", !.payload = p] \in ChildRec
             /\ [child[c] EXCEPT !.kids = TRUE] \in ChildRec
             /\ [child[c] EXCEPT !.state = "exited"] \in ChildRec
  BY <1>4 DEF ChildRec
<1>6. ChildTyped'
  <2>1. CASE ChildReady(c)
    BY <1>3, <1>5, <2>1, Fields DEF ChildReady, ChildTyped
  <2>2. CASE ChildLoads(c)
    BY <1>3, <1>5, <2>2, Fields DEF ChildLoads, ChildTyped
  <2>3. CASE ScriptForks(c)
    BY <1>3, <1>5, <2>3, Fields DEF ScriptForks, ChildTyped
  <2>4. CASE ScriptEnds(c)
    <3>1. PICK p \in {"true", "failed"} :
            child' = [child EXCEPT ![c].state = "sent", ![c].payload = p]
      BY <2>4 DEF ScriptEnds
    <3>2. p \in Outcomes
      BY Fields
    <3> QED
      BY <1>3, <1>5, <3>1, <3>2 DEF ChildTyped
  <2>5. CASE ChildEnds(c)
    BY <1>3, <1>5, <2>5, Fields DEF ChildEnds, ChildTyped
  <2> QED
    BY <2>1, <2>2, <2>3, <2>4, <2>5 DEF ChildStep
<1>7. ExecTyped' /\ LockTyped' /\ RestTyped'
  BY <1>3 DEF ChildStep, ChildReady, ChildLoads, ScriptForks, ScriptEnds, ChildEnds, ExecTyped, LockTyped, RestTyped, dbVars
<1>8. LeaseHeld(c)'
  BY <1>2 DEF ChildStep, ChildReady, ChildLoads, ScriptForks, ScriptEnds, ChildEnds, LeaseHeld, Active
<1>9. ChildHeld(c)'
  <2>1. CASE ChildReady(c)
    BY <1>2, <2>1 DEF ChildReady, TypeOK, ChildHeld, Alive, NoChild
  <2>2. CASE ChildLoads(c)
    BY <1>2, <2>2 DEF ChildLoads, TypeOK, ChildHeld, Alive, NoChild
  <2>3. CASE ScriptForks(c)
    BY <1>2, <2>3 DEF ScriptForks, TypeOK, ChildHeld, Alive, NoChild
  <2>4. CASE ScriptEnds(c)
    BY <1>2, <2>4 DEF ScriptEnds, TypeOK, ChildHeld, Alive, NoChild
  <2>5. CASE ChildEnds(c)
    BY <1>2, <2>5 DEF ChildEnds, TypeOK, ChildHeld, Alive, NoChild
  <2> QED
    BY <2>1, <2>2, <2>3, <2>4, <2>5 DEF ChildStep
<1>10. StepOf(c)
  BY <1>2 DEF ChildStep, ChildReady, ChildLoads, ScriptForks, ScriptEnds, ChildEnds, TypeOK, StepOf
<1> QED
  BY <1>6, <1>7, <1>8, <1>9, <1>10, TypesApartNext
\* A process that ends in the middle of an execution leaves its lock to Lost.
LEMMA ProcessEndsKeeps ==
  ASSUME RuleInv, NEW c \in Executors, ProcessEnds(c)
  PROVE  RuleInv'
<1>1. SUFFICES TypeOK' /\ LeaseHeld(c)' /\ ChildHeld(c)' /\ StepOf(c)
  BY StepHolds DEF StepOf
<1>2. TypeOK /\ LeaseHeld(c) /\ ChildHeld(c)
  BY DEF RuleInv
<1>3. ExecTyped /\ ChildTyped /\ LockTyped /\ RestTyped
  BY <1>2, TypesApart
<1>4. exec[c].rule \in Rules
  BY <1>2 DEF ProcessEnds, Active, Leased, LeaseHeld
<1>5. ExecTyped' /\ ChildTyped' /\ LockTyped'
  BY <1>3, RecordsTyped DEF ProcessEnds, ExecTyped, ChildTyped, LockTyped
<1>6. RestTyped'
  BY <1>3, <1>4, ExecutorAssumption DEF ProcessEnds, RestTyped, dbVars
<1>7. LeaseHeld(c)' /\ ChildHeld(c)'
  BY <1>2 DEF ProcessEnds, TypeOK, LeaseHeld, ChildHeld, Active, Leased, Alive, NoExec, NoChild
<1>8. StepOf(c)
  BY <1>2 DEF ProcessEnds, TypeOK, StepOf
<1> QED
  BY <1>5, <1>6, <1>7, <1>8, TypesApartNext

\* An execution begins, or its result is taken.
LEMMA BeginEndKeeps ==
  ASSUME RuleInv, NEW c \in Executors, RestTyped', UNCHANGED <<lock, child>>,
         \/ exec[c].phase = "idle" /\ \E r \in Rules : Begin(c, r)
         \/ exec[c].phase = "done" /\ exec' = [exec EXCEPT ![c] = NoExec]
  PROVE  RuleInv'
<1>1. SUFFICES TypeOK' /\ LeaseHeld(c)' /\ ChildHeld(c)' /\ StepOf(c)
  BY StepHolds DEF StepOf
<1>2. TypeOK /\ LeaseHeld(c) /\ ChildHeld(c)
  BY DEF RuleInv
<1>3. ExecTyped /\ ChildTyped /\ LockTyped
  BY <1>2, TypesApart
<1>4. \A r \in Rules : [NoExec EXCEPT !.phase = "acquire", !.rule = r] \in ExecRec
  BY Fields DEF NoExec, ExecRec
<1>5. ExecTyped' /\ ChildTyped' /\ LockTyped'
  BY <1>3, <1>4, RecordsTyped DEF ExecTyped, ChildTyped, LockTyped, Begin
<1>6. LeaseHeld(c)' /\ ChildHeld(c)'
  <2>1. child' = child /\ child[c] = NoChild
    BY <1>2 DEF ChildHeld
  <2>2. \/ exec'[c].phase = "acquire" /\ exec'[c].left = 0 /\ exec'[c].rule \in Rules
        \/ exec'[c].phase = "idle"
    <3>1. CASE exec[c].phase = "idle" /\ \E r \in Rules : Begin(c, r)
      <4>1. PICK r \in Rules : Begin(c, r)
        BY <3>1
      <4>2. exec'[c] = [NoExec EXCEPT !.phase = "acquire", !.rule = r]
        BY <1>3, <4>1 DEF Begin, ExecTyped
      <4> QED
        BY <4>2 DEF NoExec
    <3>2. CASE exec' = [exec EXCEPT ![c] = NoExec]
      BY <1>3, <3>2 DEF ExecTyped, NoExec
    <3> QED
      BY <3>1, <3>2
  <2> QED
    BY <2>1, <2>2 DEF LeaseHeld, ChildHeld, Active, Leased, Alive, NoChild
<1>7. StepOf(c)
  BY <1>2 DEF TypeOK, StepOf, Begin
<1> QED
  BY <1>5, <1>6, <1>7, TypesApartNext

\* Steps of which the executions know nothing.
LEMMA ElsewhereKeeps ==
  ASSUME RuleInv, RestTyped', UNCHANGED <<lock, exec, child>>
  PROVE  RuleInv'
<1>1. TypeOK'
  BY TypesApart, TypesApartNext DEF RuleInv, ExecTyped, ChildTyped, LockTyped
<1> QED
  BY <1>1 DEF RuleInv, LeaseHeld, ChildHeld, Active, Alive

\* A unit of time costs an execution as much as its lock.
LEMMA TickKeeps ==
  ASSUME RuleInv, Tick
  PROVE  RuleInv'
<1>1. TypeOK /\ ExecTyped /\ ChildTyped /\ LockTyped /\ RestTyped
  BY TypesApart DEF RuleInv
<1>2. ASSUME NEW c \in Executors
      PROVE  exec'[c] \in ExecRec /\ LeaseHeld(c)' /\ ChildHeld(c)'
  <2>1. LeaseHeld(c) /\ ChildHeld(c) /\ exec[c] \in ExecRec
    BY <1>1 DEF RuleInv, ExecTyped
  <2>2. child' = child /\ exec[c].left \in Nat /\ exec[c].slack \in 0 .. MaxDelay
    BY <2>1 DEF Tick, ExecRec
  <2>3. CASE ~Active(c)
    <3>1. exec'[c] = exec[c]
      BY <2>3 DEF Tick
    <3> QED
      BY <2>1, <2>2, <2>3, <3>1 DEF LeaseHeld, ChildHeld, Active, Alive
  <2>4. CASE Active(c)
    <3> DEFINE r == exec[c].rule
    <3>1. \/ /\ exec[c].left > 0
             /\ exec'[c] = [exec[c] EXCEPT !.left = exec[c].left - 1]
          \/ /\ exec[c].slack > 0
             /\ exec'[c] = [exec[c] EXCEPT !.slack = exec[c].slack - 1]
      BY <2>2, <2>4 DEF Tick
    <3>2. exec[c].left - 1 \in Nat \/ exec[c].left = 0
      BY <2>2
    <3>3. exec[c].slack - 1 \in 0 .. MaxDelay \/ exec[c].slack = 0
      BY <2>2, TimeAssumption
    <3>4. exec'[c] \in ExecRec
      BY <2>1, <2>2, <3>1, <3>2, <3>3 DEF ExecRec
    <3>5. /\ exec'[c].phase = exec[c].phase /\ exec'[c].rule = r
          /\ exec'[c].group = exec[c].group
          /\ exec'[c].left + exec'[c].slack = exec[c].left + exec[c].slack - 1
          /\ exec[c].left + exec[c].slack > 0
      BY <2>1, <2>2, <3>1, TimeAssumption DEF ExecRec
    <3>6. /\ r \in Rules /\ lock[r] \in LockRec /\ lock[r].left \in Nat
          /\ exec[c].phase \in Phases /\ RestOf(exec[c].phase) \in Nat
      BY <1>1, <2>1, <2>4, BudgetNat DEF LockTyped, LockRec, LeaseHeld, Active, Leased, ExecRec
    <3>7. lock[r].left > exec[c].left + exec[c].slack + RestOf(exec[c].phase)
      BY <2>1, <2>4 DEF LeaseHeld
    <3>8. lock[r].left > 1
      BY <2>2, <3>5, <3>6, <3>7, TimeAssumption
    <3>9. lock'[r] = [lock[r] EXCEPT !.left = lock[r].left - 1]
      BY <3>6, <3>8 DEF Tick
    <3>10. lock'[r].owner = lock[r].owner /\ lock'[r].left = lock[r].left - 1
      BY <3>6, <3>9 DEF LockRec
    <3>11. lock'[r].left > exec'[c].left + exec'[c].slack + RestOf(exec[c].phase)
      BY <2>2, <3>5, <3>6, <3>7, <3>10, TimeAssumption
    <3>12. LeaseHeld(c)'
      BY <2>1, <2>4, <3>5, <3>6, <3>10, <3>11 DEF LeaseHeld, Active, Leased, RestOf
    <3>13. ChildHeld(c)'
      BY <2>1, <2>2, <3>5 DEF ChildHeld, Alive
    <3> QED
      BY <3>4, <3>12, <3>13
  <2> QED
    BY <2>3, <2>4
<1>3. ExecTyped'
  BY <1>2 DEF ExecTyped, Tick
<1>4. LockTyped'
  <2>1. ASSUME NEW r \in Rules PROVE lock'[r] \in LockRec
    <3>1. lock[r] \in LockRec /\ lock[r].left \in 0 .. TTL
      BY <1>1 DEF LockTyped, LockRec
    <3>2. CASE lock[r].left > 1
      <4>1. lock[r].left - 1 \in 0 .. TTL
        BY <3>1, <3>2, BudgetNat
      <4>2. lock'[r] = [lock[r] EXCEPT !.left = lock[r].left - 1]
        BY <3>1, <3>2, BudgetNat DEF Tick
      <4> QED
        BY <3>1, <4>1, <4>2 DEF LockRec
    <3>3. CASE ~(lock[r].left > 1)
      BY <3>1, <3>3, RecordsTyped DEF Tick
    <3> QED
      BY <3>2, <3>3
  <2> QED
    BY <2>1 DEF LockTyped, Tick
<1>5. ChildTyped' /\ RestTyped'
  BY <1>1 DEF ChildTyped, RestTyped, Tick, dbVars
<1> QED
  BY <1>2, <1>3, <1>4, <1>5, TypesApartNext DEF RuleInv

(* The lock of a rule outlives what its execution may still wait for, and  *)
(* a child is in the state that the phase of its execution says            *)
(* (executor.py: _acquire_execution_lease, _execute_rule_process).         *)
THEOREM RuleExecutionInvariant == Spec => []RuleInv
<1>1. Init => RuleInv
  <2> SUFFICES ASSUME Init PROVE RuleInv
    OBVIOUS
  <2>1. ExecTyped /\ ChildTyped /\ LockTyped
    BY RecordsTyped DEF Init, ExecTyped, ChildTyped, LockTyped
  <2>2. RestTyped
    BY ExecutorAssumption DEF Init, RestTyped, Rows
  <2> QED
    BY <2>1, <2>2, TypesApart
    DEF Init, RuleInv, LeaseHeld, ChildHeld, Active, Leased, Alive, NoExec, NoChild
<1>2. RuleInv /\ [Next]_vars => RuleInv'
  <2> SUFFICES ASSUME RuleInv, [Next]_vars PROVE RuleInv'
    OBVIOUS
  <2>1. RestTyped /\ ExecTyped /\ Scheduler \in Executors /\ Requests \subseteq Executors
    BY TypesApart DEF RuleInv, Executors
  <2>2. CASE PassStep
    <3>1. CASE ListRules
      BY <2>1, <3>1, ElsewhereKeeps DEF ListRules, RestTyped, dbVars
    <3>2. ASSUME NEW r \in Rules, StopDisabled(r) PROVE RuleInv'
      BY <2>1, <3>2, ElsewhereKeeps DEF StopDisabled, RestTyped, Rows
    <3>3. ASSUME NEW r \in Rules, RunRule(r) PROVE RuleInv'
      <4>1. RestTyped'
        BY <2>1, <3>3 DEF RunRule, RestTyped
      <4> QED
        BY <2>1, <3>3, <4>1, ElsewhereKeeps, BeginEndKeeps DEF RunRule
    <3>4. CASE RuleDone
      <4>1. RestTyped'
        BY <2>1, <3>4 DEF RuleDone, RestTyped, Rows
      <4> QED
        BY <2>1, <3>4, <4>1, BeginEndKeeps DEF RuleDone
    <3> QED
      BY <2>2, <3>1, <3>2, <3>3, <3>4 DEF PassStep
  <2>3. CASE Tick
    BY <2>3, TickKeeps
  <2>4. ASSUME NEW r \in Rules, OperatorStep(r) \/ Elapse(r) \/ StrayEnds(r) PROVE RuleInv'
    <3>1. RestTyped' /\ UNCHANGED <<lock, exec, child>>
      BY <2>1, <2>4 DEF OperatorStep, Launch, Stop, Destroy, Elapse, StrayEnds, RestTyped, Rows, dbVars
    <3> QED
      BY <3>1, ElsewhereKeeps
  <2>5. ASSUME NEW q \in Requests, Answer(q) \/ \E r \in Rules : Execute(q, r) PROVE RuleInv'
    <3>1. RestTyped' /\ UNCHANGED <<lock, child>>
      BY <2>1, <2>5 DEF Answer, Execute, RestTyped, dbVars
    <3>2. \/ exec[q].phase = "idle" /\ \E r \in Rules : Begin(q, r)
          \/ exec[q].phase = "done" /\ exec' = [exec EXCEPT ![q] = NoExec]
      BY <2>5 DEF Answer, Execute
    <3> QED
      BY <2>1, <3>1, <3>2, BeginEndKeeps
  <2>6. ASSUME NEW c \in Executors, ExecStep(c) \/ ChildStep(c) \/ ProcessEnds(c) PROVE RuleInv'
    BY <2>6, ExecKeeps, ChildKeeps, ProcessEndsKeeps
  <2>7. CASE UNCHANGED vars
    BY <2>1, <2>7, ElsewhereKeeps DEF vars, dbVars, RestTyped
  <2> QED
    BY <2>2, <2>3, <2>4, <2>5, <2>6, <2>7 DEF Next
<1> QED
  BY <1>1, <1>2, PTL DEF Spec

(* Two executions of one rule never overlap: whoever has a child owns the  *)
(* lock (executor.py: _acquire_execution_lease).                           *)
THEOREM RuleSingleFlight == Spec => []SingleFlight
<1>1. RuleInv => SingleFlight
  <2> SUFFICES ASSUME RuleInv, NEW c \in Executors, NEW d \in Executors,
                      c # d, exec[c].rule = exec[d].rule,
                      Alive(c) \/ child[c].kids, Alive(d) \/ child[d].kids
               PROVE  FALSE
    BY DEF SingleFlight
  <2>1. ASSUME NEW e \in Executors, Alive(e) \/ child[e].kids
        PROVE  lock[exec[e].rule].owner = e
    <3>1. LeaseHeld(e) /\ ChildHeld(e) /\ exec[e].phase \in Phases
      BY TypesApart DEF RuleInv, ExecTyped, ExecRec
    <3>2. child[e] # NoChild
      BY <2>1 DEF Alive, NoChild
    <3> QED
      BY <3>1, <3>2 DEF LeaseHeld, ChildHeld, Active, Phases
  <2> QED
    BY <2>1
<1> QED
  BY <1>1, RuleExecutionInvariant, PTL

(* Nothing of an execution runs any more when its lock is given back       *)
(* (executor.py: _terminate_kill_join).                                    *)
THEOREM RuleCleanedBeforeRelease == Spec => []CleanedBeforeRelease
<1>1. RuleInv => CleanedBeforeRelease
  <2> SUFFICES ASSUME RuleInv, NEW c \in Executors,
                      exec[c].phase \notin {"wait", "join", "reap", "term", "kill"}
               PROVE  ~Alive(c) /\ (child[c].kids => ~child[c].group)
    BY DEF CleanedBeforeRelease
  <2>1. ChildHeld(c) /\ exec[c].phase \in Phases
    BY TypesApart DEF RuleInv, ExecTyped, ExecRec
  <2> QED
    BY <2>1 DEF ChildHeld, Phases, Leased, Alive, NoChild
<1> QED
  BY <1>1, RuleExecutionInvariant, PTL
-----------------------------------------------------------------------------
(* Reports.  What a receiver is about to acknowledge has found its place.  *)

RecvRec ==
  [phase : {"idle", "handle", "store", "resolve", "dead", "ack"},
   msg : IbMsgs \cup {0}, ts : 0 .. IbMaxClock]

PlaceFound(c) ==
  /\ ibRecv[c].phase # "idle" => ibRecv[c].msg \in IbMsgs
  /\ ibRecv[c].phase = "resolve" => ibStored[ibRecv[c].msg] > 0
  /\ ibRecv[c].phase = "ack" =>
       ibRecv[c].msg \in ibDead \/ ibStored[ibRecv[c].msg] > 0

InboundInv ==
  /\ IbTypeOK /\ NoInboundLost /\ ResolvedIsStored
  /\ \A c \in IbReceivers : PlaceFound(c)

LEMMA UpdateTyped ==
  ASSUME NEW seen \in 0 .. IbMaxClock + IbSkew + 1, NEW ts \in 0 .. IbMaxClock,
         NEW now \in 0 .. IbMaxClock
  PROVE  /\ UpdateLastSeen(seen, ts, now) \in 0 .. IbMaxClock + IbSkew + 1
         /\ UpdateHeartbeat(seen, ts, now) \in 0 .. IbMaxClock + IbSkew + 1
         /\ UpdateLastSeen(seen, ts, now) >= seen \/ seen > now + IbSkew
         /\ UpdateHeartbeat(seen, ts, now) >= seen \/ seen > now + IbSkew
BY InboundAssumption DEF UpdateLastSeen, UpdateHeartbeat

\* A row and its heartbeat.
LEMMA SaveKeeps ==
  ASSUME InboundInv, NEW c \in IbReceivers, ibRecv[c].phase = "store",
         NEW e \in IbEntities, NEW seen \in 0 .. IbMaxClock + IbSkew + 1,
         NEW next \in {"ack", "resolve"}, Save(c, e, seen, next)
  PROVE  InboundInv'
<1> DEFINE m == ibRecv[c].msg
<1>1. IbTypeOK /\ m \in IbMsgs /\ ibStored[m] \in 0 .. IbMaxCopies
  BY DEF InboundInv, PlaceFound, IbTypeOK
<1>2. ibStored' = [ibStored EXCEPT ![m] = ibStored[m] + 1] /\ ibStored[m] + 1 \in 0 .. IbMaxCopies
  BY <1>1, InboundAssumption DEF Save
<1>3. \A k \in IbMsgs : ibStored[k] > 0 => ibStored'[k] > 0
  BY <1>1, <1>2 DEF IbTypeOK
<1>4. ibStored'[m] > 0
  BY <1>1, <1>2 DEF IbTypeOK
<1>5. ibRecv' \in [IbReceivers -> RecvRec]
  <2>1. [ibRecv[c] EXCEPT !.phase = next] \in RecvRec
    BY <1>1 DEF IbTypeOK, RecvRec
  <2>2. ibRecv \in [IbReceivers -> RecvRec]
    BY <1>1 DEF IbTypeOK, RecvRec
  <2> QED
    BY <2>1, <2>2 DEF Save, Goto
<1>6. IbTypeOK'
  BY <1>1, <1>2, <1>5 DEF IbTypeOK, RecvRec, Save
<1>7. NoInboundLost' /\ ResolvedIsStored'
  BY <1>1, <1>3 DEF InboundInv, NoInboundLost, ResolvedIsStored, Save, IbTypeOK
<1>8. ASSUME NEW d \in IbReceivers PROVE PlaceFound(d)'
  BY <1>1, <1>3, <1>4 DEF InboundInv, PlaceFound, Save, Goto, IbTypeOK
<1> QED
  BY <1>6, <1>7, <1>8 DEF InboundInv

\* Every other step of a receiver.
LEMMA ReceiverKeeps ==
  ASSUME InboundInv, NEW c \in IbReceivers, ReceiverStep(c)
  PROVE  InboundInv'
<1>1. IbTypeOK /\ PlaceFound(c) /\ ibRecv \in [IbReceivers -> RecvRec] /\ ibRecv[c] \in RecvRec
  BY DEF InboundInv, IbTypeOK, RecvRec
<1>2. CASE Deliver(c)
  <2>1. PICK m \in IbMsgs :
          /\ ibBroker' = [ibBroker EXCEPT ![m] = "inflight"]
          /\ ibRecv' = [ibRecv EXCEPT ![c] = [IbIdle EXCEPT !.phase = "handle", !.msg = m]]
    BY <1>2 DEF Deliver
  <2>2. [IbIdle EXCEPT !.phase = "handle", !.msg = m] \in RecvRec
    <3>1. IbIdle \in RecvRec
      BY InboundAssumption DEF IbIdle, RecvRec
    <3> QED
      BY <3>1 DEF RecvRec
  <2>3. IbTypeOK'
    BY <1>1, <1>2, <2>1, <2>2 DEF Deliver, IbTypeOK, RecvRec
  <2> QED
    BY <1>1, <1>2, <2>1, <2>3
    DEF InboundInv, Deliver, IbTypeOK, IbIdle, PlaceFound, NoInboundLost, ResolvedIsStored
<1>3. CASE OnMessageFails(c)
  <2>1. [ibRecv[c] EXCEPT !.phase = "dead"] \in RecvRec
    BY <1>1 DEF RecvRec
  <2>2. IbTypeOK'
    BY <1>1, <1>3, <2>1 DEF OnMessageFails, Goto, IbTypeOK, RecvRec
  <2> QED
    BY <1>1, <1>3, <2>2
    DEF InboundInv, OnMessageFails, Goto, IbTypeOK, PlaceFound, NoInboundLost, ResolvedIsStored
<1>4. CASE ibRecv[c].phase = "handle" /\ Accept(c)
  <2>1. [ibRecv[c] EXCEPT !.phase = "store", !.ts = ibClock] \in RecvRec
    BY <1>1 DEF RecvRec, IbTypeOK
  <2>2. ibRecv' = [ibRecv EXCEPT ![c] = [ibRecv[c] EXCEPT !.phase = "store", !.ts = ibClock]]
    BY <1>1, <1>4 DEF Accept
  <2>3. IbTypeOK'
    BY <1>1, <1>4, <2>1, <2>2 DEF Accept, IbTypeOK, RecvRec
  <2> QED
    BY <1>1, <1>4, <2>2, <2>3
    DEF InboundInv, Accept, IbTypeOK, PlaceFound, NoInboundLost, ResolvedIsStored
<1>5. CASE SaveData(c) \/ SaveSensorStatus(c) \/ SaveDeviceStatus(c)
  <2>1. /\ ibRecv[c].phase = "store" /\ ibRecv[c].ts \in 0 .. IbMaxClock
        /\ ibClock \in 0 .. IbMaxClock /\ {"sensor", "device"} \subseteq IbEntities
        /\ \A e \in IbEntities : ibSeen[e] \in 0 .. IbMaxClock + IbSkew + 1
    BY <1>1, <1>5 DEF SaveData, SaveSensorStatus, SaveDeviceStatus, Stores, RecvRec,
                      IbTypeOK, IbEntities
  <2>2. /\ UpdateLastSeen(ibSeen["sensor"], ibRecv[c].ts, ibClock) \in 0 .. IbMaxClock + IbSkew + 1
        /\ UpdateHeartbeat(ibSeen["device"], ibRecv[c].ts, ibClock) \in 0 .. IbMaxClock + IbSkew + 1
    BY <2>1, UpdateTyped
  <2> QED
    BY <1>5, <2>1, <2>2, SaveKeeps DEF SaveData, SaveSensorStatus, SaveDeviceStatus
<1>6. CASE ResolveCommandAck(c)
  <2>1. [ibRecv[c] EXCEPT !.phase = "ack"] \in RecvRec /\ ibRecv[c].msg \in IbMsgs
    BY <1>1, <1>6 DEF RecvRec, ResolveCommandAck, PlaceFound
  <2>2. IbTypeOK'
    BY <1>1, <1>6, <2>1 DEF ResolveCommandAck, Goto, IbTypeOK, RecvRec
  <2> QED
    BY <1>1, <1>6, <2>2
    DEF InboundInv, ResolveCommandAck, Goto, IbTypeOK, PlaceFound, NoInboundLost, ResolvedIsStored
<1>7. CASE DeadLetter(c)
  <2>1. /\ [ibRecv[c] EXCEPT !.phase = "ack"] \in RecvRec /\ IbIdle \in RecvRec
        /\ ibRecv[c].msg \in IbMsgs
    BY <1>1, <1>7, InboundAssumption DEF RecvRec, IbIdle, DeadLetter, PlaceFound
  <2>2. ibRecv' \in [IbReceivers -> RecvRec]
    BY <1>1, <1>7, <2>1 DEF DeadLetter, Goto
  <2>3. ibDead \subseteq ibDead' /\ ibDead' \subseteq IbMsgs
    BY <1>1, <1>7, <2>1 DEF DeadLetter, IbTypeOK
  <2>4. IbTypeOK'
    BY <1>1, <1>7, <2>2, <2>3 DEF DeadLetter, IbTypeOK, RecvRec
  <2>5. NoInboundLost' /\ ResolvedIsStored'
    BY <1>7, <2>3 DEF InboundInv, DeadLetter, NoInboundLost, ResolvedIsStored
  <2>6. ASSUME NEW d \in IbReceivers PROVE PlaceFound(d)'
    BY <1>1, <1>7, <2>1, <2>3 DEF InboundInv, DeadLetter, Goto, IbTypeOK, IbIdle, PlaceFound
  <2> QED
    BY <2>4, <2>5, <2>6 DEF InboundInv
<1>8. CASE AckInbound(c)
  <2>1. IbIdle \in RecvRec /\ ibRecv[c].msg \in IbMsgs
    BY <1>1, <1>8, InboundAssumption DEF RecvRec, IbIdle, AckInbound, PlaceFound
  <2>2. IbTypeOK'
    BY <1>1, <1>8, <2>1 DEF AckInbound, IbTypeOK, RecvRec
  <2> QED
    BY <1>1, <1>8, <2>1, <2>2
    DEF InboundInv, AckInbound, IbTypeOK, IbIdle, PlaceFound, NoInboundLost, ResolvedIsStored
<1> QED
  BY <1>2, <1>3, <1>4, <1>5, <1>6, <1>7, <1>8
  DEF ReceiverStep, HandleData, HandleSensorStatus, HandleDeviceStatus, Handles

(* A receiver only reaches the step that acknowledges with a message that  *)
(* it has stored or put into the dead-letter stream (mqtt_service.py:      *)
(* _on_message).                                                           *)
THEOREM InboundInvariant == IbSpec => []InboundInv
<1>1. IbInit => InboundInv
  BY InboundAssumption DEF IbInit, InboundInv, IbTypeOK, IbIdle, IbEntities, PlaceFound,
     NoInboundLost, ResolvedIsStored
<1>2. InboundInv /\ [IbNext]_ibVars => InboundInv'
  <2> SUFFICES ASSUME InboundInv, [IbNext]_ibVars PROVE InboundInv'
    OBVIOUS
  <2>1. CASE Disconnect
    BY <2>1 DEF InboundInv, Disconnect, IbTypeOK, PlaceFound, NoInboundLost, ResolvedIsStored
  <2>2. CASE IbTick
    <3>1. ibClock' \in 0 .. IbMaxClock
      BY <2>2, InboundAssumption DEF InboundInv, IbTick, IbTypeOK
    <3> QED
      BY <2>2, <3>1 DEF InboundInv, IbTick, IbTypeOK, PlaceFound, NoInboundLost, ResolvedIsStored
  <2>3. ASSUME NEW c \in IbReceivers, Connect(c) PROVE InboundInv'
    BY <2>3 DEF InboundInv, Connect, IbTypeOK, PlaceFound, NoInboundLost, ResolvedIsStored
  <2>4. ASSUME NEW c \in IbReceivers, ReceiverDies(c) PROVE InboundInv'
    <3>1. IbIdle \in RecvRec /\ ibRecv \in [IbReceivers -> RecvRec]
      BY InboundAssumption DEF IbIdle, RecvRec, InboundInv, IbTypeOK
    <3>2. IbTypeOK'
      BY <2>4, <3>1 DEF InboundInv, ReceiverDies, IbTypeOK, RecvRec
    <3> QED
      BY <2>4, <3>1, <3>2 DEF InboundInv, ReceiverDies, IbTypeOK, IbIdle, PlaceFound,
         NoInboundLost, ResolvedIsStored
  <2>5. ASSUME NEW c \in IbReceivers, ReceiverStep(c) PROVE InboundInv'
    BY <2>5, ReceiverKeeps
  <2>6. CASE UNCHANGED ibVars
    BY <2>6 DEF InboundInv, ibVars, IbTypeOK, PlaceFound, NoInboundLost, ResolvedIsStored
  <2> QED
    BY <2>1, <2>2, <2>3, <2>4, <2>5, <2>6 DEF IbNext
<1> QED
  BY <1>1, <1>2, PTL DEF IbSpec

(* No report is lost between the broker and the database, with any number  *)
(* of messages, receivers, deaths and redeliveries (mqtt_service.py:       *)
(* _on_message).                                                           *)
THEOREM InboundNothingLost == IbSpec => []NoInboundLost
BY InboundInvariant, PTL DEF InboundInv

(* A command is confirmed only by a report that is stored (the status      *)
(* handlers: on_commit).                                                   *)
THEOREM InboundResolvedIsStored == IbSpec => []ResolvedIsStored
BY InboundInvariant, PTL DEF InboundInv

(* last_seen never goes back (sensors/models.py: update_last_seen,         *)
(* devices/models.py: update_heartbeat).                                   *)
THEOREM InboundHeartbeatNeverBack == IbSpec => HeartbeatNeverBack
<1>1. InboundInv /\ [IbNext]_ibVars =>
        [\A e \in IbEntities : ibSeen'[e] >= ibSeen[e] \/ ibSeen[e] > ibClock + IbSkew]_ibVars
  <2> SUFFICES ASSUME InboundInv, IbNext, NEW e \in IbEntities
               PROVE  ibSeen'[e] >= ibSeen[e] \/ ibSeen[e] > ibClock + IbSkew
    OBVIOUS
  <2>1. /\ ibSeen \in [IbEntities -> 0 .. IbMaxClock + IbSkew + 1]
        /\ ibClock \in 0 .. IbMaxClock /\ ibSeen[e] \in Int
        /\ \A c \in IbReceivers : ibRecv[c].ts \in 0 .. IbMaxClock
    BY InboundAssumption DEF InboundInv, IbTypeOK
  <2>2. CASE ibSeen' = ibSeen
    BY <2>1, <2>2
  <2>3. ASSUME NEW c \in IbReceivers, SaveData(c) \/ SaveSensorStatus(c) \/ SaveDeviceStatus(c)
        PROVE  ibSeen'[e] >= ibSeen[e] \/ ibSeen[e] > ibClock + IbSkew
    <3>1. /\ UpdateLastSeen(ibSeen["sensor"], ibRecv[c].ts, ibClock) >= ibSeen["sensor"]
               \/ ibSeen["sensor"] > ibClock + IbSkew
          /\ UpdateHeartbeat(ibSeen["device"], ibRecv[c].ts, ibClock) >= ibSeen["device"]
               \/ ibSeen["device"] > ibClock + IbSkew
      BY <2>1, UpdateTyped DEF IbEntities
    <3> QED
      BY <2>1, <2>3, <3>1
      DEF SaveData, SaveSensorStatus, SaveDeviceStatus, Save, IbEntities
  <2> QED
    BY <2>2, <2>3
    DEF IbNext, Disconnect, IbTick, Connect, ReceiverDies, ReceiverStep, Deliver, OnMessageFails,
        HandleData, HandleSensorStatus, HandleDeviceStatus, Accept, ResolveCommandAck, DeadLetter,
        AckInbound
<1> QED
  BY <1>1, InboundInvariant, PTL DEF IbSpec, HeartbeatNeverBack
-----------------------------------------------------------------------------
(* Runs of the simulation.  A row with pid 0 belongs to a start that is    *)
(* under way, that failed, or that the end of the web UI has cut off; a    *)
(* thread finishes a run only after its process has ended.                 *)

RunHeld(r) ==
  /\ smStart[r] = "idle" => smRow[r] = "none" /\ smProc[r] = "none"
  /\ smStart[r] = "row" => smRow[r] = "pid0" /\ smProc[r] = "none"
  /\ smStart[r] = "spawned" => smRow[r] = "pid0"
  /\ smTail[r] # "off" => smStart[r] = "done"
  /\ smTail[r] = "finish" => ~SmLives(r)
  /\ SmLives(r) /\ r \notin smLost =>
       \/ smRow[r] = "pid"
       \/ smRow[r] = "pid0" /\ smStart[r] = "spawned"
  /\ smWeb.state = "down" => smStart[r] \in {"idle", "done"} /\ smTail[r] = "off"

RunsInv == SmTypeOK /\ \A r \in SmRuns : RunHeld(r)

LEMMA RunStepKeeps ==
  ASSUME RunsInv, NEW r \in SmRuns, SmRunStep(r)
  PROVE  RunsInv'
<1>1. SmTypeOK /\ RunHeld(r)
  BY DEF RunsInv
<1>2. SmTypeOK'
  BY <1>1 DEF SmRunStep, SmCreateRun, SmSpawn, SmRecordPid, SmExits, SmStopRun, SmForceKill,
     SmTailLog, SmFinish, SmTypeOK, SmEnded, SmSignalled
<1>3. RunHeld(r)'
  <2>1. CASE SmCreateRun(r)
    BY <1>1, <2>1 DEF SmCreateRun, SmTypeOK, RunHeld, SmLives
  <2>2. CASE SmSpawn(r)
    BY <1>1, <2>2 DEF SmSpawn, SmTypeOK, RunHeld, SmLives, SmRuntime
  <2>3. CASE SmRecordPid(r)
    BY <1>1, <2>3 DEF SmRecordPid, SmTypeOK, RunHeld, SmLives, SmRuntime
  <2>4. CASE SmExits(r)
    BY <1>1, <2>4 DEF SmExits, SmTypeOK, RunHeld, SmLives, SmEnded
  <2>5. CASE SmStopRun(r)
    BY <1>1, <2>5 DEF SmStopRun, SmTypeOK, RunHeld, SmLives, SmSignalled
  <2>6. CASE SmForceKill(r)
    BY <1>1, <2>6 DEF SmForceKill, SmTypeOK, RunHeld, SmLives, SmEnded, SmRuntime
  <2>7. CASE SmTailLog(r)
    BY <1>1, <2>7 DEF SmTailLog, SmTypeOK, RunHeld, SmLives, SmRuntime
  <2>8. CASE SmFinish(r)
    BY <1>1, <2>8 DEF SmFinish, SmTypeOK, RunHeld, SmLives, SmRuntime
  <2> QED
    BY <2>1, <2>2, <2>3, <2>4, <2>5, <2>6, <2>7, <2>8 DEF SmRunStep
<1>4. ASSUME NEW q \in SmRuns, q # r PROVE RunHeld(q)'
  <2>1. RunHeld(q) /\ SmTypeOK
    BY DEF RunsInv
  <2>2. /\ smStart'[q] = smStart[q] /\ smRow'[q] = smRow[q] /\ smProc'[q] = smProc[q]
        /\ smTail'[q] = smTail[q] /\ smLost' = smLost
        /\ smWeb'.state = "down" => smWeb.state = "down"
    BY <1>4, <2>1 DEF SmRunStep, SmCreateRun, SmSpawn, SmRecordPid, SmExits, SmStopRun,
       SmForceKill, SmTailLog, SmFinish, SmTypeOK
  <2> QED
    BY <2>1, <2>2 DEF RunHeld, SmLives
<1> QED
  BY <1>2, <1>3, <1>4 DEF RunsInv

LEMMA WebStepKeeps ==
  ASSUME RunsInv, SmShutdown \/ SmStopAll \/ SmGone \/ SmRecover
  PROVE  RunsInv'
<1>1. SmTypeOK
  BY DEF RunsInv
<1>2. SmTypeOK'
  <2>1. CASE SmShutdown
    BY <1>1, <2>1 DEF SmShutdown, SmTypeOK
  <2>2. CASE SmStopAll
    BY <1>1, <2>2 DEF SmStopAll, SmTypeOK, SmSignalled
  <2>3. CASE SmGone
    BY <1>1, <2>3 DEF SmGone, SmTypeOK
  <2>4. CASE SmRecover
    <3>1. smWeb.starts + 1 \in 1 .. SmMaxStarts
      BY <1>1, <2>4, SimulationAssumption DEF SmRecover, SmTypeOK
    <3> QED
      BY <1>1, <2>4, <3>1 DEF SmRecover, SmTypeOK
  <2> QED
    BY <2>1, <2>2, <2>3, <2>4
<1>3. ASSUME NEW r \in SmRuns PROVE RunHeld(r)'
  <2>1. RunHeld(r)
    BY DEF RunsInv
  <2>2. CASE SmShutdown
    BY <1>1, <2>1, <2>2 DEF SmShutdown, SmTypeOK, RunHeld, SmLives
  <2>3. CASE SmStopAll
    BY <1>1, <2>1, <2>3 DEF SmStopAll, SmTypeOK, RunHeld, SmLives, SmSignalled
  <2>4. CASE SmGone
    BY <1>1, <2>1, <2>4 DEF SmGone, SmTypeOK, RunHeld, SmLives
  <2>5. CASE SmRecover
    BY <1>1, <2>1, <2>5 DEF SmRecover, SmTypeOK, RunHeld, SmLives
  <2> QED
    BY <2>2, <2>3, <2>4, <2>5
<1> QED
  BY <1>2, <1>3 DEF RunsInv

(* Every process of the simulation is a run that is shown, for any number  *)
(* of runs and starts of the web UI (process_manager.py).                  *)
THEOREM SimulationRunIsShown == SmSpec => []RunIsShown
<1>1. SmInit => RunsInv
  BY SimulationAssumption DEF SmInit, RunsInv, SmTypeOK, RunHeld, SmLives
<1>2. RunsInv /\ [SmNext]_smVars => RunsInv'
  <2>1. ASSUME RunsInv, UNCHANGED smVars PROVE RunsInv'
    BY <2>1 DEF RunsInv, smVars, SmTypeOK, RunHeld, SmLives
  <2> QED
    BY <2>1, RunStepKeeps, WebStepKeeps DEF SmNext
<1>3. RunsInv => RunIsShown
  BY DEF RunsInv, RunHeld, RunIsShown
<1> QED
  BY <1>1, <1>2, <1>3, PTL DEF SmSpec
-----------------------------------------------------------------------------
(* Confirmations.  A token that has been executed, or is being executed,   *)
(* cannot be executed once more: its nonce is remembered, or it has        *)
(* expired, or the process that signed it is gone.                         *)

CallRec ==
  [phase : {"idle", "login", "send", "sent", "done", "refresh", "relogin"},
   op : {"preview", "execute"}, for : SUBSET McTokens, again : BOOLEAN, good : BOOLEAN]

ConfirmTyped ==
  /\ mcConfigured \in BOOLEAN /\ mcStarts \in Nat \ {0} /\ mcClock \in Nat
  /\ mcToken \in [McTokens -> [exp : Nat, by : Nat]]
  /\ mcUsed \subseteq McTokens
  /\ mcCall \in [McCalls -> CallRec]
  /\ mcDone \in [McTokens -> Nat]
  /\ \A k \in McCalls : mcCall[k].phase = "idle" => mcCall[k].for = {}

\* The calls that execute a token, and of these the ones that the platform
\* has not carried out yet.
Executes(k, t) == mcCall[k].op = "execute" /\ t \in mcCall[k].for
Pending(k, t) == Executes(k, t) /\ mcCall[k].phase # "done"

Spent(t) ==
  \/ t \in mcUsed
  \/ mcToken[t].exp < mcClock
  \/ ~mcConfigured /\ mcToken[t].by < mcStarts

TokenHeld(t) ==
  /\ mcToken[t].by <= mcStarts
  /\ mcToken[t].by = 0 => mcDone[t] = 0
  /\ \A k \in McCalls : t \in mcCall[k].for =>
       IF mcCall[k].op = "preview"
       THEN mcToken[t].by = 0 /\ \A j \in McCalls \ {k} : t \notin mcCall[j].for
       ELSE mcToken[t].by # 0

OnceHeld(t) ==
  /\ mcDone[t] <= 1
  /\ mcDone[t] > 0 \/ (\E k \in McCalls : Executes(k, t)) => Spent(t)
  /\ \A k \in McCalls : Pending(k, t) =>
       mcDone[t] = 0 /\ \A j \in McCalls \ {k} : ~Pending(j, t)

ConfirmInv ==
  /\ ConfirmTyped
  /\ \A t \in McTokens : TokenHeld(t)
  /\ (mcConfigured /\ mcStarts > 1) \/ \A t \in McTokens : OnceHeld(t)

\* A call goes on with what it has begun, or ends.
LEMMA CallsGoOn ==
  ASSUME ConfirmInv, NEW k \in McCalls, NEW e \in CallRec,
         mcCall' = [mcCall EXCEPT ![k] = e],
         e.for = {} \/ (e.for = mcCall[k].for /\ e.op = mcCall[k].op),
         e.phase = "idle" => e.for = {},
         e.for # {} => (mcCall[k].phase = "done" => e.phase = "done"),
         UNCHANGED <<mcConfigured, mcTime, mcToken, mcUsed, mcDone>>
  PROVE  ConfirmInv'
<1>1. ConfirmTyped
  BY DEF ConfirmInv
<1>2. ConfirmTyped'
  BY <1>1 DEF ConfirmTyped, mcTime
<1>3. mcCall'[k] = e /\ \A j \in McCalls \ {k} : mcCall'[j] = mcCall[j]
  BY <1>1 DEF ConfirmTyped
<1>4. \A j \in McCalls : mcCall'[j].for = {}
        \/ (mcCall'[j].for = mcCall[j].for /\ mcCall'[j].op = mcCall[j].op)
  BY <1>3
<1>5. ASSUME NEW t \in McTokens, TokenHeld(t) PROVE TokenHeld(t)'
  BY <1>4, <1>5 DEF TokenHeld, mcTime
<1>6. ASSUME NEW t \in McTokens, OnceHeld(t) PROVE OnceHeld(t)'
  <2>1. \A j \in McCalls : Executes(j, t)' => Executes(j, t)
    BY <1>4 DEF Executes
  <2>2. \A j \in McCalls : Pending(j, t)' => Pending(j, t)
    BY <1>3, <2>1 DEF Pending, Executes
  <2> QED
    BY <1>6, <2>1, <2>2 DEF OnceHeld, Spent, mcTime
<1> QED
  BY <1>2, <1>5, <1>6 DEF ConfirmInv, mcTime

\* A call begins with a token that no other call may take.
LEMMA PreviewKeeps ==
  ASSUME ConfirmInv, NEW k \in McCalls, McPreview(k)
  PROVE  ConfirmInv'
<1>1. ConfirmTyped
  BY DEF ConfirmInv
<1>2. PICK t \in McTokens :
        ~McIssued(t) /\ (\A c \in McCalls : t \notin mcCall[c].for) /\ McBegin(k, "preview", t)
  BY DEF McPreview
<1> DEFINE e == [McIdle EXCEPT !.phase = "login", !.op = "preview", !.for = {t}]
<1>3. e \in CallRec /\ e.for = {t} /\ e.op = "preview" /\ e.phase = "login"
  BY DEF McIdle, CallRec
<1>4. mcCall[k] = McIdle /\ mcCall' = [mcCall EXCEPT ![k] = e]
  BY <1>2 DEF McBegin
<1>5. /\ mcCall'[k].for = {t} /\ mcCall'[k].op = "preview" /\ mcCall'[k].phase = "login"
      /\ \A j \in McCalls \ {k} : mcCall'[j] = mcCall[j]
      /\ UNCHANGED <<mcConfigured, mcTime, mcToken, mcUsed, mcDone>>
  BY <1>1, <1>3, <1>4 DEF ConfirmTyped, McPreview
<1> HIDE DEF e
<1>6. ConfirmTyped'
  BY <1>1, <1>3, <1>4, <1>5 DEF ConfirmTyped, mcTime
<1>7. ASSUME NEW s \in McTokens PROVE TokenHeld(s)'
  <2>1. TokenHeld(s)
    BY DEF ConfirmInv
  <2>2. CASE s = t
    BY <1>2, <1>5, <2>1, <2>2 DEF TokenHeld, McIssued, mcTime
  <2>3. CASE s # t
    BY <1>5, <2>1, <2>3 DEF TokenHeld, mcTime
  <2> QED
    BY <2>2, <2>3
<1>8. ASSUME NEW s \in McTokens, OnceHeld(s) PROVE OnceHeld(s)'
  <2>1. \A j \in McCalls : Executes(j, s)' => Executes(j, s) /\ mcCall'[j] = mcCall[j]
    BY <1>5 DEF Executes
  <2>2. \A j \in McCalls : Pending(j, s)' => Pending(j, s)
    BY <2>1 DEF Pending
  <2> QED
    BY <1>5, <1>8, <2>1, <2>2 DEF OnceHeld, Spent, mcTime
<1> QED
  BY <1>5, <1>6, <1>7, <1>8 DEF ConfirmInv, mcTime

LEMMA ExecuteKeeps ==
  ASSUME ConfirmInv, NEW k \in McCalls, McExecute(k)
  PROVE  ConfirmInv'
<1>1. ConfirmTyped
  BY DEF ConfirmInv
<1>2. PICK t \in McTokens :
        /\ McIssued(t) /\ (mcConfigured \/ mcToken[t].by = mcStarts)
        /\ mcToken[t].exp >= mcClock
        /\ t \notin McUnexpired(mcUsed)
        /\ mcUsed' = McUnexpired(mcUsed) \cup {t}
        /\ McBegin(k, "execute", t)
  BY DEF McExecute
<1> DEFINE e == [McIdle EXCEPT !.phase = "login", !.op = "execute", !.for = {t}]
<1>3. e \in CallRec /\ e.for = {t} /\ e.op = "execute" /\ e.phase = "login"
  BY DEF McIdle, CallRec
<1>4. mcCall[k] = McIdle /\ mcCall' = [mcCall EXCEPT ![k] = e]
  BY <1>2 DEF McBegin
<1>5. /\ mcCall'[k].for = {t} /\ mcCall'[k].op = "execute" /\ mcCall'[k].phase = "login"
      /\ mcCall[k].for = {} /\ \A j \in McCalls \ {k} : mcCall'[j] = mcCall[j]
      /\ UNCHANGED <<mcConfigured, mcTime, mcToken, mcDone>>
  BY <1>1, <1>3, <1>4 DEF ConfirmTyped, McExecute, McIdle
<1> HIDE DEF e
<1>6. ~Spent(t)
  BY <1>1, <1>2 DEF Spent, McUnexpired, ConfirmTyped
<1>7. ConfirmTyped'
  <2>1. mcUsed' \subseteq McTokens
    BY <1>1, <1>2 DEF ConfirmTyped, McUnexpired
  <2> QED
    BY <1>1, <1>3, <1>4, <1>5, <2>1 DEF ConfirmTyped, mcTime
<1>8. ASSUME NEW s \in McTokens PROVE TokenHeld(s)'
  <2>1. TokenHeld(s)
    BY DEF ConfirmInv
  <2>2. CASE s = t
    BY <1>2, <1>5, <2>1, <2>2 DEF TokenHeld, McIssued, mcTime
  <2>3. CASE s # t
    BY <1>5, <2>1, <2>3 DEF TokenHeld, mcTime
  <2> QED
    BY <2>2, <2>3
<1>9. ASSUME NEW s \in McTokens, OnceHeld(s) PROVE OnceHeld(s)'
  <2>1. Spent(s) => Spent(s)'
    BY <1>1, <1>2, <1>5, <1>9 DEF Spent, McUnexpired, mcTime, ConfirmTyped
  <2>2. CASE s = t
    <3>1. mcDone[t] = 0 /\ \A j \in McCalls : ~Executes(j, t)
      BY <1>1, <1>6, <1>9, <2>2 DEF OnceHeld, ConfirmTyped
    <3>2. \A j \in McCalls \ {k} : ~Executes(j, t)'
      BY <1>5, <3>1 DEF Executes
    <3>3. Spent(t)'
      BY <1>2 DEF Spent
    <3> QED
      BY <1>5, <2>2, <3>1, <3>2, <3>3 DEF OnceHeld, Pending
  <2>3. CASE s # t
    <3>1. \A j \in McCalls : Executes(j, s)' => Executes(j, s) /\ mcCall'[j] = mcCall[j]
      BY <1>5, <2>3 DEF Executes
    <3>2. \A j \in McCalls : Pending(j, s)' => Pending(j, s)
      BY <3>1 DEF Pending
    <3> QED
      BY <1>5, <1>9, <2>1, <3>1, <3>2 DEF OnceHeld
  <2> QED
    BY <2>2, <2>3
<1> QED
  BY <1>5, <1>7, <1>8, <1>9 DEF ConfirmInv, mcTime

\* The platform does what was asked for.
LEMMA CarriedOutKeeps ==
  ASSUME ConfirmInv, NEW k \in McCalls, McCarriedOut(k)
  PROVE  ConfirmInv'
<1>1. ConfirmTyped
  BY DEF ConfirmInv
<1>2. /\ [mcCall[k] EXCEPT !.phase = "done"] \in CallRec
      /\ mcCall' = [mcCall EXCEPT ![k] = [mcCall[k] EXCEPT !.phase = "done"]]
  BY <1>1 DEF McCarriedOut, McGo, ConfirmTyped, CallRec
<1>3. /\ mcCall'[k].phase = "done" /\ mcCall'[k].for = mcCall[k].for
      /\ mcCall'[k].op = mcCall[k].op /\ mcCall[k].phase = "sent"
      /\ \A j \in McCalls \ {k} : mcCall'[j] = mcCall[j]
      /\ UNCHANGED <<mcConfigured, mcTime, mcToken, mcUsed>>
  BY <1>1, <1>2 DEF McCarriedOut, ConfirmTyped, CallRec
<1>4. \A t \in McTokens : mcDone'[t] = IF Pending(k, t) THEN mcDone[t] + 1 ELSE mcDone[t]
  BY <1>3 DEF McCarriedOut, Pending, Executes
<1>5. ConfirmTyped'
  <2>1. mcDone' \in [McTokens -> Nat]
    BY <1>1 DEF McCarriedOut, ConfirmTyped
  <2> QED
    BY <1>1, <1>2, <1>3, <2>1 DEF ConfirmTyped, mcTime
<1>6. ASSUME NEW t \in McTokens PROVE TokenHeld(t)'
  <2>1. TokenHeld(t)
    BY DEF ConfirmInv
  <2>2. Pending(k, t) => mcToken[t].by # 0
    BY <2>1 DEF TokenHeld, Pending, Executes
  <2> QED
    BY <1>3, <1>4, <2>1, <2>2 DEF TokenHeld, mcTime
<1>7. ASSUME NEW t \in McTokens, OnceHeld(t) PROVE OnceHeld(t)'
  <2>1. \A j \in McCalls : Executes(j, t)' <=> Executes(j, t)
    BY <1>3 DEF Executes
  <2>2. \A j \in McCalls : Pending(j, t)' <=> j # k /\ Pending(j, t)
    BY <1>3, <2>1 DEF Pending
  <2>3. Spent(t)' <=> Spent(t)
    BY <1>3 DEF Spent, mcTime
  <2>4. mcDone[t] \in Nat /\ (Pending(k, t) => Executes(k, t))
    BY <1>1 DEF ConfirmTyped, Pending
  <2> QED
    BY <1>4, <1>7, <2>1, <2>2, <2>3, <2>4 DEF OnceHeld
<1> QED
  BY <1>3, <1>5, <1>6, <1>7 DEF ConfirmInv, mcTime

\* A token is handed out.
LEMMA AnswerKeeps ==
  ASSUME ConfirmInv, NEW k \in McCalls, McAnswer(k)
  PROVE  ConfirmInv'
<1>1. ConfirmTyped
  BY DEF ConfirmInv
<1>2. McIdle \in CallRec /\ McIdle.for = {} /\ McIdle.phase = "idle"
  BY DEF McIdle, CallRec
<1>3. /\ mcCall'[k].for = {} /\ \A j \in McCalls \ {k} : mcCall'[j] = mcCall[j]
      /\ UNCHANGED <<mcConfigured, mcTime, mcUsed, mcDone>>
  BY <1>1, <1>2 DEF McAnswer, ConfirmTyped
<1>4. ASSUME NEW t \in McTokens
      PROVE  /\ mcCall[k].op = "preview" /\ t \in mcCall[k].for =>
                  mcToken'[t].by = mcStarts /\ mcToken'[t].exp \in Nat
             /\ ~(mcCall[k].op = "preview" /\ t \in mcCall[k].for) => mcToken'[t] = mcToken[t]
  BY <1>1, McpAssumption DEF McAnswer, ConfirmTyped
<1>5. ConfirmTyped'
  <2>1. mcToken' \in [McTokens -> [exp : Nat, by : Nat]]
    BY <1>1, McpAssumption DEF McAnswer, ConfirmTyped
  <2>2. mcCall' \in [McCalls -> CallRec]
    BY <1>1, <1>2 DEF McAnswer, ConfirmTyped
  <2> QED
    BY <1>1, <1>3, <2>1, <2>2 DEF ConfirmTyped, mcTime
<1>6. ASSUME NEW t \in McTokens PROVE TokenHeld(t)'
  <2>1. TokenHeld(t)
    BY DEF ConfirmInv
  <2>2. CASE mcCall[k].op = "preview" /\ t \in mcCall[k].for
    <3>1. mcToken'[t].by = mcStarts /\ mcStarts \in Nat \ {0} /\ mcStarts' = mcStarts
      BY <1>1, <1>3, <1>4, <2>2 DEF ConfirmTyped, mcTime
    <3>2. mcDone'[t] = mcDone[t] /\ \A j \in McCalls : t \notin mcCall'[j].for
      BY <1>3, <2>1, <2>2 DEF TokenHeld
    <3> QED
      BY <3>1, <3>2 DEF TokenHeld
  <2>3. CASE ~(mcCall[k].op = "preview" /\ t \in mcCall[k].for)
    BY <1>3, <1>4, <2>1, <2>3 DEF TokenHeld, mcTime
  <2> QED
    BY <2>2, <2>3
<1>7. ASSUME NEW t \in McTokens, OnceHeld(t) PROVE OnceHeld(t)'
  <2>1. \A j \in McCalls : Executes(j, t)' => Executes(j, t) /\ mcCall'[j] = mcCall[j]
    BY <1>3 DEF Executes
  <2>2. \A j \in McCalls : Pending(j, t)' => Pending(j, t)
    BY <2>1 DEF Pending
  <2>3. CASE mcCall[k].op = "preview" /\ t \in mcCall[k].for
    <3>1. TokenHeld(t) /\ mcDone[t] \in Nat
      BY <1>1 DEF ConfirmInv, ConfirmTyped
    <3>2. mcDone'[t] = 0 /\ \A j \in McCalls : ~Executes(j, t)'
      BY <1>3, <2>3, <3>1 DEF TokenHeld, Executes
    <3> QED
      BY <3>2 DEF OnceHeld, Pending
  <2>4. CASE ~(mcCall[k].op = "preview" /\ t \in mcCall[k].for)
    BY <1>3, <1>4, <1>7, <2>1, <2>2, <2>4 DEF OnceHeld, Spent, mcTime
  <2> QED
    BY <2>3, <2>4
<1> QED
  BY <1>3, <1>5, <1>6, <1>7 DEF ConfirmInv, mcTime

\* Time passes; the server starts again.
LEMMA ServerKeeps ==
  ASSUME ConfirmInv, McTick \/ McRestart
  PROVE  ConfirmInv'
<1>1. ConfirmTyped
  BY DEF ConfirmInv
<1>2. CASE McTick
  <2>1. ConfirmTyped'
    BY <1>1, <1>2 DEF McTick, ConfirmTyped
  <2>2. ASSUME NEW t \in McTokens, TokenHeld(t) PROVE TokenHeld(t)'
    BY <1>2, <2>2 DEF McTick, TokenHeld
  <2>3. ASSUME NEW t \in McTokens, OnceHeld(t) PROVE OnceHeld(t)'
    <3>1. Spent(t) => Spent(t)'
      BY <1>1, <1>2 DEF McTick, Spent, ConfirmTyped
    <3> QED
      BY <1>2, <2>3, <3>1 DEF McTick, OnceHeld, Executes, Pending
  <2> QED
    BY <1>2, <2>1, <2>2, <2>3 DEF ConfirmInv, McTick
<1>3. CASE McRestart
  <2>1. /\ McIdle \in CallRec /\ McIdle.for = {}
        /\ \A k \in McCalls : mcCall'[k] = McIdle
    BY <1>3 DEF McIdle, CallRec, McRestart
  <2>2. ConfirmTyped'
    BY <1>1, <1>3, <2>1 DEF McRestart, ConfirmTyped
  <2>3. ASSUME NEW t \in McTokens PROVE TokenHeld(t)'
    BY <1>1, <1>3, <2>1 DEF McRestart, ConfirmInv, ConfirmTyped, TokenHeld
  <2>4. ASSUME ~mcConfigured, NEW t \in McTokens PROVE OnceHeld(t)'
    <3>1. TokenHeld(t) /\ OnceHeld(t)
      BY <2>4 DEF ConfirmInv
    <3>2. Spent(t)'
      BY <1>1, <1>3, <2>4, <3>1 DEF McRestart, Spent, TokenHeld, ConfirmTyped
    <3> QED
      BY <1>3, <2>1, <3>1, <3>2 DEF McRestart, OnceHeld, Executes, Pending
  <2>5. mcConfigured => mcConfigured' /\ mcStarts' > 1
    BY <1>1, <1>3 DEF McRestart, ConfirmTyped
  <2> QED
    BY <2>2, <2>3, <2>4, <2>5 DEF ConfirmInv
<1> QED
  BY <1>2, <1>3

(* What a preview has shown is done at most once, for any number of calls  *)
(* and tokens, unless a server with a configured secret has been started   *)
(* again (confirmation.py: consume).                                       *)
THEOREM McpConfirmedOnce == McSpec => []ConfirmedOnce
<1>1. McInit => ConfirmInv
  BY McpAssumption DEF McInit, ConfirmInv, ConfirmTyped, CallRec, McIdle, TokenHeld, OnceHeld,
     Executes, Pending, Spent
<1>2. ConfirmInv /\ [McNext]_mcVars => ConfirmInv'
  <2> SUFFICES ASSUME ConfirmInv, [McNext]_mcVars PROVE ConfirmInv'
    OBVIOUS
  <2>1. ASSUME UNCHANGED <<mcConfigured, mcTime, mcToken, mcUsed, mcCall, mcDone>>
        PROVE  ConfirmInv'
    BY <2>1 DEF ConfirmInv, ConfirmTyped, TokenHeld, OnceHeld, Executes, Pending, Spent, mcTime
  <2>2. ASSUME NEW k \in McCalls,
               \/ McLogin(k) \/ McSend(k) \/ McRefused(k) \/ McRefreshToken(k)
               \/ McRelogin(k) \/ McFails(k)
        PROVE  ConfirmInv'
    <3>1. mcCall \in [McCalls -> CallRec] /\ mcCall[k] \in CallRec
      BY DEF ConfirmInv, ConfirmTyped
    <3>2. McIdle \in CallRec /\ McIdle.for = {}
      BY DEF McIdle, CallRec
    <3>3. ASSUME NEW p \in {"send", "sent", "refresh", "relogin"},
                 NEW a \in BOOLEAN, NEW g \in BOOLEAN, mcCall[k].phase # "done",
                 mcCall' = [mcCall EXCEPT ![k] =
                   [mcCall[k] EXCEPT !.phase = p, !.again = a, !.good = g]],
                 UNCHANGED <<mcConfigured, mcTime, mcToken, mcUsed, mcDone>>
          PROVE  ConfirmInv'
      <4> DEFINE e == [mcCall[k] EXCEPT !.phase = p, !.again = a, !.good = g]
      <4>1. /\ e \in CallRec /\ e.for = mcCall[k].for /\ e.op = mcCall[k].op
            /\ e.phase # "idle"
        BY <3>1 DEF CallRec
      <4> QED
        BY <3>3, <4>1, CallsGoOn
    <3>4. ASSUME mcCall' = [mcCall EXCEPT ![k] = McIdle],
                 UNCHANGED <<mcConfigured, mcTime, mcToken, mcUsed, mcDone>>
          PROVE  ConfirmInv'
      BY <3>2, <3>4, CallsGoOn
    <3>5. /\ mcCall[k].again \in BOOLEAN /\ mcCall[k].good \in BOOLEAN
          /\ \A p \in {"send", "relogin"} : McGo(k, p) =>
               mcCall' = [mcCall EXCEPT ![k] = [mcCall[k] EXCEPT
                 !.phase = p, !.again = mcCall[k].again, !.good = mcCall[k].good]]
      BY <3>1 DEF CallRec, McGo
    <3>6. CASE McLogin(k) \/ McRefreshToken(k) \/ McRelogin(k)
      BY <2>2, <3>3, <3>5, <3>6 DEF McLogin, McRefreshToken, McRelogin
    <3>7. CASE McSend(k)
      <4>1. mcCall' = [mcCall EXCEPT ![k] = [mcCall[k] EXCEPT
              !.phase = "sent", !.again = mcCall[k].again, !.good = (mcAccess = "good")]]
        BY <3>1, <3>7 DEF McSend, CallRec
      <4> QED
        BY <3>3, <3>5, <3>7, <4>1 DEF McSend
    <3>8. CASE McRefused(k)
      <4>1. \/ mcCall' = [mcCall EXCEPT ![k] = McIdle]
            \/ mcCall' = [mcCall EXCEPT ![k] = [mcCall[k] EXCEPT
                 !.phase = "refresh", !.again = TRUE, !.good = mcCall[k].good]]
        BY <3>1, <3>8 DEF McRefused, CallRec
      <4> QED
        BY <3>3, <3>4, <3>5, <3>8, <4>1 DEF McRefused
    <3>9. CASE McFails(k)
      BY <3>4, <3>9 DEF McFails
    <3> QED
      BY <2>2, <3>6, <3>7, <3>8, <3>9
  <2>3. CASE McExpire
    BY <2>1, <2>3 DEF McExpire
  <2>4. CASE UNCHANGED mcVars
    BY <2>1, <2>4 DEF mcVars
  <2> QED
    BY <2>2, <2>3, <2>4, PreviewKeeps, ExecuteKeeps, CarriedOutKeeps, AnswerKeeps, ServerKeeps
    DEF McNext, McCallStep
<1>3. ConfirmInv => ConfirmedOnce
  BY DEF ConfirmInv, ConfirmTyped, OnceHeld, ConfirmedOnce
<1> QED
  BY <1>1, <1>2, <1>3, PTL DEF McSpec

-----------------------------------------------------------------------------
(* Simulated nodes.                                                        *)

\* A handler makes its assignments first; publish_status is its last step.
NdProgram(todo) ==
  /\ todo \in Seq(NdSteps)
  /\ \A i \in 1 .. Len(todo) : todo[i].do = "publish_status" => i = Len(todo)

NdThread(thread) ==
  /\ thread \in [todo : Seq(NdSteps), code : 0 .. ndReceived]
  /\ NdProgram(thread.todo)
  /\ thread.code \in ndAnswered => thread.todo = <<>>

NdInv ==
  /\ ndClass \in NdClasses
  /\ ndReceived \in Nat /\ ndAnswered \subseteq 0 .. ndReceived
  /\ NdThread(ndNet) /\ \A r \in ndRunners : NdThread(r) /\ r.code # ndNet.code
  /\ \A r, s \in ndRunners : r.code = s.code => r = s

NdVals == BOOLEAN \cup Int \cup {"now", "high", "low"}

LEMMA NdPrograms ==
  ASSUME NEW a \in NdFieldNames, NEW b \in NdFieldNames, NEW c \in NdFieldNames,
         NEW v \in NdVals, NEW w \in NdVals, NEW x \in NdVals
  PROVE  /\ NdProgram(<<>>) /\ NdProgram(<<Status>>)
         /\ NdProgram(<<Set(a, v), Status>>)
         /\ NdProgram(<<Set(a, v), Set(b, w), Status>>)
         /\ NdProgram(<<Set(a, v), Set(b, w), Set(c, x), Status>>)
<1>1. Status \in NdSteps /\ \A f \in NdFieldNames, y \in NdVals : Set(f, y) \in NdSteps
  BY DEF NdSteps, Set, NdVals
<1>2. \A f, y : Set(f, y).do # "publish_status"
  BY DEF Set
<1>3. NdProgram(<<>>) /\ NdProgram(<<Status>>)
  BY <1>1 DEF NdProgram
<1>4. NdProgram(<<Set(a, v), Status>>)
  BY <1>1, <1>2 DEF NdProgram
<1>5. NdProgram(<<Set(a, v), Set(b, w), Status>>)
  BY <1>1, <1>2 DEF NdProgram
<1>6. NdProgram(<<Set(a, v), Set(b, w), Set(c, x), Status>>)
  BY <1>1, <1>2 DEF NdProgram
<1> QED
  BY <1>3, <1>4, <1>5, <1>6

LEMMA NdHandlers ==
  ASSUME NEW class \in NdClasses, NEW msg \in NdMessages
  PROVE  NdProgram(NdHandler(class, msg))
<1>1. NdValues \subseteq Int
  BY NdAssumption
<1>2. BOOLEAN \subseteq NdVals /\ Int \subseteq NdVals /\ {"now", "high", "low"} \subseteq NdVals
  BY Zenon DEF NdVals
<1>3. TRUE \in NdVals /\ FALSE \in NdVals
  BY Zenon DEF NdVals
<1>4. 0 \in NdVals /\ 1 \in NdVals /\ \A v \in NdValues : v \in NdVals
  <2>1. 0 \in Int /\ 1 \in Int
    OBVIOUS
  <2> QED
    BY <1>1, <1>2, <2>1, Zenon
<1> DEFINE NdNames == {"is_enabled", "sampling_interval", "status_report_interval",
                       "accumulated_volume", "_last_integrate_time", "is_running",
                       "target_power_kw", "current_angle", "opening", "D5"}
<1>5. \A f \in NdNames : f \in NdFieldNames
  BY DEF NdFieldNames
<1>6. /\ NdProgram(Ignored) /\ NdProgram(<<Status>>)
      /\ \A f \in NdFieldNames, v \in NdVals : NdProgram(<<Set(f, v), Status>>)
      /\ \A f, g \in NdFieldNames, v, w \in NdVals : NdProgram(<<Set(f, v), Set(g, w), Status>>)
  BY <1>4, <1>5, NdPrograms DEF Ignored
<1>7. \A f \in NdFieldNames, lo, hi \in Int : NdProgram(Within(msg, f, lo, hi))
  BY <1>4, <1>6 DEF Within
<1>8. /\ \A lo \in Int : NdProgram(StatusInterval(msg, lo))
      /\ \A lo \in Int : NdProgram(Within(msg, "sampling_interval", lo, 3600))
      /\ NdProgram(Within(msg, "current_angle", 0, 180))
  BY <1>5, <1>7 DEF StatusInterval
<1>9. /\ NdProgram(<<Set("is_enabled", TRUE), Status>>)
      /\ NdProgram(<<Set("is_enabled", FALSE), Status>>)
      /\ NdProgram(<<Set("is_running", TRUE), Status>>)
      /\ NdProgram(<<Set("accumulated_volume", 0), Status>>)
      /\ NdProgram(<<Set("is_enabled", TRUE), Set("_last_integrate_time", "now"), Status>>)
      /\ NdProgram(<<Set("is_running", TRUE), Set("target_power_kw", 1), Status>>)
      /\ NdProgram(<<Set("is_running", FALSE), Set("target_power_kw", 0), Status>>)
  <2>1. "now" \in NdVals
    BY <1>2
  <2>2. /\ "is_enabled" \in NdFieldNames /\ "is_running" \in NdFieldNames
        /\ "accumulated_volume" \in NdFieldNames /\ "target_power_kw" \in NdFieldNames
        /\ "_last_integrate_time" \in NdFieldNames
    BY <1>5
  <2> QED
    BY <1>3, <1>4, <1>6, <2>1, <2>2, Zenon
<1>10. ASSUME NEW lo \in Int PROVE NdProgram(SensorCommand(msg, lo))
  <2>1. CASE msg.cmd = "set_interval"
    BY <1>8, <2>1 DEF SensorCommand
  <2>2. CASE msg.cmd = "set_status_interval"
    BY <1>8, <2>2 DEF SensorCommand
  <2>3. CASE msg.cmd = "enable"
    BY <1>9, <2>3 DEF SensorCommand
  <2>4. CASE msg.cmd = "disable"
    BY <1>9, <2>4 DEF SensorCommand
  <2>5. CASE msg.cmd \notin {"set_interval", "set_status_interval", "enable", "disable"}
    BY <1>6, <2>5 DEF SensorCommand
  <2> QED
    BY <2>1, <2>2, <2>3, <2>4, <2>5
<1>11. NdProgram(FlowSensor(msg)) /\ NdProgram(IndustrialFlowRateSensor(msg))
  <2>1. CASE msg.cmd = "enable"
    BY <1>9, <2>1 DEF FlowSensor, IndustrialFlowRateSensor
  <2>2. CASE msg.cmd = "reset_volume"
    BY <1>9, <2>2 DEF FlowSensor, IndustrialFlowRateSensor
  <2>3. CASE msg.cmd \notin {"enable", "reset_volume"}
    BY <1>10, <2>3 DEF FlowSensor, IndustrialFlowRateSensor
  <2> QED
    BY <2>1, <2>2, <2>3
<1>12. NdProgram(TouchSensorSwitch(msg))
  BY <1>6, <1>10 DEF TouchSensorSwitch
<1>13. NdProgram(Pump(msg))
  <2>1. CASE msg.cmd = "start"
    <3>1. \/ Pump(msg) = <<Set("is_running", TRUE), Set("target_power_kw", 1), Status>>
          \/ Pump(msg) = <<Set("is_running", TRUE), Status>>
      BY <2>1 DEF Pump
    <3> QED
      BY <1>9, <3>1
  <2>2. CASE msg.cmd = "stop"
    BY <1>9, <2>2 DEF Pump
  <2>3. CASE msg.cmd = "set_power" /\ msg.val \in NdValues
    <3>1. PICK v : v = msg.val
      OBVIOUS
    <3>2. v \in Int
      BY <1>1, <2>3, <3>1
    <3>3. PumpTarget(v) \in Int
      BY <3>2 DEF PumpTarget
    <3>4. PICK target, on : target = PumpTarget(v) /\ on = (PumpTarget(v) > 0)
      OBVIOUS
    <3>5. target \in NdVals
      BY <1>2, <3>3, <3>4
    <3>6. on \in BOOLEAN
      BY <3>4
    <3>7. on \in NdVals
      BY <1>2, <3>6, Zenon
    <3>8. "is_running" \in NdFieldNames /\ "target_power_kw" \in NdFieldNames
      BY <1>5
    <3>9. NdProgram(<<Set("target_power_kw", target), Set("is_running", on), Status>>)
      BY <1>6, <3>5, <3>7, <3>8, Zenon
    <3>10. Pump(msg) = <<Set("target_power_kw", target), Set("is_running", on), Status>>
      BY <2>3, <3>1, <3>4 DEF Pump
    <3> QED
      BY <3>9, <3>10, Zenon
  <2>4. CASE msg.cmd = "set_power" /\ msg.val \notin NdValues
    BY <1>6, <2>4 DEF Pump
  <2>5. CASE msg.cmd = "current_status"
    BY <1>6, <2>5 DEF Pump
  <2>6. CASE msg.cmd = "set_status_interval"
    BY <1>8, <2>6 DEF Pump
  <2>7. CASE msg.cmd \notin {"start", "stop", "set_power", "current_status", "set_status_interval"}
    BY <1>6, <2>7 DEF Pump
  <2> QED
    BY <2>1, <2>2, <2>3, <2>4, <2>5, <2>6, <2>7
<1>14. NdProgram(SG90Servo(msg))
  <2>1. CASE msg.cmd = "set_angle"
    BY <1>8, <2>1 DEF SG90Servo
  <2>2. CASE msg.cmd = "current_status"
    BY <1>6, <2>2 DEF SG90Servo
  <2>3. CASE msg.cmd = "set_status_interval"
    BY <1>8, <2>3 DEF SG90Servo
  <2>4. CASE msg.cmd \notin {"set_angle", "current_status", "set_status_interval"}
    BY <1>6, <2>4 DEF SG90Servo
  <2> QED
    BY <2>1, <2>2, <2>3, <2>4
<1>15. NdProgram(GenericDevice(msg))
  <2>1. CASE msg.cmd = "set_opening" /\ msg.val \in NdValues
    <3>1. PICK v : v = Coerced(msg.val)
      OBVIOUS
    <3>2. msg.val \in Int
      BY <1>1, <2>1
    <3>3. v \in Int
      BY <3>1, <3>2 DEF Coerced
    <3>4. v \in NdVals /\ "opening" \in NdFieldNames
      BY <1>2, <1>5, <3>3
    <3>5. GenericDevice(msg) = <<Set("opening", v), Status>>
      BY <2>1, <3>1 DEF GenericDevice
    <3> QED
      BY <1>6, <3>4, <3>5
  <2>2. CASE msg.cmd = "set_opening" /\ msg.val \notin NdValues
    BY <1>6, <2>2 DEF GenericDevice
  <2>3. CASE msg.cmd = "current_status"
    BY <1>6, <2>3 DEF GenericDevice
  <2>4. CASE msg.cmd = "set_status_interval"
    BY <1>8, <2>4 DEF GenericDevice
  <2>5. CASE msg.cmd \notin {"set_opening", "current_status", "set_status_interval"}
    BY <1>6, <2>5 DEF GenericDevice
  <2> QED
    BY <2>1, <2>2, <2>3, <2>4, <2>5
<1>16. NdProgram(PinControl(msg))
  <2>1. msg.cmd \in {"high", "low"} => msg.cmd \in NdVals
    BY <1>2
  <2> QED
    BY <1>5, <1>6, <1>8, <2>1 DEF PinControl
<1> QED
  BY <1>10, <1>11, <1>12, <1>13, <1>14, <1>15, <1>16, NdAssumption
  DEF NdHandler, BMP280TempPressureSensor, TempHumiSensor, RotationSensor, GenericSensor,
      IndustrialLevelSensor, IndustrialPressureSensor, IndustrialTemperatureSensor

\* A new command has a code of its own, and none of its steps is done.
LEMMA NdReceives ==
  ASSUME NdInv, NdReceive
  PROVE  NdInv'
<1> DEFINE n == ndReceived + 1
<1>1. PICK msg \in NdMessages :
        IF ndClass = "pins" /\ msg.cmd \in {"high_all", "low_all"}
        THEN /\ ndRunners' = ndRunners \cup
                  {[code |-> ndReceived',
                    todo |-> DoAll(IF msg.cmd = "high_all" THEN "high" ELSE "low")]}
             /\ UNCHANGED ndNet
        ELSE /\ ndNet' = [code |-> ndReceived', todo |-> NdHandler(ndClass, msg)]
             /\ UNCHANGED ndRunners
  BY DEF NdReceive
<1>2. ndReceived' = n /\ ndAnswered' = ndAnswered /\ ndClass' = ndClass
  BY DEF NdReceive
<1>3. n \in Nat /\ 0 .. ndReceived \subseteq 0 .. n /\ n \in 0 .. n /\ n \notin 0 .. ndReceived
  BY DEF NdInv
<1> HIDE DEF n
<1>4. /\ NdThread(ndNet) /\ ndNet.code # n
      /\ \A r \in ndRunners : NdThread(r) /\ r.code # n
  BY <1>3 DEF NdInv, NdThread
<1>5. ASSUME NEW th, NdThread(th)
      PROVE  /\ th \in [todo : Seq(NdSteps), code : 0 .. n]
             /\ NdProgram(th.todo) /\ (th.code \in ndAnswered => th.todo = <<>>)
  BY <1>3, <1>5 DEF NdThread
<1>6. ASSUME NEW todo, NdProgram(todo)
      PROVE  LET th == [code |-> n, todo |-> todo] IN
             /\ th \in [todo : Seq(NdSteps), code : 0 .. n]
             /\ NdProgram(th.todo) /\ th.code \notin ndAnswered /\ th.code = n
  BY <1>3, <1>6 DEF NdProgram, NdInv
<1>7. CASE ndClass = "pins" /\ msg.cmd \in {"high_all", "low_all"}
  <2>1. PICK level \in {"high", "low"} :
          ndRunners' = ndRunners \cup {[code |-> n, todo |-> DoAll(level)]}
    BY <1>1, <1>2, <1>7
  <2>2. level \in NdVals
    BY Zenon DEF NdVals
  <2>3. /\ Pins[1] \in NdFieldNames /\ Pins[2] \in NdFieldNames
        /\ Pins[3] \in NdFieldNames
    BY DEF Pins, NdFieldNames
  <2>4. NdProgram(DoAll(level))
    BY <2>2, <2>3, NdPrograms DEF DoAll
  <2>5. PICK new : new = [code |-> n, todo |-> DoAll(level)]
    OBVIOUS
  <2>6. /\ new \in [todo : Seq(NdSteps), code : 0 .. n]
        /\ NdProgram(new.todo) /\ new.code \notin ndAnswered /\ new.code = n
    BY <1>6, <2>4, <2>5
  <2>7. ndRunners' = ndRunners \cup {new} /\ ndNet' = ndNet
    BY <1>1, <1>7, <2>1, <2>5
  <2>8. NdThread(ndNet)' /\ \A r \in ndRunners' : NdThread(r)'
    BY <1>2, <1>4, <1>5, <2>6, <2>7 DEF NdThread
  <2> QED
    BY <1>2, <1>3, <1>4, <2>6, <2>7, <2>8 DEF NdInv
<1>8. CASE ~(ndClass = "pins" /\ msg.cmd \in {"high_all", "low_all"})
  <2>1. NdProgram(NdHandler(ndClass, msg))
    BY NdHandlers DEF NdInv
  <2>2. PICK new : new = [code |-> n, todo |-> NdHandler(ndClass, msg)]
    OBVIOUS
  <2>3. /\ new \in [todo : Seq(NdSteps), code : 0 .. n]
        /\ NdProgram(new.todo) /\ new.code \notin ndAnswered /\ new.code = n
    BY <1>6, <2>1, <2>2
  <2>4. ndNet' = new /\ ndRunners' = ndRunners
    BY <1>1, <1>2, <1>8, <2>2
  <2>5. NdThread(ndNet)' /\ \A r \in ndRunners' : NdThread(r)'
    BY <1>2, <1>4, <1>5, <2>3, <2>4 DEF NdThread
  <2> QED
    BY <1>2, <1>3, <1>4, <2>3, <2>4, <2>5 DEF NdInv
<1> QED
  BY <1>7, <1>8

\* What is left of a thread after its next step: nothing after publish_status.
LEMMA NdStepped ==
  ASSUME NdInv, NEW th, NdThread(th), NdStep(th), ndReceived' = ndReceived
  PROVE  LET more == [th EXCEPT !.todo = Tail(@)] IN
         /\ NdThread(more)' /\ more.code = th.code
         /\ \/ ndAnswered' = ndAnswered
            \/ ndAnswered' = ndAnswered \cup {th.code}
<1>1. /\ th \in [todo : Seq(NdSteps), code : 0 .. ndReceived] /\ th.todo # <<>>
      /\ NdProgram(th.todo) /\ th.code \notin ndAnswered
  BY DEF NdThread, NdStep
<1>2. PICK todo \in Seq(NdSteps) : todo = th.todo
  BY <1>1
<1>3. /\ Len(todo) \in Nat \ {0} /\ Tail(todo) \in Seq(NdSteps) /\ Head(todo) = todo[1]
      /\ Len(Tail(todo)) = Len(todo) - 1
      /\ \A i \in 1 .. Len(Tail(todo)) : Tail(todo)[i] = todo[i + 1]
      /\ 1 \in 1 .. Len(todo) /\ Head(todo) \in NdSteps
  BY <1>1, <1>2, HeadTailProperties, ElementOfSeq, EmptySeq, LenProperties
<1>4. NdProgram(Tail(todo))
  BY <1>1, <1>2, <1>3 DEF NdProgram
<1>5. Head(todo).do # "set" => Tail(todo) = <<>>
  <2>1. Head(todo).do = "set" \/ Head(todo).do = "publish_status"
    <3>1. Status.do = "publish_status"
      BY DEF Status
    <3>2. \A s \in NdSteps : s.do = "set" \/ s = Status
      BY DEF NdSteps
    <3> QED
      BY <1>3, <3>1, <3>2
  <2>2. Head(todo).do = "publish_status" => Len(Tail(todo)) = 0
    <3>1. \A i \in 1 .. Len(todo) : todo[i].do = "publish_status" => i = Len(todo)
      BY <1>1, <1>2 DEF NdProgram
    <3>2. Head(todo) = todo[1] /\ 1 \in 1 .. Len(todo) /\ Len(Tail(todo)) = Len(todo) - 1
      BY <1>3
    <3>3. todo[1].do = "publish_status" => 1 = Len(todo)
      BY <3>1, <3>2, Zenon
    <3>4. Head(todo).do = todo[1].do
      BY <3>2
    <3>5. 1 = Len(todo) => Len(Tail(todo)) = 0
      BY <3>2
    <3> QED
      BY <3>3, <3>4, <3>5, Zenon
  <2> QED
    BY <1>3, <2>1, <2>2, EmptySeq
<1>6. \/ ndAnswered' = ndAnswered
      \/ ndAnswered' = ndAnswered \cup {th.code} /\ Tail(todo) = <<>>
  BY <1>2, <1>5 DEF NdStep
<1>7. PICK more : more = [th EXCEPT !.todo = Tail(@)]
  OBVIOUS
<1>8. more \in [todo : Seq(NdSteps), code : 0 .. ndReceived] /\ more.todo = Tail(todo) /\ more.code = th.code
  BY <1>1, <1>2, <1>3, <1>7
<1>9. NdThread(more)'
  BY <1>1, <1>4, <1>6, <1>8 DEF NdThread
<1> QED
  BY <1>6, <1>7, <1>8, <1>9

LEMMA NdInductive ==
  ASSUME NdInv, [NdNext]_ndVars
  PROVE  NdInv'
<1>1. CASE NdNetStep
  <2>1. PICK more : more = [ndNet EXCEPT !.todo = Tail(@)]
    OBVIOUS
  <2>2. /\ ndNet' = more /\ ndRunners' = ndRunners /\ ndReceived' = ndReceived /\ ndClass' = ndClass
        /\ NdStep(ndNet)
    BY <1>1, <2>1 DEF NdNetStep
  <2>3. /\ NdThread(more)' /\ more.code = ndNet.code
        /\ ndAnswered' = ndAnswered \/ ndAnswered' = ndAnswered \cup {ndNet.code}
    BY <2>1, <2>2, NdStepped DEF NdInv
  <2>4. \A r \in ndRunners : NdThread(r)'
    BY <2>2, <2>3 DEF NdInv, NdThread
  <2>5. ndAnswered' \subseteq 0 .. ndReceived
    BY <2>3 DEF NdInv, NdThread
  <2> QED
    BY <2>2, <2>3, <2>4, <2>5 DEF NdInv, NdThread
<1>2. ASSUME NEW r \in ndRunners, NdRunnerStep(r) PROVE NdInv'
  <2>1. PICK more : more = [r EXCEPT !.todo = Tail(@)]
    OBVIOUS
  <2>2. /\ ndRunners' = (ndRunners \ {r}) \cup {x \in {more} : x.todo # <<>>}
        /\ ndNet' = ndNet /\ ndReceived' = ndReceived /\ ndClass' = ndClass /\ NdStep(r)
    BY <1>2, <2>1 DEF NdRunnerStep
  <2>3. /\ NdThread(more)' /\ more.code = r.code
        /\ ndAnswered' = ndAnswered \/ ndAnswered' = ndAnswered \cup {r.code}
    BY <2>1, <2>2, NdStepped DEF NdInv
  <2>4. NdThread(ndNet)' /\ \A s \in ndRunners \ {r} : NdThread(s)'
    BY <2>2, <2>3 DEF NdInv, NdThread
  <2>5. ndAnswered' \subseteq 0 .. ndReceived
    BY <2>3 DEF NdInv, NdThread
  <2>6. \A s \in ndRunners' : s \in ndRunners \ {r} \/ s = more
    BY <2>2
  <2>7. \A s, z \in ndRunners' : s.code = z.code => s = z
    BY <2>3, <2>6 DEF NdInv
  <2> QED
    BY <2>2, <2>3, <2>4, <2>5, <2>6, <2>7 DEF NdInv
<1>3. CASE NdTotaliserReads \/ NdTotaliserWrites \/ NdFlip \/ NdRamp \/ NdConnection \/ UNCHANGED ndVars
  <2>1. UNCHANGED <<ndClass, ndNet, ndRunners, ndReceived, ndAnswered>>
    BY <1>3 DEF NdTotaliserReads, NdTotaliserWrites, NdFlip, NdRamp, NdConnection, ndVars
  <2> QED
    BY <2>1 DEF NdInv, NdThread
<1> QED
  BY <1>1, <1>2, <1>3, NdReceives DEF NdNext

\* A simulated node confirms a command only when all its assignments are made,
\* for any number of commands and threads and any values (handle_command of the
\* node classes, _do_all of pin_control).
THEOREM NodeEchoedIsCarriedOut == NdSpec => []EchoedIsCarriedOut
<1>1. NdInit => NdInv
  BY NdPrograms DEF NdInit, NdInv, NdThread, NdIdle, NdProgram
<1>2. NdInv /\ [NdNext]_ndVars => NdInv'
  BY NdInductive
<1>3. NdInv => EchoedIsCarriedOut
  BY DEF NdInv, NdThread, EchoedIsCarriedOut
<1> QED
  BY <1>1, <1>2, <1>3, PTL DEF NdSpec

-----------------------------------------------------------------------------
(* Reload of the configuration.  A request that a runner has in hand was   *)
(* made, so its version no longer changes, and the version in the database *)
(* is not older; the client is built from it after the old one was dropped.*)

ReloadHeld(c) ==
  LET m == cfRunner[c] IN
  /\ \A q \in CfRequests : q \in m.batch \/ q = m.req => cfStatus[q] # "none"
  /\ m.at = "connect" => m.client = 0
  /\ m.at = "report" =>
       /\ m.req \in CfRequests
       /\ m.client = 0 \/ cfAsked[m.req] <= m.client

ReloadInv ==
  /\ CfTypeOK
  /\ \A q \in CfRequests :
       /\ cfAsked[q] <= cfVersion
       /\ cfStatus[q] = "none" => cfEntry[q] = "none"
  /\ \A c \in CfRunners : ReloadHeld(c)

CfRec ==
  [at : {"off", "loop", "handle", "stop", "connect", "report", "ack"},
   batch : SUBSET CfRequests, req : CfRequests \cup {CfNobody},
   client : 0 .. CfMaxVersion, applied : 0 .. CfMaxVersion]

\* What a runner may become, and what it may do to the requests.
RunnerFits(m) ==
  /\ m \in CfRec
  /\ \A q \in CfRequests : q \in m.batch \/ q = m.req => cfStatus[q] # "none"
  /\ m.at = "connect" => m.client = 0
  /\ m.at = "report" =>
       /\ m.req \in CfRequests
       /\ m.client = 0 \/ cfAsked[m.req] <= m.client

RequestsGoOn ==
  /\ UNCHANGED <<cfVersion, cfAsked>>
  /\ cfStatus' \in [CfRequests -> {"none", "queued", "reloading"} \cup CfTerminal]
  /\ cfEntry' \in [CfRequests -> {"none", "new", "pending", "gone"}]
  /\ cfOwner' \in CfRunners \cup {CfNobody}
  /\ cfFaults' \in 0 .. CfMaxFaults
  /\ \A q \in CfRequests :
       /\ cfStatus'[q] = "none" <=> cfStatus[q] = "none"
       /\ cfStatus[q] = "none" => cfEntry'[q] = "none"

\* A step of one runner keeps the invariant when it does no more than that.
LEMMA RunnerGoesOn ==
  ASSUME ReloadInv, NEW c \in CfRunners, NEW m, RunnerFits(m), RequestsGoOn,
         cfRunner' = [cfRunner EXCEPT ![c] = m]
  PROVE  ReloadInv'
<1>1. cfRunner \in [CfRunners -> CfRec]
  BY DEF ReloadInv, CfTypeOK, CfRec
<1>2. cfRunner' \in [CfRunners -> CfRec]
  BY <1>1 DEF RunnerFits
<1>3. CfTypeOK'
  BY <1>2 DEF ReloadInv, CfTypeOK, CfRec, RequestsGoOn
<1>4. ASSUME NEW d \in CfRunners
      PROVE  ReloadHeld(d)'
  <2>1. CASE d = c
    BY <1>1, <2>1 DEF ReloadHeld, RunnerFits, RequestsGoOn
  <2>2. CASE d # c
    BY <1>1, <2>2 DEF ReloadHeld, ReloadInv, RequestsGoOn
  <2> QED
    BY <2>1, <2>2
<1>5. \A q \in CfRequests :
        /\ cfAsked'[q] <= cfVersion'
        /\ cfStatus'[q] = "none" => cfEntry'[q] = "none"
  BY DEF ReloadInv, RequestsGoOn
<1> QED
  BY <1>3, <1>4, <1>5 DEF ReloadInv

\* What a connection makes of a runner.
LEMMA ConnectedRunner ==
  ASSUME ReloadInv, NEW c \in CfRunners
  PROVE  /\ CfConnected(c) \in CfRec
         /\ CfConnected(c).at = cfRunner[c].at
         /\ CfConnected(c).batch = cfRunner[c].batch
         /\ CfConnected(c).req = cfRunner[c].req
         /\ cfRunner[c].client = 0 => CfConnected(c).client \in {0, cfVersion}
<1>1. cfRunner[c] \in CfRec /\ cfVersion \in 0 .. CfMaxVersion
  BY ConfigAssumption DEF ReloadInv, CfTypeOK, CfRec
<1> QED
  BY <1>1 DEF CfConnected, CfRec

LEMMA ReloadInit == CfInit => ReloadInv
  BY ConfigAssumption DEF CfInit, ReloadInv, CfTypeOK, ReloadHeld, CfOff, CfTerminal

\* The steps of a runner.
LEMMA ReloadRunnerStep ==
  ASSUME ReloadInv, NEW c \in CfRunners, CfRunnerStep(c)
  PROVE  ReloadInv'
<1> DEFINE R == cfRunner[c]
<1>1. /\ R \in CfRec
      /\ cfStatus \in [CfRequests -> {"none", "queued", "reloading"} \cup CfTerminal]
      /\ cfEntry \in [CfRequests -> {"none", "new", "pending", "gone"}]
      /\ cfOwner \in CfRunners \cup {CfNobody}
      /\ cfFaults \in 0 .. CfMaxFaults /\ CfMaxFaults \in Nat /\ 0 \in 0 .. CfMaxVersion
      /\ cfVersion \in 1 .. CfMaxVersion
      /\ cfAsked \in [CfRequests -> 0 .. CfMaxVersion]
  BY ConfigAssumption DEF ReloadInv, CfTypeOK, CfRec
<1>2. /\ \A q \in CfRequests :
           /\ cfAsked[q] <= cfVersion
           /\ cfStatus[q] = "none" => cfEntry[q] = "none"
      /\ ReloadHeld(c)
  BY DEF ReloadInv
<1>3. /\ CfConnected(c) \in CfRec
      /\ CfConnected(c).at = R.at
      /\ CfConnected(c).batch = R.batch
      /\ CfConnected(c).req = R.req
      /\ R.client = 0 => CfConnected(c).client \in {0, cfVersion}
  BY ConnectedRunner
<1>4. CfFault => cfFaults' \in 0 .. CfMaxFaults
  BY <1>1 DEF CfFault
<1>5. CASE CfStart(c)
  <2> DEFINE m == [CfConnected(c) EXCEPT !.at = "loop"]
  <2>1. m \in CfRec /\ m.batch = R.batch /\ m.req = R.req /\ m.at = "loop"
    BY <1>3 DEF CfRec
  <2>2. cfRunner' = [cfRunner EXCEPT ![c] = m]
    BY <1>5 DEF CfStart
  <2> HIDE DEF m
  <2>3. RunnerFits(m)
    BY <1>1, <1>2, <2>1 DEF ReloadHeld, RunnerFits
  <2>4. RequestsGoOn
    BY <1>1, <1>2, <1>5 DEF CfStart, RequestsGoOn
  <2> QED
    BY <2>3, <2>4, <2>2, RunnerGoesOn
<1>6. CASE CfPoll(c)
  <2> DEFINE m == [R EXCEPT !.at = "stop", !.req = CfNobody]
  <2>1. m \in CfRec /\ m.batch = R.batch /\ m.req = CfNobody /\ m.at = "stop"
    BY <1>1 DEF CfRec
  <2>2. cfRunner' = [cfRunner EXCEPT ![c] = m]
    BY <1>6 DEF CfPoll
  <2>3. \A q \in CfRequests : q # CfNobody
    BY ConfigAssumption
  <2> HIDE DEF m
  <2>4. RunnerFits(m)
    BY <1>2, <2>1, <2>3 DEF ReloadHeld, RunnerFits
  <2>5. RequestsGoOn
    BY <1>1, <1>2, <1>6 DEF CfPoll, RequestsGoOn
  <2> QED
    BY <2>4, <2>5, <2>2, RunnerGoesOn
<1>7. CASE CfRetryConnect(c)
  <2> DEFINE m == CfConnected(c)
  <2>1. cfRunner' = [cfRunner EXCEPT ![c] = m] /\ m.at = "loop"
    BY <1>3, <1>7 DEF CfRetryConnect, CfInLoop
  <2> HIDE DEF m
  <2>2. RunnerFits(m)
    BY <1>1, <1>2, <1>3, <2>1 DEF ReloadHeld, m, RunnerFits
  <2>3. RequestsGoOn
    BY <1>1, <1>2, <1>7 DEF CfRetryConnect, RequestsGoOn
  <2> QED
    BY <2>2, <2>3, <2>1, RunnerGoesOn
<1>8. CASE CfReadControls(c)
  <2>1. PICK old \in {{}, {q \in CfRequests : cfEntry[q] = "pending"}} :
          LET taken == {q \in CfRequests : cfEntry[q] = "new"} \cup old IN
          /\ cfRunner' = [cfRunner EXCEPT ![c].at = "handle", ![c].batch = taken]
          /\ cfEntry' = [q \in CfRequests |-> IF q \in taken THEN "pending" ELSE cfEntry[q]]
    BY <1>8 DEF CfReadControls, CfNewControls, CfStaleControls
  <2> DEFINE taken == {q \in CfRequests : cfEntry[q] = "new"} \cup old
             m == [R EXCEPT !.at = "handle", !.batch = taken]
  <2>2. \A q \in taken : q \in CfRequests /\ cfStatus[q] # "none"
    BY <1>2
  <2>3. m \in CfRec /\ m.batch = taken /\ m.req = R.req /\ m.at = "handle"
    BY <1>1, <2>2 DEF CfRec
  <2>4. cfRunner' = [cfRunner EXCEPT ![c] = m]
    BY <2>1
  <2>5. /\ cfEntry' \in [CfRequests -> {"none", "new", "pending", "gone"}]
        /\ \A q \in CfRequests : cfStatus[q] = "none" => cfEntry'[q] = "none"
    BY <1>1, <1>2, <2>1, <2>2
  <2> HIDE DEF m, taken
  <2>6. RunnerFits(m)
    BY <1>1, <1>2, <2>2, <2>3 DEF ReloadHeld, RunnerFits
  <2>7. RequestsGoOn
    BY <1>1, <1>2, <1>8, <2>5 DEF CfReadControls, RequestsGoOn
  <2> QED
    BY <2>6, <2>7, <2>4, RunnerGoesOn
<1>9. CASE CfHandle(c)
  <2>1. CASE R.batch = {}
    <3> DEFINE m == [R EXCEPT !.at = "loop"]
    <3>1. m \in CfRec /\ m.batch = R.batch /\ m.req = R.req /\ m.at = "loop"
      BY <1>1 DEF CfRec
    <3>2. cfRunner' = [cfRunner EXCEPT ![c] = m]
      BY <1>9, <2>1 DEF CfHandle, CfGo
    <3> HIDE DEF m
    <3>3. RunnerFits(m)
      BY <1>1, <1>2, <3>1, <3>2 DEF ReloadHeld, RunnerFits
    <3>4. RequestsGoOn
      BY <1>1, <1>2, <1>9 DEF CfHandle, RequestsGoOn
    <3> QED
      BY <3>3, <3>4, <3>2, RunnerGoesOn
  <2>2. CASE R.batch # {}
    <3>1. PICK q \in R.batch :
            cfRunner' = [cfRunner EXCEPT ![c].req = q, ![c].batch = @ \ {q},
                           ![c].at = IF cfStatus[q] \in CfTerminal THEN "ack" ELSE "stop"]
      BY <1>9, <2>2 DEF CfHandle
    <3> DEFINE m == [R EXCEPT !.req = q, !.batch = @ \ {q},
                       !.at = IF cfStatus[q] \in CfTerminal THEN "ack" ELSE "stop"]
    <3>2. /\ m \in CfRec /\ m.batch = R.batch \ {q} /\ m.req = q
          /\ m.at \in {"ack", "stop"} /\ q \in CfRequests
      BY <1>1 DEF CfRec
    <3>3. cfRunner' = [cfRunner EXCEPT ![c] = m]
      BY <3>1
    <3> HIDE DEF m
    <3>4. RunnerFits(m)
      BY <1>1, <1>2, <3>2, <3>3 DEF ReloadHeld, RunnerFits
    <3>5. RequestsGoOn
      BY <1>1, <1>2, <1>9 DEF CfHandle, RequestsGoOn
    <3> QED
      BY <3>4, <3>5, <3>3, RunnerGoesOn
  <2> QED
    BY <2>1, <2>2
<1>10. CASE CfStop(c)
  <2> DEFINE m == [R EXCEPT !.at = "connect", !.client = 0]
  <2>1. /\ m \in CfRec /\ m.batch = R.batch /\ m.req = R.req
        /\ m.at = "connect" /\ m.client = 0
    BY <1>1 DEF CfRec
  <2>2. cfRunner' = [cfRunner EXCEPT ![c] = m]
    BY <1>10 DEF CfStop
  <2>3. /\ cfStatus' \in [CfRequests -> {"none", "queued", "reloading"} \cup CfTerminal]
        /\ \A q \in CfRequests : cfStatus'[q] = "none" <=> cfStatus[q] = "none"
    BY <1>1, <1>2, <1>10 DEF CfStop, ReloadHeld
  <2> HIDE DEF m
  <2>4. RunnerFits(m)
    BY <1>1, <1>2, <2>1 DEF ReloadHeld, RunnerFits
  <2>5. RequestsGoOn
    BY <1>1, <1>2, <1>10, <2>3 DEF CfStop, RequestsGoOn
  <2> QED
    BY <2>4, <2>5, <2>2, RunnerGoesOn
<1>11. CASE CfReconnect(c)
  <2> DEFINE m == [CfConnected(c) EXCEPT !.at =
                     IF R.req = CfNobody THEN "loop" ELSE "report"]
  <2>1. /\ m \in CfRec /\ m.batch = R.batch /\ m.req = R.req
        /\ m.at \in {"loop", "report"}
        /\ m.at = "report" => R.req # CfNobody
        /\ m.client = CfConnected(c).client
    BY <1>3 DEF CfRec
  <2>2. cfRunner' = [cfRunner EXCEPT ![c] = m]
    BY <1>11 DEF CfReconnect
  <2>3. R.client = 0
    BY <1>2, <1>11 DEF CfReconnect, ReloadHeld
  <2>4. m.at = "report" => /\ m.req \in CfRequests
                           /\ m.client = 0 \/ cfAsked[m.req] <= m.client
    BY <1>1, <1>2, <1>3, <2>1, <2>3 DEF CfRec
  <2> HIDE DEF m
  <2>5. RunnerFits(m)
    BY <1>1, <1>2, <2>1, <2>4 DEF ReloadHeld, RunnerFits
  <2>6. RequestsGoOn
    BY <1>1, <1>2, <1>11 DEF CfReconnect, RequestsGoOn
  <2> QED
    BY <2>5, <2>6, <2>2, RunnerGoesOn
<1>12. CASE CfComplete(c)
  <2> DEFINE m == [R EXCEPT !.at = "ack"]
  <2>1. m \in CfRec /\ m.batch = R.batch /\ m.req = R.req /\ m.at = "ack"
    BY <1>1 DEF CfRec
  <2>2. cfRunner' = [cfRunner EXCEPT ![c] = m]
    BY <1>12 DEF CfComplete, CfGo
  <2>3. /\ cfStatus' \in [CfRequests -> {"none", "queued", "reloading"} \cup CfTerminal]
        /\ \A q \in CfRequests : cfStatus'[q] = "none" <=> cfStatus[q] = "none"
    BY <1>1, <1>2, <1>12 DEF CfComplete, ReloadHeld, CfTerminal
  <2> HIDE DEF m
  <2>4. RunnerFits(m)
    BY <1>1, <1>2, <2>1 DEF ReloadHeld, RunnerFits
  <2>5. RequestsGoOn
    BY <1>1, <1>2, <1>12, <2>3 DEF CfComplete, RequestsGoOn
  <2> QED
    BY <2>4, <2>5, <2>2, RunnerGoesOn
<1>13. CASE CfAckControl(c)
  <2> DEFINE m == [R EXCEPT !.at = "handle", !.req = CfNobody]
  <2>1. m \in CfRec /\ m.batch = R.batch /\ m.req = CfNobody /\ m.at = "handle"
    BY <1>1 DEF CfRec
  <2>2. cfRunner' = [cfRunner EXCEPT ![c] = m]
    BY <1>13 DEF CfAckControl
  <2>3. /\ cfEntry' \in [CfRequests -> {"none", "new", "pending", "gone"}]
        /\ \A q \in CfRequests : cfStatus[q] = "none" => cfEntry'[q] = "none"
    BY <1>1, <1>2, <1>13 DEF CfAckControl, ReloadHeld
  <2>4. \A q \in CfRequests : q # CfNobody
    BY ConfigAssumption
  <2> HIDE DEF m
  <2>5. RunnerFits(m)
    BY <1>1, <1>2, <2>1, <2>4 DEF ReloadHeld, RunnerFits
  <2>6. RequestsGoOn
    BY <1>1, <1>2, <1>13, <2>3 DEF CfAckControl, RequestsGoOn
  <2> QED
    BY <2>5, <2>6, <2>2, RunnerGoesOn
<1>14. CASE CfRedisFails(c)
  <2> DEFINE m == [R EXCEPT !.at = "loop", !.batch = {}, !.req = CfNobody]
  <2>1. m \in CfRec /\ m.batch = {} /\ m.req = CfNobody /\ m.at = "loop"
    BY <1>1 DEF CfRec
  <2>2. cfRunner' = [cfRunner EXCEPT ![c] = m]
    BY <1>14 DEF CfRedisFails
  <2>3. \A q \in CfRequests : q # CfNobody
    BY ConfigAssumption
  <2> HIDE DEF m
  <2>4. RunnerFits(m)
    BY <1>1, <1>2, <2>1, <2>3 DEF RunnerFits
  <2>5. RequestsGoOn
    BY <1>1, <1>2, <1>4, <1>14 DEF CfRedisFails, RequestsGoOn
  <2> QED
    BY <2>4, <2>5, <2>2, RunnerGoesOn
<1>15. CASE CfLapse(c) \/ CfDies(c)
  <2>1. CfOff \in CfRec /\ CfOff.batch = {} /\ CfOff.req = CfNobody /\ CfOff.at = "off"
    BY <1>1 DEF CfRec, CfOff
  <2>2. cfRunner' = [cfRunner EXCEPT ![c] = CfOff]
    BY <1>15 DEF CfLapse, CfDies
  <2>3. \A q \in CfRequests : q # CfNobody
    BY ConfigAssumption
  <2>4. cfOwner' \in CfRunners \cup {CfNobody} /\ cfFaults' \in 0 .. CfMaxFaults
    BY <1>1, <1>4, <1>15 DEF CfLapse, CfDies
  <2>5. RunnerFits(CfOff)
    BY <1>1, <1>2, <2>1, <2>3 DEF RunnerFits
  <2>6. RequestsGoOn
    BY <1>1, <1>2, <1>15, <2>4 DEF CfLapse, CfDies, RequestsGoOn
  <2> QED
    BY <2>5, <2>6, <2>2, RunnerGoesOn
<1> QED
  BY <1>5, <1>6, <1>7, <1>8, <1>9, <1>10, <1>11, <1>12, <1>13, <1>14, <1>15
  DEF CfRunnerStep, CfLoopStep

LEMMA ReloadStep ==
  ASSUME ReloadInv, [CfNext]_cfVars
  PROVE  ReloadInv'
<1>1. CASE CfSave
  BY <1>1, ConfigAssumption DEF CfSave, ReloadInv, CfTypeOK, ReloadHeld
<1>2. CASE CfExpire
  BY <1>2, ConfigAssumption DEF CfExpire, CfFault, ReloadInv, CfTypeOK, ReloadHeld
<1>3. ASSUME NEW q \in CfRequests, CfEnqueueReload(q)
      PROVE  ReloadInv'
  <2>1. CfTypeOK'
    BY <1>3, ConfigAssumption DEF CfEnqueueReload, ReloadInv, CfTypeOK
  <2>2. \A p \in CfRequests :
          /\ cfAsked'[p] <= cfVersion'
          /\ cfStatus'[p] = "none" => cfEntry'[p] = "none"
    BY <1>3, ConfigAssumption DEF CfEnqueueReload, ReloadInv, CfTypeOK
  <2>3. \A p \in CfRequests : cfStatus[p] # "none" =>
          cfStatus'[p] # "none" /\ cfAsked'[p] = cfAsked[p]
    BY <1>3 DEF CfEnqueueReload, ReloadInv, CfTypeOK
  <2>4. \A c \in CfRunners : ReloadHeld(c)'
    BY <1>3, <2>3 DEF CfEnqueueReload, ReloadInv, ReloadHeld
  <2> QED
    BY <2>1, <2>2, <2>4 DEF ReloadInv
<1>4. CASE \E c \in CfRunners : CfRunnerStep(c)
  BY <1>4, ReloadRunnerStep
<1>5. CASE UNCHANGED cfVars
  BY <1>5 DEF cfVars, ReloadInv, CfTypeOK, ReloadHeld
<1> QED
  BY <1>1, <1>2, <1>3, <1>4, <1>5 DEF CfNext

\* Only the report of a runner makes a request applied.
LEMMA AppliedByReport ==
  ASSUME ReloadInv, [CfNext]_cfVars, NEW q \in CfRequests,
         cfStatus[q] # "reload_applied", cfStatus'[q] = "reload_applied"
  PROVE  \E c \in CfRunners : cfRunner[c].req = q /\ cfRunner[c].client >= cfAsked[q]
<1>1. cfStatus \in [CfRequests -> {"none", "queued", "reloading"} \cup CfTerminal]
  BY DEF ReloadInv, CfTypeOK
<1>2. PICK c \in CfRunners : CfComplete(c)
  BY <1>1 DEF CfNext, CfRunnerStep, CfLoopStep, CfSave, CfExpire, CfEnqueueReload,
     CfStart, CfPoll, CfRetryConnect, CfReadControls, CfHandle, CfStop, CfReconnect,
     CfAckControl, CfLapse, CfRedisFails, CfDies, cfVars
<1>3. cfRunner[c].req = q /\ cfRunner[c].client # 0 /\ cfRunner[c].at = "report"
  BY <1>1, <1>2 DEF CfComplete, CfTerminal
<1>4. cfAsked[q] <= cfRunner[c].client
  BY <1>3 DEF ReloadInv, ReloadHeld
<1>5. cfAsked[q] \in Int /\ cfRunner[c].client \in Int
  BY ConfigAssumption DEF ReloadInv, CfTypeOK
<1> QED
  BY <1>3, <1>4, <1>5

\* Whoever is told that a reload was applied finds it applied, with any number
\* of requests, runners, edits and failures.
THEOREM ReloadAppliedIsNew == CfSpec => AppliedIsNew
<1>1. ReloadInv /\ [CfNext]_cfVars => ReloadInv'
  BY ReloadStep
<1>2. ReloadInv /\ [CfNext]_cfVars =>
        [\A q \in CfRequests :
           cfStatus[q] # "reload_applied" /\ cfStatus'[q] = "reload_applied" =>
             \E c \in CfRunners : cfRunner[c].req = q /\ cfRunner[c].client >= cfAsked[q]]_cfVars
  BY AppliedByReport
<1> QED
  BY <1>1, <1>2, ReloadInit, PTL DEF CfSpec, AppliedIsNew

-----------------------------------------------------------------------------
(* Projects.  A request that has been validated names a room, and the      *)
(* scheme, once written, a room, a project and two members.                *)

SchemeRows == [room : PrRooms, project : PrProjects,
               sensor : PrSensorRows, device : PrDeviceRows]

RequestHeld(q) ==
  /\ q.op = "member" =>
       /\ q.id \in PrMembers
       /\ q.row \in [room : PrRooms, project : PrProjects \cup {PrNone}]
  /\ q.op = "room" => q.id \in PrRooms /\ q.project \in PrProjects
  /\ q.op = "scheme" => q.row \in SchemeRows

RowsHeld ==
  /\ prProjects \subseteq PrProjects
  /\ prRoom \in [PrRooms -> PrProjects \cup {PrNone}]
  /\ prMember \in [PrMembers -> PrPlaces]
  /\ prScheme \in SchemeRows \/ prScheme = PrNoScheme

RoomsInv ==
  /\ RowsHeld
  /\ prReq = [u \in PrAdmins |-> prReq[u]]
  /\ \A u \in PrAdmins : RequestHeld(prReq[u])

\* The scheme of a room and its members stay.
SchemeStays ==
  PrAligned => /\ PrExists(prScheme')
               /\ \A m \in {prScheme.sensor, prScheme.device} : PrExists(prMember'[m])

LEMMA RoomsInit == PrInit => RoomsInv
  BY ProjectAssumption
  DEF PrInit, RoomsInv, RowsHeld, RequestHeld, PrIdle, PrIn, PrNoRow, PrPlaces, PrMembers

\* Reading and validating.
LEMMA AskKeeps ==
  ASSUME RoomsInv, NEW u \in PrAdmins,
         CreateMember(u) \/ UpdateMember(u) \/ WriteSection(u) \/ ValidateScheme(u)
           \/ ValidateRule(u) \/ ValidateView(u)
  PROVE  RoomsInv'
<1>1. ASSUME NEW q, PrAsk(u, q), RequestHeld(q)
      PROVE  RoomsInv'
  BY <1>1 DEF PrAsk, prRows, RoomsInv, RowsHeld
<1>2. \A r \in PrRooms : PrRoomRow(r) => prRoom[r] \in PrProjects
  BY DEF RoomsInv, RowsHeld, PrRoomRow
<1>3. \A m \in PrMembers : prMember[m] \in PrPlaces
  BY DEF RoomsInv, RowsHeld
<1>4. CASE CreateMember(u)
  BY <1>1, <1>2, <1>4 DEF CreateMember, PrIn, RequestHeld
<1>5. CASE UpdateMember(u)
  <2>1. \A m \in PrMembers : PrExists(prMember[m]) =>
          prMember[m] \in [room : PrRooms, project : PrProjects \cup {PrNone}]
    BY <1>3 DEF PrExists, PrPlaces
  <2>2. ASSUME NEW m \in PrMembers, PrExists(prMember[m]),
               PrAsk(u, [op |-> "member", id |-> m, row |-> prMember[m]])
        PROVE  RoomsInv'
    BY <1>1, <2>1, <2>2 DEF RequestHeld
  <2>3. ASSUME NEW m \in PrMembers, NEW r \in PrRooms, PrRoomRow(r),
               PrAsk(u, [op |-> "member", id |-> m, row |-> PrIn(r, prRoom[r])])
        PROVE  RoomsInv'
    BY <1>1, <1>2, <2>3 DEF RequestHeld, PrIn
  <2> QED
    BY <1>5, <2>2, <2>3 DEF UpdateMember
<1>6. CASE WriteSection(u)
  BY <1>1, <1>6 DEF WriteSection, RequestHeld, RoomsInv, RowsHeld
<1>7. CASE ValidateScheme(u)
  <2>1. PICK s \in PrSensorRows, d \in PrDeviceRows, r \in PrRooms :
          /\ PrRoomRow(r)
          /\ PrAsk(u, [op |-> "scheme", row |->
               [room |-> r, project |-> prRoom[r], sensor |-> s, device |-> d]])
    BY <1>7 DEF ValidateScheme
  <2> QED
    BY <1>1, <1>2, <2>1 DEF RequestHeld, SchemeRows
<1>8. CASE ValidateRule(u)
  BY <1>1, <1>8 DEF ValidateRule, RequestHeld
<1>9. CASE ValidateView(u)
  BY <1>1, <1>9 DEF ValidateView, RequestHeld
<1> QED
  BY <1>4, <1>5, <1>6, <1>7, <1>8, <1>9

\* A step that writes rows as they are permitted, and answers at most.
LEMMA RowsKeep ==
  ASSUME RoomsInv, RowsHeld',
         prReq' = prReq \/ \E u \in PrAdmins : PrAnswer(u)
  PROVE  RoomsInv'
  BY DEF RoomsInv, RequestHeld, PrAnswer, PrIdle

\* Saving.
LEMMA SaveRowsKeep ==
  ASSUME RoomsInv, NEW u \in PrAdmins,
         SaveMember(u) \/ SaveSection(u) \/ SaveScheme(u) \/ SaveItem(u) \/ PrFails(u)
  PROVE  RoomsInv' /\ SchemeStays
<1>1. RowsHeld /\ RequestHeld(prReq[u])
  BY DEF RoomsInv
<1>2. PrAligned => /\ PrExists(prScheme) /\ prScheme \in SchemeRows
                   /\ \A m \in {prScheme.sensor, prScheme.device} :
                        m \in PrMembers /\ PrExists(prMember[m])
  BY <1>1 DEF PrAligned, PrExists, RowsHeld, PrNoScheme, SchemeRows, PrMembers, PrIn
<1>3. \A place \in SchemeRows : PrExists(place)
  BY ProjectAssumption DEF SchemeRows, PrExists
<1>4. CASE SaveMember(u)
  <2>1. prReq[u].id \in PrMembers
        /\ prReq[u].row \in [room : PrRooms, project : PrProjects \cup {PrNone}]
    BY <1>1, <1>4 DEF SaveMember, RequestHeld
  <2>2. prReq[u].row \in PrPlaces /\ PrExists(prReq[u].row)
    BY <2>1, ProjectAssumption DEF PrPlaces, PrExists
  <2>3. prMember' = [prMember EXCEPT ![prReq[u].id] = prReq[u].row]
        /\ UNCHANGED <<prProjects, prRoom, prScheme>> /\ PrAnswer(u)
    BY <1>4 DEF SaveMember
  <2>4. RowsHeld' /\ \A m \in PrMembers : PrExists(prMember[m]) => PrExists(prMember'[m])
    BY <1>1, <2>1, <2>2, <2>3 DEF RowsHeld
  <2> QED
    BY <1>2, <2>3, <2>4, RowsKeep DEF SchemeStays
<1>5. CASE SaveSection(u)
  <2>1. RowsHeld' /\ UNCHANGED <<prMember, prScheme>> /\ PrAnswer(u)
    BY <1>1, <1>5 DEF SaveSection, RowsHeld, RequestHeld
  <2> QED
    BY <1>2, <2>1, RowsKeep DEF SchemeStays
<1>6. CASE SaveScheme(u)
  <2>1. prScheme' \in SchemeRows /\ UNCHANGED <<prProjects, prRoom, prMember>> /\ PrAnswer(u)
    BY <1>1, <1>6 DEF SaveScheme, RequestHeld
  <2>2. RowsHeld'
    BY <1>1, <2>1 DEF RowsHeld
  <2> QED
    BY <1>2, <1>3, <2>1, <2>2, RowsKeep DEF SchemeStays
<1>7. CASE SaveItem(u) \/ PrFails(u)
  <2>1. RowsHeld' /\ UNCHANGED <<prMember, prScheme>> /\ PrAnswer(u)
    BY <1>1, <1>7 DEF SaveItem, PrFails, prRows, RowsHeld
  <2> QED
    BY <1>2, <2>1, RowsKeep DEF SchemeStays
<1> QED
  BY <1>4, <1>5, <1>6, <1>7

\* Deleting.  A scheme that is aligned falls only with a room or a project in
\* which its members fall too, and those it protects.
LEMMA DeleteKeeps ==
  ASSUME RoomsInv, NEW ps \in SUBSET PrProjects, NEW rs \in SUBSET PrRooms,
         NEW ms \in SUBSET PrMembers, PrDelete(ps, rs, ms)
  PROVE  RoomsInv' /\ SchemeStays
<1> DEFINE gone == ms \cup {m \in PrMembers : prMember[m].room \in rs \/ prMember[m].project \in ps}
           Falls(place) == place.room \in rs \/ place.project \in ps
<1>1. /\ ~Protected(gone)
      /\ prProjects' = prProjects \ ps
      /\ prRoom' = [r \in PrRooms |-> IF r \in rs THEN PrNone ELSE prRoom[r]]
      /\ prMember' = [m \in PrMembers |-> IF m \in gone THEN PrNoRow ELSE prMember[m]]
      /\ prScheme' = IF Falls(prScheme) THEN PrNoScheme ELSE prScheme
      /\ prReq' = prReq
  BY DEF PrDelete
<1>2. PrNoRow \in PrPlaces
  BY DEF PrNoRow, PrIn, PrPlaces
<1>3. RowsHeld'
  BY <1>1, <1>2 DEF RoomsInv, RowsHeld
<1>4. ASSUME PrAligned
      PROVE  /\ PrExists(prScheme')
             /\ \A m \in {prScheme.sensor, prScheme.device} : PrExists(prMember'[m])
  <2>1. prScheme \in SchemeRows /\ PrExists(prScheme)
    BY <1>4 DEF PrAligned, PrExists, RoomsInv, RowsHeld, PrNoScheme
  <2>2. /\ prScheme.sensor \in PrMembers \ gone
        /\ prScheme.device \in PrMembers \ gone
    BY <1>1, <2>1 DEF Protected, SchemeRows, PrMembers
  <2>3. \A m \in {prScheme.sensor, prScheme.device} :
          prMember[m] = [room |-> prScheme.room, project |-> prScheme.project]
    BY <1>4 DEF PrAligned, PrIn
  <2>4. ~Falls(prScheme)
    BY <2>2, <2>3
  <2>5. \A m \in {prScheme.sensor, prScheme.device} : prMember'[m] = prMember[m]
    BY <1>1, <2>2
  <2> QED
    BY <1>1, <2>1, <2>3, <2>4, <2>5 DEF PrExists
<1> QED
  BY <1>1, <1>3, <1>4, RowsKeep DEF SchemeStays

LEMMA RoomsStep ==
  ASSUME RoomsInv, [PrNext]_prVars
  PROVE  /\ RoomsInv'
         /\ PrAligned =>
              /\ PrExists(prScheme') \/ DestroyScheme
              /\ \A m \in {prScheme.sensor, prScheme.device} : PrExists(prMember'[m])
<1>1. RowsHeld
  BY DEF RoomsInv
<1>2. PrAligned =>
        /\ PrExists(prScheme)
        /\ \A m \in {prScheme.sensor, prScheme.device} : PrExists(prMember[m])
  BY DEF PrAligned, PrExists, PrIn
<1>3. ASSUME NEW u \in PrAdmins, PrRequest(u)
      PROVE  RoomsInv' /\ SchemeStays
  <2>1. CASE \/ CreateMember(u) \/ UpdateMember(u) \/ WriteSection(u)
             \/ ValidateScheme(u) \/ ValidateRule(u) \/ ValidateView(u)
    <3>1. UNCHANGED <<prMember, prScheme>>
      BY <2>1 DEF CreateMember, UpdateMember, WriteSection, ValidateScheme,
         ValidateRule, ValidateView, PrAsk, prRows
    <3> QED
      BY <2>1, AskKeeps, <1>2, <3>1 DEF SchemeStays
  <2>2. CASE SaveMember(u) \/ SaveSection(u) \/ SaveScheme(u) \/ SaveItem(u) \/ PrFails(u)
    BY <2>2, SaveRowsKeep
  <2> QED
    BY <1>3, <2>1, <2>2 DEF PrRequest
<1>4. CASE DestroyProject \/ DestroySection \/ DestroyMember \/ DestroySource
  <2>1. PICK ps \in SUBSET PrProjects, rs \in SUBSET PrRooms, ms \in SUBSET PrMembers :
          PrDelete(ps, rs, ms)
    BY <1>1, <1>4 DEF DestroyProject, DestroySection, DestroyMember, DestroySource,
       RowsHeld, PrMembers
  <2> QED
    BY <2>1, DeleteKeeps DEF SchemeStays
<1>5. CASE DestroyScheme
  <2>1. RowsHeld' /\ prReq' = prReq /\ prMember' = prMember
    BY <1>1, <1>5 DEF DestroyScheme, RowsHeld
  <2> QED
    BY <1>2, <1>5, <2>1, RowsKeep
<1>6. CASE UNCHANGED prVars
  <2>1. RowsHeld' /\ UNCHANGED <<prReq, prMember, prScheme>>
    BY <1>1, <1>6 DEF prVars, prRows, RowsHeld
  <2> QED
    BY <1>2, <2>1, RowsKeep DEF SchemeStays
<1> QED
  BY <1>3, <1>4, <1>5, <1>6 DEF PrNext, SchemeStays

\* A control scheme whose members are in its room outlives every deletion but
\* its own, with any number of projects, rooms, members and requests.
THEOREM ProjectSchemeProtected == PrSpec => SchemeProtected
<1>1. RoomsInv /\ [PrNext]_prVars => RoomsInv'
  BY RoomsStep
<1>2. RoomsInv /\ [PrNext]_prVars =>
        [PrAligned =>
           /\ PrExists(prScheme') \/ DestroyScheme
           /\ \A m \in {prScheme.sensor, prScheme.device} : PrExists(prMember'[m])]_prVars
  BY RoomsStep
<1> QED
  BY <1>1, <1>2, RoomsInit, PTL DEF PrSpec, SchemeProtected

-----------------------------------------------------------------------------
(* What a rule prints.  The file is always a beginning of what was printed *)
(* and, after a loss, a beginning of the marker.                           *)

CpWriters ==
  [step : {"idle", "text", "mark", "dead"}, from : Nat, kept : Nat,
   left : Nat, lost : BOOLEAN, remaining : 0 .. CpLimit, truncated : BOOLEAN, disabled : BOOLEAN]

CpFull == CpLimit + CpMarker

(* The bytes are the first that were printed, up to the limit, and then    *)
(* those of the marker, which are there only if something was lost.        *)
CpShaped(bytes, printed) ==
  /\ bytes \in Seq(Nat) /\ Len(bytes) <= CpFull
  /\ \A i \in 1 .. Len(bytes) : bytes[i] = IF i <= CpLimit THEN i ELSE 0
  /\ Len(bytes) <= CpLimit => Len(bytes) <= printed
  /\ Len(bytes) > CpLimit => printed > CpLimit

CpWhole(length, printed) ==
  length = CpFull \/ (length = printed /\ printed <= CpLimit)

(* The writer w in the middle of a text or of the marker, with so many     *)
(* bytes in the file.                                                      *)
CpBusy(w, length, printed) ==
  /\ ~w.disabled /\ ~w.truncated
  /\ w.step = "text" =>
       /\ length = w.from /\ w.from + w.left = CpLimit - w.remaining + w.kept
       /\ w.kept <= w.remaining
       /\ w.lost => w.kept = w.remaining /\ printed > CpLimit
       /\ ~w.lost => printed = CpLimit - w.remaining + w.kept
  /\ w.step = "mark" =>
       /\ w.left <= CpMarker /\ length + w.left = CpFull /\ printed > CpLimit

CpPhased(w, length, printed, report) ==
  /\ w.step \in {"text", "mark"} => w.left > 0 /\ CpBusy(w, length, printed)
  /\ w.step = "idle" /\ ~w.disabled =>
       IF w.truncated THEN length = CpFull
       ELSE length = CpLimit - w.remaining /\ length = printed
  /\ report # "none" => w.step = "dead" /\ (~w.disabled => CpWhole(length, printed))

(* Each record ends at least two bytes after the one before.               *)
CpLined(lines, printed) ==
  /\ lines \in Seq(Nat)
  /\ \A n \in 1 .. Len(lines) : 2 <= lines[n] /\ lines[n] <= printed
  /\ \A m, n \in 1 .. Len(lines) : m < n => lines[m] + 2 <= lines[n]

CpHasRead(r, w, printed) ==
  r.read =>
    /\ CpShaped(r.bytes, printed)
    /\ r.final => w.step = "dead" /\ (~w.disabled => CpWhole(Len(r.bytes), printed))

CpInv ==
  /\ CpTypeOK
  /\ CpShaped(cpFile, cpPrinted)
  /\ CpPhased(cpWriter, Len(cpFile), cpPrinted, cpReport)
  /\ CpLined(cpLines, cpPrinted)
  /\ CpHasRead(cpResult, cpWriter, cpPrinted)

(* The writer goes on as it should when os.write has written a part.       *)
LEMMA CpThenKeeps ==
  ASSUME NEW w \in CpWriters, w.step \in {"text", "mark"},
         NEW length \in Nat, NEW printed \in Nat, CpBusy(w, length, printed)
  PROVE  CpThen(w) \in CpWriters /\ CpPhased(CpThen(w), length, printed, "none")
<1> USE CaptureAssumption
<1>1. CASE w.left > 0
  BY <1>1 DEF CpThen, CpPhased, CpWriters
<1>2. CASE ~(w.left > 0) /\ w.step = "mark"
  <2>1. CpThen(w) = [w EXCEPT !.step = "idle", !.truncated = TRUE]
    BY <1>2 DEF CpThen
  <2> DEFINE v == [w EXCEPT !.step = "idle", !.truncated = TRUE]
  <2>2. v \in CpWriters /\ v.step = "idle" /\ v.truncated
    BY DEF CpWriters
  <2>3. length = CpFull
    BY <1>2 DEF CpWriters, CpBusy, CpFull
  <2> QED
    BY <2>1, <2>2, <2>3 DEF CpPhased
<1>3. CASE ~(w.left > 0) /\ w.step = "text"
  <2> DEFINE v == [w EXCEPT !.remaining = w.remaining - w.kept,
                            !.step = IF w.lost THEN "mark" ELSE "idle",
                            !.left = IF w.lost THEN CpMarker ELSE 0]
  <2>1. CpThen(w) = v
    BY <1>3 DEF CpThen
  <2>2. /\ w.left = 0 /\ w.from = length /\ w.remaining \in Nat /\ w.kept \in Nat
        /\ w.from = CpLimit - w.remaining + w.kept /\ w.kept <= w.remaining
    BY <1>3 DEF CpWriters, CpBusy
  <2>3. w.remaining - w.kept \in 0 .. CpLimit
    BY <2>2 DEF CpWriters
  <2>4. /\ v \in CpWriters /\ v.step = (IF w.lost THEN "mark" ELSE "idle")
        /\ v.left = (IF w.lost THEN CpMarker ELSE 0) /\ v.remaining = w.remaining - w.kept
        /\ v.disabled = w.disabled /\ v.truncated = w.truncated
    BY <2>3 DEF CpWriters
  <2> HIDE DEF v
  <2>5. ~w.disabled /\ ~w.truncated
    BY DEF CpBusy
  <2>6. CASE w.lost
    <3>1. length = CpLimit /\ printed > CpLimit
      BY <1>3, <2>2, <2>6 DEF CpBusy
    <3> QED
      BY <2>1, <2>4, <2>5, <2>6, <3>1 DEF CpPhased, CpBusy, CpFull
  <2>7. CASE ~w.lost
    <3>1. printed = length /\ length = CpLimit - v.remaining
      BY <1>3, <2>2, <2>4, <2>7 DEF CpBusy
    <3> QED
      BY <2>1, <2>4, <2>5, <2>7, <3>1 DEF CpPhased
  <2> QED
    BY <2>6, <2>7 DEF CpWriters
<1> QED
  BY <1>1, <1>2, <1>3

LEMMA CpAppended ==
  ASSUME NEW file \in Seq(Nat), NEW printed \in Nat, CpShaped(file, printed),
         NEW n \in Nat, NEW more \in [1 .. n -> Nat], Len(file) + n <= CpFull,
         \A i \in 1 .. n : more[i] = IF Len(file) + i <= CpLimit THEN Len(file) + i ELSE 0,
         Len(file) + n <= CpLimit => Len(file) + n <= printed,
         Len(file) + n > CpLimit => printed > CpLimit
  PROVE  Len(file \o more) = Len(file) + n /\ CpShaped(file \o more, printed)
<1>1. more \in Seq(Nat) /\ Len(more) = n /\ Len(file) \in Nat
  BY LenProperties
<1>2. /\ file \o more \in Seq(Nat) /\ Len(file \o more) = Len(file) + n
      /\ \A i \in 1 .. Len(file) + n :
           (file \o more)[i] = IF i <= Len(file) THEN file[i] ELSE more[i - Len(file)]
  BY <1>1, ConcatProperties
<1>3. ASSUME NEW i \in 1 .. Len(file) + n
      PROVE  (file \o more)[i] = IF i <= CpLimit THEN i ELSE 0
  <2>1. CASE i <= Len(file)
    BY <1>1, <1>2, <2>1 DEF CpShaped
  <2>2. CASE ~(i <= Len(file))
    <3>1. i - Len(file) \in 1 .. n /\ Len(file) + (i - Len(file)) = i
      BY <1>1, <2>2
    <3> QED
      BY <1>2, <2>2, <3>1
  <2> QED
    BY <2>1, <2>2
<1> QED
  BY <1>1, <1>2, <1>3 DEF CpShaped

LEMMA CpReadStays ==
  ASSUME NEW r \in [read : BOOLEAN, final : BOOLEAN, bytes : Seq(Nat)], NEW w, NEW v,
         NEW printed \in Nat, NEW more \in Nat, printed <= more, CpHasRead(r, w, printed),
         w.step = "dead" => v = w /\ more = printed
  PROVE  CpHasRead(r, v, more)
BY LenProperties, CaptureAssumption DEF CpHasRead, CpShaped, CpWhole

LEMMA CpStates ==
  ASSUME CpInv
  PROVE  /\ cpWriter \in CpWriters /\ cpPrinted \in Nat /\ cpFile \in Seq(Nat)
         /\ Len(cpFile) \in Nat /\ CpLimit \in Nat /\ CpMarker \in Nat /\ CpFull \in Nat
         /\ cpResult \in [read : BOOLEAN, final : BOOLEAN, bytes : Seq(Nat)]
<1>1. cpFile \in Seq(Nat) /\ cpWriter \in CpWriters /\ cpPrinted \in Nat
  BY DEF CpInv, CpTypeOK, CpWriters
<1>2. cpResult \in [read : BOOLEAN, final : BOOLEAN, bytes : Seq(Nat)]
  BY DEF CpInv, CpTypeOK
<1>3. Len(cpFile) \in Nat
  BY <1>1, LenProperties
<1> QED
  BY <1>1, <1>2, <1>3, CaptureAssumption DEF CpFull

(* What the steps of the writer keep; the lines apart.                     *)
CpKeeps ==
  /\ cpWriter' \in CpWriters
  /\ CpShaped(cpFile', cpPrinted')
  /\ CpPhased(cpWriter', Len(cpFile'), cpPrinted', cpReport')
  /\ CpHasRead(cpResult', cpWriter', cpPrinted')

LEMMA CpWriteKeeps ==
  ASSUME CpInv, NEW chars \in Nat, NEW data \in Nat, NEW rest \in Nat, CpWrite(chars, data, rest)
  PROVE  /\ CpKeeps /\ cpPrinted' = cpPrinted + data + rest /\ cpWrites' \in 0 .. CpMaxWrites
         /\ UNCHANGED <<cpChannel, cpFile, cpReport, cpResult>>
<1> DEFINE remaining == cpWriter.remaining
           candidate == CpLess(chars, remaining)
           kept      == CpLess(data, remaining)
           lost      == CpLost(chars, candidate, data, kept)
           w == [cpWriter EXCEPT !.step = "text", !.from = cpPrinted, !.kept = kept,
                                 !.left = kept, !.lost = lost]
           n == Len(cpFile)
<1>1. /\ cpWriter.step = "idle" /\ cpWrites < CpMaxWrites
      /\ candidate <= data /\ chars - candidate <= rest /\ rest <= (chars - candidate) * CpWidth
      /\ cpPrinted' = cpPrinted + data + rest /\ cpWrites' = cpWrites + 1
      /\ cpWriter' = IF ~CpOpen THEN cpWriter ELSE CpThen(w)
      /\ UNCHANGED <<cpChannel, cpFile, cpReport, cpResult>>
  BY DEF CpWrite
<1>2. /\ cpWriter \in CpWriters /\ cpPrinted \in Nat /\ cpFile \in Seq(Nat) /\ n \in Nat
      /\ CpLimit \in Nat /\ CpMarker \in Nat
      /\ cpResult \in [read : BOOLEAN, final : BOOLEAN, bytes : Seq(Nat)]
  BY CpStates
<1>3. cpPrinted' \in Nat /\ cpPrinted <= cpPrinted' /\ cpWrites' \in 0 .. CpMaxWrites
  <2>1. cpWrites \in 0 .. CpMaxWrites /\ CpMaxWrites \in Nat
    BY CaptureAssumption DEF CpInv, CpTypeOK
  <2>2. cpWrites' \in 0 .. CpMaxWrites
    BY <1>1, <2>1
  <2> HIDE DEF candidate
  <2> QED
    BY <1>1, <1>2, <2>2
<1>4. cpReport = "none"
  BY <1>1 DEF CpInv, CpPhased
<1>5. CpShaped(cpFile', cpPrinted')
  BY <1>1, <1>2, <1>3 DEF CpInv, CpShaped
<1>6. CpHasRead(cpResult', cpWriter', cpPrinted')
  BY <1>1, <1>2, <1>3, CpReadStays DEF CpInv
<1>7. cpWriter' \in CpWriters /\ CpPhased(cpWriter', n, cpPrinted', "none")
  <2>1. CASE ~CpOpen
    BY <1>1, <1>2, <1>4, <2>1 DEF CpOpen, CpInv, CpPhased
  <2>2. CASE CpOpen
    <3>1. /\ remaining \in 0 .. CpLimit /\ candidate \in Nat /\ kept \in Nat
          /\ kept <= remaining /\ lost \in BOOLEAN
      BY <1>2 DEF CpWriters, CpLess, CpLost
    <3>2. /\ w \in CpWriters /\ w.step = "text" /\ w.from = cpPrinted /\ w.kept = kept
          /\ w.left = kept /\ w.lost = lost /\ w.remaining = remaining
          /\ w.disabled = cpWriter.disabled /\ w.truncated = cpWriter.truncated
      BY <1>2, <3>1 DEF CpWriters
    <3>3. n = CpLimit - remaining /\ n = cpPrinted
      BY <1>1, <2>2 DEF CpOpen, CpInv, CpPhased
    <3>4. lost => kept = remaining /\ cpPrinted' > CpLimit
      BY <1>1, <1>2, <3>1, <3>3 DEF CpLost, CpLess
    <3>5. ~lost => cpPrinted' = CpLimit - remaining + kept \/ rest > 0
      BY <1>1, <1>2, <3>1, <3>3 DEF CpLost, CpLess
    <3>6. ~lost => chars - candidate = 0
      BY <1>1, <1>2, <3>1 DEF CpLost, CpLess
    <3>7. ~lost => rest = 0
      <4>1. ASSUME ~lost PROVE (chars - candidate) * CpWidth = 0
        BY <3>6, <4>1, CaptureAssumption
      <4> HIDE DEF candidate, lost
      <4> QED
        BY <1>1, <4>1
    <3> HIDE DEF w
    <3>8. CpBusy(w, n, cpPrinted')
      BY <1>1, <1>2, <2>2, <3>1, <3>2, <3>3, <3>4, <3>5, <3>7 DEF CpBusy, CpOpen
    <3>9. CpThen(w) \in CpWriters /\ CpPhased(CpThen(w), n, cpPrinted', "none")
      BY <1>2, <1>3, <3>2, <3>8, CpThenKeeps
    <3> QED
      BY <1>1, <2>2, <3>9
  <2> QED
    BY <2>1, <2>2
<1> QED
  BY <1>1, <1>3, <1>4, <1>5, <1>6, <1>7 DEF CpKeeps

LEMMA CpWriteTextKeeps ==
  ASSUME CpInv, CpWriteText
  PROVE  CpKeeps /\ cpFile' \in Seq(Nat)
<1>1. cpWriter.step = "text" /\ UNCHANGED <<cpPrinted, cpReport, cpResult>>
  BY DEF CpWriteText
<1>2. PICK n \in 1 .. cpWriter.left :
        /\ cpFile' = cpFile \o [i \in 1 .. n |-> cpWriter.from + i]
        /\ cpWriter' = CpThen([cpWriter EXCEPT !.from = @ + n, !.left = @ - n])
  BY DEF CpWriteText
<1> DEFINE w == [cpWriter EXCEPT !.from = @ + n, !.left = @ - n]
           more == [i \in 1 .. n |-> cpWriter.from + i]
<1>3. /\ cpWriter \in CpWriters /\ cpPrinted \in Nat /\ cpFile \in Seq(Nat) /\ Len(cpFile) \in Nat
      /\ CpLimit \in Nat /\ CpMarker \in Nat
      /\ cpResult \in [read : BOOLEAN, final : BOOLEAN, bytes : Seq(Nat)]
  BY CpStates
<1>4. /\ n \in Nat /\ cpWriter.left - n \in Nat /\ cpWriter.from + n \in Nat
  BY <1>3 DEF CpWriters
<1>5. /\ w \in CpWriters /\ w.step = "text" /\ w.from = cpWriter.from + n
      /\ w.left = cpWriter.left - n /\ w.kept = cpWriter.kept /\ w.lost = cpWriter.lost
      /\ w.remaining = cpWriter.remaining /\ w.disabled = cpWriter.disabled
      /\ w.truncated = cpWriter.truncated
  BY <1>1, <1>3, <1>4 DEF CpWriters
<1>6. CpBusy(cpWriter, Len(cpFile), cpPrinted) /\ cpReport = "none"
  BY <1>1 DEF CpInv, CpPhased
<1>7. Len(cpFile) = cpWriter.from /\ Len(cpFile) + n <= CpLimit /\ Len(cpFile) + n <= cpPrinted
  BY <1>1, <1>3, <1>4, <1>6 DEF CpBusy, CpWriters
<1>8. more \in [1 .. n -> Nat] /\ \A i \in 1 .. n : more[i] = Len(cpFile) + i /\ Len(cpFile) + i <= CpLimit
  BY <1>3, <1>4, <1>7
<1> HIDE DEF w, more
<1>9. Len(cpFile') = Len(cpFile) + n /\ CpShaped(cpFile', cpPrinted)
  <2>1. CpShaped(cpFile, cpPrinted) /\ Len(cpFile) + n <= CpFull
    BY <1>3, <1>4, <1>7 DEF CpInv, CpFull
  <2> QED
    <3>0. /\ \A i \in 1 .. n :
               more[i] = IF Len(cpFile) + i <= CpLimit THEN Len(cpFile) + i ELSE 0
          /\ Len(cpFile) + n <= CpLimit => Len(cpFile) + n <= cpPrinted
          /\ Len(cpFile) + n > CpLimit => cpPrinted > CpLimit
      BY <1>3, <1>4, <1>7, <1>8, <2>1
    <3>1. /\ Len(cpFile \o more) = Len(cpFile) + n
          /\ CpShaped(cpFile \o more, cpPrinted)
      BY <1>3, <1>4, <1>8, <2>1, <3>0, CpAppended
    <3> QED
      BY <1>2, <3>1 DEF more
<1>10. CpBusy(w, Len(cpFile'), cpPrinted)
  BY <1>1, <1>3, <1>4, <1>5, <1>6, <1>7, <1>9 DEF CpBusy, CpWriters
<1>11. cpWriter' \in CpWriters /\ CpPhased(cpWriter', Len(cpFile'), cpPrinted, "none")
  <2>1. Len(cpFile') \in Nat /\ w.step \in {"text", "mark"}
    BY <1>3, <1>4, <1>5, <1>9
  <2>2. CpThen(w) \in CpWriters /\ CpPhased(CpThen(w), Len(cpFile'), cpPrinted, "none")
    BY <1>3, <1>5, <1>10, <2>1, CpThenKeeps
  <2>3. cpWriter' = CpThen(w)
    BY <1>2 DEF w
  <2> QED
    BY <2>2, <2>3
<1>12. CpHasRead(cpResult', cpWriter', cpPrinted')
  <2>1. cpWriter.step # "dead" /\ CpHasRead(cpResult, cpWriter, cpPrinted)
    BY <1>1 DEF CpInv
  <2> QED
    BY <1>1, <1>3, <2>1, CpReadStays
<1> QED
  BY <1>1, <1>6, <1>9, <1>11, <1>12 DEF CpKeeps, CpShaped

LEMMA CpWriteMarkerKeeps ==
  ASSUME CpInv, CpWriteMarker
  PROVE  CpKeeps /\ cpFile' \in Seq(Nat)
<1>1. cpWriter.step = "mark" /\ UNCHANGED <<cpPrinted, cpReport, cpResult>>
  BY DEF CpWriteMarker
<1>2. PICK n \in 1 .. cpWriter.left :
        /\ cpFile' = cpFile \o [i \in 1 .. n |-> 0]
        /\ cpWriter' = CpThen([cpWriter EXCEPT !.left = @ - n])
  BY DEF CpWriteMarker
<1> DEFINE w == [cpWriter EXCEPT !.left = @ - n]
           more == [i \in 1 .. n |-> 0]
<1>3. /\ cpWriter \in CpWriters /\ cpPrinted \in Nat /\ cpFile \in Seq(Nat) /\ Len(cpFile) \in Nat
      /\ CpLimit \in Nat /\ CpMarker \in Nat
      /\ cpResult \in [read : BOOLEAN, final : BOOLEAN, bytes : Seq(Nat)]
  BY CpStates
<1>4. n \in Nat /\ cpWriter.left \in Nat /\ cpWriter.left - n \in Nat
  BY <1>3 DEF CpWriters
<1>5. /\ w \in CpWriters /\ w.step = "mark" /\ w.left = cpWriter.left - n
      /\ w.disabled = cpWriter.disabled /\ w.truncated = cpWriter.truncated
  BY <1>1, <1>3, <1>4 DEF CpWriters
<1>6. CpBusy(cpWriter, Len(cpFile), cpPrinted) /\ cpReport = "none"
  BY <1>1 DEF CpInv, CpPhased
<1>7. /\ cpWriter.left <= CpMarker /\ Len(cpFile) + cpWriter.left = CpFull /\ cpPrinted > CpLimit
  BY <1>1, <1>6 DEF CpBusy
<1>8. CpLimit <= Len(cpFile) /\ Len(cpFile) + n <= CpFull
  BY <1>3, <1>4, <1>7 DEF CpFull
<1>9. more \in [1 .. n -> Nat] /\ \A i \in 1 .. n : more[i] = 0 /\ Len(cpFile) + i > CpLimit
  BY <1>3, <1>4, <1>8
<1> HIDE DEF w, more
<1>10. Len(cpFile') = Len(cpFile) + n /\ CpShaped(cpFile', cpPrinted)
  <2>1. CpShaped(cpFile, cpPrinted) /\ ~(Len(cpFile) + n <= CpLimit)
    BY <1>2, <1>3, <1>4, <1>8 DEF CpInv
  <2> QED
    <3>0. /\ \A i \in 1 .. n :
               more[i] = IF Len(cpFile) + i <= CpLimit THEN Len(cpFile) + i ELSE 0
          /\ Len(cpFile) + n <= CpLimit => Len(cpFile) + n <= cpPrinted
          /\ Len(cpFile) + n > CpLimit => cpPrinted > CpLimit
      BY <1>3, <1>4, <1>7, <1>8, <1>9, <2>1
    <3>1. /\ Len(cpFile \o more) = Len(cpFile) + n
          /\ CpShaped(cpFile \o more, cpPrinted)
      BY <1>3, <1>4, <1>9, <2>1, <3>0, <1>8, CpAppended
    <3> QED
      BY <1>2, <3>1 DEF more
<1>11. CpBusy(w, Len(cpFile'), cpPrinted)
  BY <1>1, <1>3, <1>4, <1>5, <1>6, <1>7, <1>10 DEF CpBusy, CpFull
<1>12. cpWriter' \in CpWriters /\ CpPhased(cpWriter', Len(cpFile'), cpPrinted, "none")
  <2>1. Len(cpFile') \in Nat /\ w.step \in {"text", "mark"}
    BY <1>3, <1>4, <1>5, <1>10
  <2>2. CpThen(w) \in CpWriters /\ CpPhased(CpThen(w), Len(cpFile'), cpPrinted, "none")
    BY <1>3, <1>5, <1>11, <2>1, CpThenKeeps
  <2>3. cpWriter' = CpThen(w)
    BY <1>2 DEF w
  <2> QED
    BY <2>2, <2>3
<1>13. CpHasRead(cpResult', cpWriter', cpPrinted')
  <2>1. cpWriter.step # "dead" /\ CpHasRead(cpResult, cpWriter, cpPrinted)
    BY <1>1 DEF CpInv
  <2> QED
    BY <1>1, <1>3, <2>1, CpReadStays
<1> QED
  BY <1>1, <1>6, <1>10, <1>12, <1>13 DEF CpKeeps, CpShaped

\* The invariant again, from what a step of the writer keeps.
LEMMA CpKept ==
  ASSUME CpInv, CpKeeps, UNCHANGED <<cpChannel, cpReport, cpResult>>, cpPrinted' \in Nat,
         cpPrinted <= cpPrinted', CpLined(cpLines', cpPrinted'), cpWrites' \in 0 .. CpMaxWrites
  PROVE  CpInv'
BY DEF CpInv, CpKeeps, CpTypeOK, CpWriters, CpShaped, CpLined

LEMMA CpLinesStay ==
  ASSUME CpInv, cpPrinted' \in Nat, cpPrinted <= cpPrinted', UNCHANGED cpLines
  PROVE  CpLined(cpLines', cpPrinted')
<1>1. cpPrinted \in Nat /\ cpLines \in Seq(Nat) /\ CpLined(cpLines, cpPrinted)
  BY DEF CpInv, CpTypeOK
<1>2. \A n \in 1 .. Len(cpLines) : cpLines[n] \in Nat
  BY <1>1, LenProperties
<1> QED
  BY <1>1, <1>2 DEF CpLined

LEMMA CpEmitKeeps ==
  ASSUME CpInv, CpEmit
  PROVE  CpInv'
<1>1. PICK chars \in 2 .. CpMaxText :
        LET data == CpLess(chars, cpWriter.remaining) IN
        /\ CpWrite(chars, data, chars - data)
        /\ cpLines' = Append(cpLines, cpPrinted + chars)
  BY DEF CpEmit
<1> DEFINE data == CpLess(chars, cpWriter.remaining)
           n == Len(cpLines)
<1>2. CpWrite(chars, data, chars - data) /\ cpLines' = Append(cpLines, cpPrinted + chars)
  BY <1>1
<1>3. cpWriter \in CpWriters /\ cpPrinted \in Nat
  BY CpStates
<1>4. chars \in Nat /\ data \in Nat /\ chars - data \in Nat
  BY <1>3, CaptureAssumption DEF CpWriters, CpLess
<1> HIDE DEF data
<1>5. /\ CpKeeps /\ cpPrinted' = cpPrinted + chars /\ cpWrites' \in 0 .. CpMaxWrites
      /\ UNCHANGED <<cpChannel, cpFile, cpReport, cpResult>>
  <2>1. /\ CpKeeps /\ cpPrinted' = cpPrinted + data + (chars - data) /\ cpWrites' \in 0 .. CpMaxWrites
        /\ UNCHANGED <<cpChannel, cpFile, cpReport, cpResult>>
    BY <1>2, <1>4, CpWriteKeeps
  <2> QED
    BY <1>3, <1>4, <2>1
<1>6. CpLined(cpLines, cpPrinted) /\ cpLines \in Seq(Nat) /\ n \in Nat
  BY LenProperties DEF CpInv, CpTypeOK
<1>7. /\ cpLines' \in Seq(Nat) /\ Len(cpLines') = n + 1
      /\ \A i \in 1 .. n : cpLines'[i] = cpLines[i] /\ cpLines[i] \in Nat
      /\ cpLines'[n + 1] = cpPrinted + chars
  BY <1>2, <1>3, <1>4, <1>6, AppendProperties, LenProperties
<1>8. chars >= 2
  OBVIOUS
<1>9. CpLined(cpLines', cpPrinted')
  <2>1. \A i \in 1 .. n + 1 : i \in 1 .. n \/ i = n + 1
    BY <1>6
  <2>2. \A i \in 1 .. n + 1 : 2 <= cpLines'[i] /\ cpLines'[i] <= cpPrinted'
    <3>1. ASSUME NEW i \in 1 .. n PROVE 2 <= cpLines'[i] /\ cpLines'[i] <= cpPrinted'
      <4>1. cpLines'[i] = cpLines[i] /\ cpLines[i] \in Nat
        BY <1>7
      <4>2. 2 <= cpLines[i] /\ cpLines[i] <= cpPrinted
        BY <1>6 DEF CpLined
      <4> QED
        BY <1>3, <1>4, <1>5, <4>1, <4>2
    <3>2. 2 <= cpLines'[n + 1] /\ cpLines'[n + 1] <= cpPrinted'
      BY <1>3, <1>4, <1>5, <1>7, <1>8
    <3> QED
      BY <2>1, <3>1, <3>2
  <2>3. ASSUME NEW i \in 1 .. n + 1, NEW j \in 1 .. n + 1, i < j
        PROVE  cpLines'[i] + 2 <= cpLines'[j]
    <3>1. i \in 1 .. n
      BY <1>6, <2>3
    <3>2. CASE j \in 1 .. n
      BY <1>6, <1>7, <2>3, <3>1, <3>2 DEF CpLined
    <3>3. CASE j = n + 1
      <4>1. cpLines'[i] = cpLines[i] /\ cpLines[i] \in Nat
        BY <1>7, <3>1
      <4>2. cpLines[i] <= cpPrinted
        BY <1>6, <3>1 DEF CpLined
      <4>3. cpLines'[j] = cpPrinted + chars
        BY <1>7, <3>3
      <4> QED
        BY <1>3, <1>4, <1>8, <4>1, <4>2, <4>3
    <3> QED
      BY <2>1, <3>2, <3>3
  <2> QED
    BY <1>7, <2>2, <2>3 DEF CpLined
<1> QED
  BY <1>3, <1>4, <1>5, <1>9, CpKept

LEMMA CpEndKeeps ==
  ASSUME CpInv, CpWriteFails \/ CpSucceed \/ CpRaise \/ CpKilled
  PROVE  CpInv'
<1>1. /\ UNCHANGED <<cpChannel, cpPrinted, cpLines, cpFile, cpWrites, cpResult>>
      /\ cpWriter.step # "dead"
      /\ \/ /\ cpWriter' = [cpWriter EXCEPT !.step = "idle", !.left = 0, !.disabled = TRUE]
            /\ cpReport' = cpReport
         \/ cpWriter' = [cpWriter EXCEPT !.step = "dead"] /\ cpReport' = cpReport
         \/ /\ cpWriter.step = "idle" /\ cpWriter' = [cpWriter EXCEPT !.step = "dead"]
            /\ cpReport' \in {"ok", "error", "too large"}
  BY DEF CpWriteFails, CpSucceed, CpRaise, CpKilled, CpSend
<1>2. /\ cpWriter \in CpWriters /\ cpPrinted \in Nat /\ cpFile \in Seq(Nat) /\ Len(cpFile) \in Nat
      /\ CpLimit \in Nat
      /\ cpResult \in [read : BOOLEAN, final : BOOLEAN, bytes : Seq(Nat)]
  BY CpStates
<1>3. cpReport = "none"
  BY <1>1 DEF CpInv, CpPhased
<1>4. /\ cpWriter' \in CpWriters
      /\ \/ cpWriter'.step = "idle" /\ cpWriter'.disabled /\ cpReport' = "none"
         \/ cpWriter'.step = "dead" /\ cpReport' = "none"
         \/ /\ cpWriter'.step = "dead" /\ cpWriter'.disabled = cpWriter.disabled
            /\ cpWriter.step = "idle"
  <2>1. CASE /\ cpWriter' = [cpWriter EXCEPT !.step = "idle", !.left = 0, !.disabled = TRUE]
             /\ cpReport' = cpReport
    BY <1>2, <1>3, <2>1 DEF CpWriters
  <2>2. CASE cpWriter' = [cpWriter EXCEPT !.step = "dead"]
    <3>1. /\ cpWriter' \in CpWriters /\ cpWriter'.step = "dead"
          /\ cpWriter'.disabled = cpWriter.disabled
      BY <1>2, <2>2 DEF CpWriters
    <3> QED
      BY <1>1, <1>3, <3>1
  <2> QED
    BY <1>1, <2>1, <2>2
<1>5. CpPhased(cpWriter', Len(cpFile'), cpPrinted', cpReport')
  <2>1. cpWriter.step = "idle" /\ ~cpWriter.disabled => CpWhole(Len(cpFile), cpPrinted)
    BY <1>2 DEF CpInv, CpPhased, CpWhole, CpWriters
  <2> QED
    BY <1>1, <1>4, <2>1 DEF CpPhased
<1>6. CpHasRead(cpResult', cpWriter', cpPrinted')
  <2>1. CpHasRead(cpResult, cpWriter, cpPrinted)
    BY DEF CpInv
  <2>2. cpResult.read => ~cpResult.final
    BY <1>1, <2>1 DEF CpHasRead
  <2>3. CpHasRead(cpResult, cpWriter', cpPrinted)
    BY <2>1, <2>2 DEF CpHasRead
  <2> QED
    BY <1>1, <2>3
<1> QED
  BY <1>1, <1>2, <1>4, <1>5, <1>6 DEF CpInv, CpTypeOK, CpWriters

LEMMA CpReadKeeps ==
  ASSUME CpInv, CpRead
  PROVE  CpInv'
<1>1. /\ cpResult' = [read |-> TRUE, final |-> cpReport # "none",
                      bytes |-> SubSeq(cpFile, 1, CpLess(Len(cpFile), CpReadLimit))]
      /\ UNCHANGED <<cpChannel, cpPrinted, cpLines, cpFile, cpWriter, cpWrites, cpReport>>
  BY DEF CpRead
<1>2. /\ cpFile \in Seq(Nat) /\ Len(cpFile) \in Nat /\ CpFull \in Nat /\ CpLimit \in Nat
      /\ CpMarker \in Nat
  BY CpStates
<1>3. CpLess(Len(cpFile), CpReadLimit) = Len(cpFile)
  BY <1>2 DEF CpLess, CpReadLimit, CpInv, CpShaped, CpFull
<1>4. SubSeq(cpFile, 1, CpLess(Len(cpFile), CpReadLimit)) = cpFile
  BY <1>2, <1>3, SubSeqFull
<1>5. cpResult'.read /\ cpResult'.bytes = cpFile /\ cpResult'.final = (cpReport # "none")
  BY <1>1, <1>4
<1>6. cpResult' \in [read : BOOLEAN, final : BOOLEAN, bytes : Seq(Nat)]
  BY <1>1, <1>2, <1>4
<1>7. CpHasRead(cpResult', cpWriter', cpPrinted')
  BY <1>1, <1>5 DEF CpInv, CpHasRead, CpPhased
<1> QED
  BY <1>1, <1>6, <1>7 DEF CpInv, CpTypeOK

LEMMA CpInductive ==
  ASSUME CpInv, [CpNext]_cpVars
  PROVE  CpInv'
<1>0. cpPrinted \in Nat /\ cpFile \in Seq(Nat) /\ cpWrites \in 0 .. CpMaxWrites
  BY DEF CpInv, CpTypeOK
<1>1. CASE CpPrint
  <2>1. PICK chars \in 0 .. CpMaxText :
          \E data, rest \in 0 .. chars * CpWidth : CpWrite(chars, data, rest)
    BY <1>1 DEF CpPrint
  <2>2. PICK data \in 0 .. chars * CpWidth, rest \in 0 .. chars * CpWidth :
          CpWrite(chars, data, rest)
    BY <2>1
  <2>3. chars \in Nat /\ data \in Nat /\ rest \in Nat
    OBVIOUS
  <2>4. /\ CpKeeps /\ cpPrinted' = cpPrinted + data + rest /\ cpWrites' \in 0 .. CpMaxWrites
        /\ UNCHANGED <<cpChannel, cpFile, cpReport, cpResult>>
    BY <2>2, <2>3, CpWriteKeeps
  <2>5. cpPrinted' \in Nat /\ cpPrinted <= cpPrinted' /\ UNCHANGED cpLines
    BY <1>0, <1>1, <2>3, <2>4 DEF CpPrint
  <2>6. CpLined(cpLines', cpPrinted')
    BY <2>5, CpLinesStay
  <2> QED
    BY <2>4, <2>5, <2>6, CpKept
<1>2. CASE CpWriteText \/ CpWriteMarker
  <2>1. /\ UNCHANGED <<cpChannel, cpPrinted, cpLines, cpWrites, cpReport, cpResult>>
        /\ CpKeeps
    BY <1>2, CpWriteTextKeeps, CpWriteMarkerKeeps DEF CpWriteText, CpWriteMarker
  <2>2. CpLined(cpLines', cpPrinted')
    BY <1>0, <2>1, CpLinesStay
  <2> QED
    BY <1>0, <2>1, <2>2, CpKept
<1>3. CASE UNCHANGED cpVars
  BY <1>3 DEF cpVars, CpInv, CpTypeOK
<1> QED
  BY <1>1, <1>2, <1>3, CpEmitKeeps, CpEndKeeps, CpReadKeeps DEF CpNext

LEMMA CpHolds == CpSpec => []CpInv
<1>1. ASSUME CpInit PROVE CpInv
  <2>1. cpFile = <<>> /\ cpFile \in Seq(Nat) /\ Len(cpFile) = 0 /\ cpPrinted = 0 /\ cpReport = "none"
    BY <1>1 DEF CpInit
  <2>2. cpLines \in Seq(Nat) /\ Len(cpLines) = 0
    BY <1>1 DEF CpInit
  <2>3. /\ cpWriter = [step |-> "idle", from |-> 0, kept |-> 0, left |-> 0, lost |-> FALSE,
                       remaining |-> CpLimit, truncated |-> FALSE, disabled |-> FALSE]
        /\ cpResult = [read |-> FALSE, final |-> FALSE, bytes |-> <<>>]
        /\ cpWrites = 0 /\ cpChannel \in {"output", "log"}
    BY <1>1 DEF CpInit, CpUnread
  <2>4. CpTypeOK
    BY <2>1, <2>2, <2>3, CaptureAssumption DEF CpTypeOK
  <2>5. CpShaped(cpFile, cpPrinted) /\ CpLined(cpLines, cpPrinted)
    BY <2>1, <2>2, CaptureAssumption DEF CpShaped, CpLined, CpFull
  <2>6. CpPhased(cpWriter, Len(cpFile), cpPrinted, cpReport) /\ CpHasRead(cpResult, cpWriter, cpPrinted)
    BY <2>1, <2>3, CaptureAssumption DEF CpPhased, CpHasRead
  <2> QED
    BY <2>4, <2>5, <2>6 DEF CpInv
<1>2. CpInv /\ [CpNext]_cpVars => CpInv'
  BY CpInductive
<1> QED
  BY <1>1, <1>2, PTL DEF CpSpec

(* What the parent reads of the child begins with what was printed first,  *)
(* and a marker follows only when something was lost, for any limits and   *)
(* writes, wherever the child is killed (executor.py:                      *)
(* _BoundedSidecarWriter, _read_capture_sidecars).                         *)
THEOREM CaptureIsHonest == CpSpec => []CaptureHonest
<1>1. ASSUME CpInv PROVE CaptureHonest
  <2> SUFFICES ASSUME cpResult.read
               PROVE  LET bytes == cpResult.bytes IN
                      \E kept \in 0 .. CpLimit :
                        /\ kept <= Len(bytes) /\ Len(bytes) <= kept + CpMarker /\ kept <= cpPrinted
                        /\ \A i \in 1 .. Len(bytes) : bytes[i] = IF i <= kept THEN i ELSE 0
                        /\ kept < Len(bytes) => kept < cpPrinted
                        /\ cpResult.final /\ ~cpWriter.disabled =>
                             kept = cpPrinted \/ Len(bytes) = kept + CpMarker
    BY DEF CaptureHonest
  <2> DEFINE bytes == cpResult.bytes
             n == Len(bytes)
             kept == CpLess(n, CpLimit)
  <2>1. /\ cpPrinted \in Nat /\ CpLimit \in Nat /\ CpMarker \in Nat
        /\ cpResult \in [read : BOOLEAN, final : BOOLEAN, bytes : Seq(Nat)]
    BY <1>1, CpStates
  <2>2. bytes \in Seq(Nat) /\ n \in Nat
    BY <2>1, LenProperties
  <2>3. /\ n <= CpFull
        /\ \A i \in 1 .. n : bytes[i] = IF i <= CpLimit THEN i ELSE 0
        /\ n <= CpLimit => n <= cpPrinted
        /\ n > CpLimit => cpPrinted > CpLimit
        /\ cpResult.final /\ ~cpWriter.disabled => CpWhole(n, cpPrinted)
    BY <1>1 DEF CpInv, CpHasRead, CpShaped
  <2> HIDE DEF bytes, n
  <2>4. kept \in 0 .. CpLimit /\ kept <= n /\ n <= kept + CpMarker /\ kept <= cpPrinted
    BY <2>1, <2>2, <2>3 DEF CpLess, CpFull
  <2>5. \A i \in 1 .. n : bytes[i] = IF i <= kept THEN i ELSE 0
    BY <2>1, <2>2, <2>3 DEF CpLess
  <2>6. kept < n => kept < cpPrinted
    BY <2>1, <2>2, <2>3 DEF CpLess
  <2>7. cpResult.final /\ ~cpWriter.disabled => kept = cpPrinted \/ n = kept + CpMarker
    BY <2>1, <2>2, <2>3, CaptureAssumption DEF CpLess, CpFull, CpWhole
  <2> HIDE DEF kept
  <2> QED
    BY <2>4, <2>5, <2>6, <2>7 DEF bytes, n
<1> QED
  BY <1>1, CpHolds, PTL

(* A record is a whole line of what the parent has read just if its last   *)
(* character before the newline is among the bytes of the text.            *)
LEMMA CpParsedIs ==
  ASSUME NEW bytes \in Seq(Nat), NEW printed \in Nat, CpShaped(bytes, printed),
         CpLined(cpLines, cpPrinted), NEW n \in 1 .. Len(cpLines)
  PROVE  n \in CpParsed(bytes) <=> cpLines[n] <= CpLess(Len(bytes), CpLimit) + 1
<1> DEFINE L == Len(bytes)
           k == CpLess(L, CpLimit)
           begin == CpBegin(n)
           end == cpLines[n]
<1>1. L \in Nat /\ CpLimit \in Nat /\ k \in Nat /\ k <= L /\ (k < L => k = CpLimit)
  BY LenProperties, CaptureAssumption DEF CpLess
<1>2. \A i \in 1 .. L : bytes[i] = IF i <= k THEN i ELSE 0
  <2>1. \A i \in 1 .. L : bytes[i] = IF i <= CpLimit THEN i ELSE 0
    BY DEF CpShaped
  <2> QED
    BY <1>1, <2>1 DEF CpLess
<1>3. cpLines \in Seq(Nat) /\ Len(cpLines) \in Nat /\ DOMAIN cpLines = 1 .. Len(cpLines)
  BY LenProperties DEF CpLined
<1>4. \A m \in 1 .. Len(cpLines) : cpLines[m] \in Nat /\ 2 <= cpLines[m]
  BY <1>3 DEF CpLined
<1>5. /\ end \in Nat /\ begin \in Nat /\ begin + 2 <= end
      /\ n = 1 => begin = 0
      /\ n # 1 => n - 1 \in 1 .. Len(cpLines) /\ begin = cpLines[n - 1]
  <2>1. CASE n = 1
    BY <1>4, <2>1 DEF CpBegin
  <2>2. CASE n # 1
    <3>1. n - 1 \in 1 .. Len(cpLines) /\ n - 1 < n
      BY <1>3, <2>2
    <3> QED
      BY <1>4, <2>2, <3>1 DEF CpBegin, CpLined
  <2> QED
    BY <2>1, <2>2
<1> DEFINE length == end - begin - 1
           Fits(i) == /\ i + length <= L
                      /\ \A j \in 1 .. length : bytes[i + j] = begin + j
                      /\ i = 0 \/ CpNewline(bytes, i)
                      /\ i + length = L \/ CpNewline(bytes, i + length + 1)
<1>6. n \in CpParsed(bytes) <=> \E i \in 0 .. L : Fits(i)
  BY <1>3 DEF CpParsed
<1> HIDE DEF L, k, begin, end
<1>7. length \in Nat /\ 1 <= length /\ begin + length + 1 = end
  BY <1>5
<1>8. ASSUME end <= k + 1 PROVE Fits(begin)
  <2>1. begin + length <= k /\ begin <= k
    BY <1>1, <1>5, <1>7, <1>8
  <2>2. \A j \in 1 .. length : bytes[begin + j] = begin + j
    BY <1>1, <1>2, <1>5, <1>7, <2>1
  <2>3. begin = 0 \/ CpNewline(bytes, begin)
    <3>1. CASE n # 1
      <4>1. begin \in 1 .. L /\ begin <= k
        BY <1>1, <1>4, <1>5, <2>1, <3>1
      <4>2. bytes[begin] = cpLines[n - 1] /\ n - 1 \in DOMAIN cpLines
        BY <1>2, <1>3, <1>5, <3>1, <4>1
      <4> QED
        BY <4>2 DEF CpNewline
    <3> QED
      BY <1>5, <3>1
  <2>4. begin + length = L \/ CpNewline(bytes, begin + length + 1)
    <3>1. CASE end <= k
      <4>1. end \in 1 .. L
        BY <1>1, <1>5, <3>1
      <4>2. bytes[end] = cpLines[n]
        BY <1>2, <3>1, <4>1 DEF end
      <4> QED
        BY <1>3, <1>7, <4>2 DEF CpNewline
    <3>2. CASE end = k + 1 /\ k < L
      <4>1. k + 1 \in 1 .. L /\ k \in 1 .. L /\ ~(k + 1 <= k)
        BY <1>1, <1>5, <3>2
      <4>2. bytes[k + 1] = 0 /\ bytes[k] = k
        BY <1>1, <1>2, <4>1
      <4>3. (k + 1) - 1 = k /\ k # 0 /\ begin + length + 1 = k + 1
        BY <1>1, <1>7, <3>2, <4>1
      <4> HIDE DEF length
      <4> QED
        BY <4>2, <4>3 DEF CpNewline
    <3> QED
      BY <1>1, <1>5, <1>7, <1>8, <3>1, <3>2
  <2>5. begin + length <= L
    BY <1>1, <1>5, <1>7, <2>1
  <2> HIDE DEF length
  <2> QED
    BY <2>2, <2>3, <2>4, <2>5
<1>9. ASSUME NEW i \in 0 .. L, Fits(i) PROVE end <= k + 1
  <2>1. bytes[i + length] = begin + length
    BY <1>7, <1>9
  <2>2. i + length \in 1 .. L
    BY <1>1, <1>7, <1>9
  <2>3. bytes[i + length] = IF i + length <= k THEN i + length ELSE 0
    BY <1>2, <2>2
  <2>4. begin + length # 0 /\ begin + length \in Nat
    BY <1>5, <1>7
  <2> QED
    BY <1>1, <1>5, <1>7, <2>1, <2>2, <2>3, <2>4
<1>10. end <= k + 1 => begin \in 0 .. L
  BY <1>1, <1>5
<1> HIDE DEF Fits
<1>11. n \in CpParsed(bytes) <=> end <= k + 1
  BY <1>6, <1>8, <1>9, <1>10
<1> QED
  BY <1>11 DEF L, k, end

(* The records that the parent gets are the first ones, none left out:     *)
(* they are the lines that end within what the file keeps, however little  *)
(* of it was written when the child was killed                             *)
(* (executor.py: _BoundedLogHandler, _read_capture_sidecars).              *)
THEOREM CapturedLogsAreWhole == CpSpec => []LogsWhole
<1>1. ASSUME CpInv PROVE LogsWhole
  <2> DEFINE bytes == cpResult.bytes
             k == CpLess(Len(bytes), CpLimit)
  <2> SUFFICES ASSUME cpResult.read, NEW n \in CpParsed(bytes), NEW m \in 1 .. n
               PROVE  m \in CpParsed(bytes)
    BY DEF LogsWhole
  <2>1. bytes \in Seq(Nat) /\ cpPrinted \in Nat /\ CpLimit \in Nat
    BY <1>1, CpStates
  <2>2. CpShaped(bytes, cpPrinted) /\ CpLined(cpLines, cpPrinted)
    BY <1>1 DEF CpInv, CpHasRead
  <2>3. /\ Len(cpLines) \in Nat /\ DOMAIN cpLines = 1 .. Len(cpLines)
        /\ \A i \in 1 .. Len(cpLines) : cpLines[i] \in Nat
    BY <2>2, LenProperties DEF CpLined
  <2>4. n \in 1 .. Len(cpLines)
    BY <2>3 DEF CpParsed
  <2>5. m \in 1 .. Len(cpLines) /\ (m = n \/ m < n)
    BY <2>3, <2>4
  <2>6. cpLines[m] <= cpLines[n]
    BY <2>2, <2>3, <2>4, <2>5 DEF CpLined
  <2>7. k \in Nat
    BY <2>1, LenProperties DEF CpLess
  <2> HIDE DEF bytes
  <2>8. cpLines[n] <= k + 1
    BY <2>1, <2>2, <2>4, CpParsedIs
  <2>9. cpLines[m] <= k + 1
    BY <2>3, <2>4, <2>5, <2>6, <2>7, <2>8
  <2> QED
    BY <2>1, <2>2, <2>5, <2>9, CpParsedIs
<1> QED
  BY <1>1, CpHolds, PTL

(* However long the message and the traceback of an exception are, and in  *)
(* whatever characters, the child's report of it fits through the pipe:    *)
(* the limits of its parts and of a message agree                          *)
(* (executor.py: _bounded_error_text, _send_child_payload).                *)
THEOREM CapturedReportFits == CpSpec => []ReportFits
<1>1. CpInit => ReportFits
  BY DEF CpInit, ReportFits
<1>2. ASSUME ReportFits, [CpNext]_cpVars PROVE ReportFits'
  <2>1. CASE CpRaise
    <3>1. PICK message \in CpLengths, traceback \in CpLengths, bytes \in 1 .. CpEscape :
            cpReport' = CpSend(CpErrorSize(message, traceback, bytes))
      BY <2>1 DEF CpRaise
    <3> DEFINE size == CpTypeLimit + CpLess(message, CpMessageLimit)
                                   + CpLess(traceback, CpTracebackLimit)
    <3>2. message \in Nat /\ traceback \in Nat
      BY CaptureAssumption
    <3>3. size \in Nat /\ size <= 41460
      BY <3>2 DEF CpLess, CpMessageLimit, CpTracebackLimit, CpTypeLimit
    <3> HIDE DEF size
    <3>4. bytes \in 1 .. 12
      BY DEF CpEscape
    <3>5. bytes * size <= 12 * 41460
      BY <3>3, <3>4
    <3>6. bytes * size \in Nat
      BY <3>3, <3>4
    <3>7. CpErrorSize(message, traceback, bytes) = 100 + bytes * size
      BY DEF CpErrorSize, CpFrame, size
    <3>8. ~(100 + bytes * size > CpResultLimit)
      BY <3>5, <3>6 DEF CpResultLimit
    <3>9. cpReport' = "error"
      BY <3>1, <3>7, <3>8 DEF CpSend
    <3> QED
      BY <3>9 DEF ReportFits
  <2>2. CASE CpSucceed
    BY <2>2 DEF CpSucceed, ReportFits
  <2>3. CASE UNCHANGED cpReport
    BY <1>2, <2>3 DEF ReportFits
  <2>4. CpRaise \/ CpSucceed \/ UNCHANGED cpReport
    BY <1>2 DEF CpNext, cpVars, CpPrint, CpEmit, CpWrite, CpWriteText, CpWriteMarker,
                CpWriteFails, CpKilled, CpRead
  <2> QED
    BY <2>1, <2>2, <2>3, <2>4
<1> QED
  BY <1>1, <1>2, PTL DEF CpSpec

=============================================================================
