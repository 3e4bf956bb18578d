-------------------------- MODULE MqttRunnerProofs --------------------------
(***************************************************************************)
(* Proofs about the runner lease, for any number of runners and all limits *)
(* that are InTime.                                                        *)
(***************************************************************************)
EXTENDS MqttRunner, TLAPS

LeaseOK == left = 0 <=> lease = NoRunner

\* The longest time of one reload, of k of them, and from a renewal to the
\* end of a pass.
Each == PublishLimit + CloseLimit

Swaps(k) == k * Each

PassBound == RenewEvery - 1 + LoopLimit + Swaps(MaxReloads)

\* The reloads of a pass add up, and those that are permitted are the longest.
LEMMA SwapsAdd ==
  /\ Each \in Nat
  /\ \A k \in Nat : Swaps(k) \in Nat /\ Swaps(k + 1) = Swaps(k) + Each
  /\ Swaps(0) = 0
  /\ \A k \in 0 .. MaxReloads : Swaps(k) <= Swaps(MaxReloads)
<1>1. Each \in Nat
  BY RunnerAssumption DEF Each
<1>2. ASSUME NEW e \in Nat, NEW k \in Nat
      PROVE  k * e \in Nat /\ (k + 1) * e = k * e + e
  BY Z3
<1>3. ASSUME NEW e \in Nat, NEW m \in Nat, NEW k \in 0 .. m
      PROVE  k * e <= m * e
  BY Z3
<1>4. MaxReloads \in Nat
  BY RunnerAssumption
<1>5. \A k \in Nat : Swaps(k) \in Nat /\ Swaps(k + 1) = Swaps(k) + Each
  BY <1>1, <1>2 DEF Swaps
<1>6. Swaps(0) = 0
  BY <1>1, Z3 DEF Swaps
<1>7. \A k \in 0 .. MaxReloads : Swaps(k) <= Swaps(MaxReloads)
  BY <1>1, <1>3, <1>4 DEF Swaps
<1> QED
  BY <1>1, <1>5, <1>6, <1>7

\* InTime with the reloads of a pass as one number.
LEMMA TimeLeft ==
  ASSUME InTime
  PROVE  /\ PassBound \in Int
         /\ TTL > PassBound + RedisLimit + StopLimit + PublishLimit
                   + CloseLimit
<1>1. Swaps(MaxReloads) \in Nat
  BY SwapsAdd, RunnerAssumption
<1>2. Swaps(MaxReloads) = MaxReloads * (PublishLimit + CloseLimit)
  BY DEF Swaps, Each
<1>3. TTL > RenewEvery - 1 + LoopLimit + Swaps(MaxReloads)
              + RedisLimit + StopLimit + PublishLimit + CloseLimit
  BY <1>2 DEF InTime
<1> QED
  BY <1>1, <1>3, RunnerAssumption DEF PassBound

\* What is left of the lease of a runner that acts, by its step.
Covered(r) ==
  /\ Acting(r) => lease = r
  /\ pc[r] \in {"loop", "lock", "reload"} =>
       left + clock[r] >= TTL /\ spent[r] <= LoopLimit
  /\ pc[r] = "loop" =>
       left >= TTL - (RenewEvery - 1) - spent[r] - Swaps(reloads[r])
  /\ pc[r] = "lock" =>
       left >= TTL - (RenewEvery - 1) - spent[r] - Swaps(reloads[r])
                 + pub[r] + CloseLimit
  /\ pc[r] = "reload" =>
       left >= TTL - (RenewEvery - 1) - spent[r] - Swaps(reloads[r])
                 + (CloseLimit - busy[r])
  /\ pc[r] = "renew" =>
       spent[r] <= RedisLimit /\ left >= TTL - PassBound - spent[r]
  /\ pc[r] = "stop" =>
       /\ spent[r] <= StopLimit
       /\ left >= TTL - PassBound - RedisLimit - spent[r]
  /\ pc[r] = "halt" =>
       left >= TTL - PassBound - RedisLimit - StopLimit
                 - (PublishLimit - pub[r])
  /\ pc[r] = "close" =>
       left >= TTL - PassBound - RedisLimit - StopLimit - PublishLimit
                 - busy[r]

RunnerInv == TypeOK /\ LeaseOK /\ \A r \in Runners : Covered(r)

\* A lease that covers an acting runner has not expired.
LEMMA CoveredAlive ==
  ASSUME InTime, RunnerInv, NEW r \in Runners, Acting(r)
  PROVE  left > 0
<1> USE RunnerAssumption
<1>1. Covered(r) /\ TypeOK /\ LeaseOK
  BY DEF RunnerInv
<1>2. lease = r
  BY <1>1 DEF Covered
<1>3. lease # NoRunner
  BY <1>2
<1> QED
  BY <1>1, <1>3 DEF LeaseOK, TypeOK

\* A tick leaves every acting runner its lease.
LEMMA TickCovers ==
  ASSUME InTime, RunnerInv, Tick
  PROVE  RunnerInv'
<1> USE RunnerAssumption DEF RunnerInv
<1>1. TypeOK'
  <2>1. ASSUME NEW r \in Runners PROVE busy'[r] \in 0 .. CloseLimit
    <3>1. Patient(r) /\ busy[r] \in 0 .. CloseLimit
      BY <2>1 DEF TypeOK, Tick
    <3> QED
      BY <2>1, <3>1 DEF TypeOK, Tick, Patient
  <2>2. busy' \in [Runners -> 0 .. CloseLimit]
    BY <2>1 DEF Tick
  <2>3. /\ lease' \in Runners \cup {NoRunner} /\ left' \in 0 .. TTL
        /\ clock' \in [Runners -> Nat] /\ spent' \in [Runners -> Nat]
        /\ pub' \in [Runners -> 0 .. PublishLimit]
    BY DEF TypeOK, Tick, LeaseAges
  <2> QED
    BY <2>2, <2>3 DEF TypeOK, Tick
<1>2. LeaseOK'
  BY DEF TypeOK, LeaseOK, Tick, LeaseAges
<1>3. ASSUME NEW r \in Runners PROVE Covered(r)'
  <2> USE <1>3 DEF Tick
  <2>1. Covered(r) /\ Patient(r)
    OBVIOUS
  <2>2. /\ pc'[r] = pc[r] /\ reloads'[r] = reloads[r]
        /\ left \in Nat /\ clock[r] \in Nat /\ spent[r] \in Nat
        /\ busy[r] \in 0 .. CloseLimit /\ pub[r] \in 0 .. PublishLimit
        /\ reloads[r] \in 0 .. MaxReloads
    BY DEF TypeOK
  <2>3. /\ Swaps(reloads[r]) \in Nat
        /\ Swaps(reloads[r]) <= Swaps(MaxReloads)
        /\ Swaps(MaxReloads) \in Nat
        /\ PassBound = RenewEvery - 1 + LoopLimit + Swaps(MaxReloads)
        /\ TTL > PassBound + RedisLimit + StopLimit + PublishLimit + CloseLimit
    BY <2>2, SwapsAdd, TimeLeft DEF PassBound
  <2>4. left > 1 => left' = left - 1 /\ lease' = lease
    BY <2>2 DEF LeaseAges
  <2>5. CASE pc[r] = "loop"
    <3>1. /\ clock'[r] = clock[r] + 1 /\ spent'[r] = spent[r] + 1
          /\ spent[r] < LoopLimit
      BY <2>1, <2>2, <2>5 DEF Patient, Limit, InLoop, Timed, Closing
    <3>2. left > 1
      BY <2>1, <2>2, <2>3, <2>5, <3>1 DEF Covered
    <3> QED
      BY <2>1, <2>2, <2>3, <2>4, <2>5, <3>1, <3>2 DEF Covered, Acting, InLoop
  <2>6. CASE pc[r] = "lock"
    <3>1. /\ clock'[r] = clock[r] + 1 /\ spent'[r] = spent[r]
          /\ pub[r] > 0 /\ pub'[r] = pub[r] - 1
      BY <2>1, <2>2, <2>6 DEF Patient, Limit, InLoop, Timed, Closing
    <3>2. left > 1
      BY <2>1, <2>2, <2>3, <2>6, <3>1 DEF Covered
    <3> QED
      BY <2>1, <2>2, <2>3, <2>4, <2>6, <3>1, <3>2 DEF Covered, Acting, InLoop
  <2>7. CASE pc[r] = "reload"
    <3>1. /\ clock'[r] = clock[r] + 1 /\ spent'[r] = spent[r]
          /\ busy[r] < CloseLimit /\ busy'[r] = busy[r] + 1
      BY <2>1, <2>2, <2>7 DEF Patient, Limit, InLoop, Timed, Closing
    <3>2. left > 1
      BY <2>1, <2>2, <2>3, <2>7, <3>1 DEF Covered
    <3> QED
      BY <2>1, <2>2, <2>3, <2>4, <2>7, <3>1, <3>2 DEF Covered, Acting, InLoop
  <2>8. CASE pc[r] = "renew"
    <3>1. spent'[r] = spent[r] + 1 /\ spent[r] < RedisLimit
      BY <2>1, <2>2, <2>8 DEF Patient, Limit, InLoop, Timed, Closing
    <3>2. left > 1
      BY <2>1, <2>2, <2>3, <2>8, <3>1 DEF Covered
    <3> QED
      BY <2>1, <2>2, <2>3, <2>4, <2>8, <3>1, <3>2 DEF Covered, Acting, InLoop
  <2>9. CASE pc[r] = "stop"
    <3>1. spent'[r] = spent[r] + 1 /\ spent[r] < StopLimit
      BY <2>1, <2>2, <2>9 DEF Patient, Limit, InLoop, Timed, Closing
    <3>2. left > 1
      BY <2>1, <2>2, <2>3, <2>9, <3>1 DEF Covered
    <3> QED
      BY <2>1, <2>2, <2>3, <2>4, <2>9, <3>1, <3>2 DEF Covered, Acting, InLoop
  <2>10. CASE pc[r] = "halt"
    <3>1. pub[r] > 0 /\ pub'[r] = pub[r] - 1
      BY <2>1, <2>2, <2>10 DEF Patient, Limit, InLoop, Timed, Closing
    <3>2. left > 1
      BY <2>1, <2>2, <2>3, <2>10, <3>1 DEF Covered
    <3> QED
      BY <2>1, <2>2, <2>3, <2>4, <2>10, <3>1, <3>2 DEF Covered, Acting, InLoop
  <2>11. CASE pc[r] = "close"
    <3>1. busy[r] < CloseLimit /\ busy'[r] = busy[r] + 1
      BY <2>1, <2>2, <2>11 DEF Patient, Limit, InLoop, Timed, Closing
    <3>2. left > 1
      BY <2>1, <2>2, <2>3, <2>11, <3>1 DEF Covered
    <3> QED
      BY <2>1, <2>2, <2>3, <2>4, <2>11, <3>1, <3>2 DEF Covered, Acting, InLoop
  <2>12. CASE ~Acting(r)
    BY <2>2, <2>12 DEF Covered, Acting, InLoop
  <2> QED
    BY <2>5, <2>6, <2>7, <2>8, <2>9, <2>10, <2>11, <2>12 DEF Acting, InLoop
<1> QED
  BY <1>1, <1>2, <1>3

\* A step of runner s covers the other runners as before, when it leaves the
\* lease alone or takes it from s or from nobody.
LEMMA OthersCovered ==
  ASSUME InTime, RunnerInv, NEW s \in Runners, NEW r \in Runners \ {s},
         pc'[r] = pc[r], clock'[r] = clock[r], spent'[r] = spent[r],
         busy'[r] = busy[r], reloads'[r] = reloads[r], pub'[r] = pub[r],
         UNCHANGED leaseVars \/ lease = s \/ left = 0
  PROVE  Covered(r)'
<1> USE RunnerAssumption
<1>1. Covered(r)
  BY DEF RunnerInv
<1>2. CASE UNCHANGED leaseVars
  BY <1>1, <1>2 DEF Covered, Acting, InLoop, leaseVars
<1>3. CASE lease = s \/ left = 0
  <2>1. ~Acting(r)
    BY <1>1, <1>3, CoveredAlive DEF Covered, RunnerInv, TypeOK
  <2> QED
    BY <2>1 DEF Covered, Acting, InLoop
<1> QED
  BY <1>2, <1>3

\* The steps that start a runner and those of its main loop.
LEMMA LoopCovers ==
  ASSUME InTime, RunnerInv, NEW s \in Runners,
         \/ Start(s) \/ Acquire(s) \/ AcquireUnanswered(s)
         \/ NextPass(s) \/ BeginReload(s) \/ TakeLock(s) \/ EndReload(s)
         \/ Renew(s) \/ RenewFails(s)
  PROVE  RunnerInv'
<1> USE RunnerAssumption
    DEF Start, Acquire, AcquireUnanswered, NextPass, BeginReload, TakeLock,
        EndReload, Renew, RenewFails, Goto, SetLease, workerVars
<1>0. TypeOK /\ LeaseOK /\ Covered(s)
  BY DEF RunnerInv
<1>1. TypeOK'
  BY <1>0 DEF TypeOK, Steps, clockVars, leaseVars
<1>2. LeaseOK'
  BY <1>0 DEF LeaseOK, TypeOK, leaseVars
<1>3. ASSUME NEW r \in Runners \ {s} PROVE Covered(r)'
  <2>1. /\ pc'[r] = pc[r] /\ clock'[r] = clock[r] /\ spent'[r] = spent[r]
        /\ busy'[r] = busy[r] /\ reloads'[r] = reloads[r]
        /\ pub'[r] = pub[r]
    BY <1>0, <1>3 DEF TypeOK, clockVars
  <2>2. UNCHANGED leaseVars \/ lease = s \/ left = 0
    BY DEF leaseVars
  <2> QED
    BY <2>1, <2>2, OthersCovered
<1>4. Covered(s)'
  <2>0. /\ left \in Nat /\ clock[s] \in Nat /\ spent[s] \in Nat
        /\ busy[s] \in 0 .. CloseLimit /\ pub[s] \in 0 .. PublishLimit
        /\ reloads[s] \in 0 .. MaxReloads
    BY <1>0 DEF TypeOK
  <2>1. /\ Swaps(reloads[s]) \in Nat /\ Swaps(MaxReloads) \in Nat
        /\ Swaps(reloads[s]) <= Swaps(MaxReloads)
        /\ Swaps(reloads[s] + 1) = Swaps(reloads[s]) + Each
        /\ Swaps(0) = 0
    BY <2>0, SwapsAdd
  <2>2. /\ Each = PublishLimit + CloseLimit
        /\ PassBound = RenewEvery - 1 + LoopLimit + Swaps(MaxReloads)
    BY DEF Each, PassBound
  <2>3. CASE Start(s) \/ Acquire(s) \/ AcquireUnanswered(s)
    BY <1>0, <2>0, <2>1, <2>2, <2>3
    DEF Covered, Acting, InLoop, TypeOK, clockVars, leaseVars
  <2>4. CASE NextPass(s)
    BY <1>0, <2>0, <2>1, <2>2, <2>4
    DEF Covered, Acting, InLoop, TypeOK, leaseVars
  <2>5. CASE BeginReload(s)
    <3>1. /\ pc[s] = "loop" /\ pc'[s] = "lock" /\ left' = left
          /\ lease' = lease /\ reloads'[s] = reloads[s] + 1
          /\ spent' = spent /\ clock' = clock /\ pub' = pub
      BY <1>0, <2>5 DEF TypeOK, leaseVars
    <3> QED
      BY <1>0, <2>0, <2>1, <2>2, <3>1 DEF Covered, Acting, InLoop
  <2>6. CASE TakeLock(s)
    <3>1. /\ pc[s] = "lock" /\ pc'[s] = "reload" /\ left' = left
          /\ lease' = lease /\ reloads' = reloads /\ spent' = spent
          /\ clock' = clock /\ busy' = busy /\ pub[s] = 0
      BY <1>0, <2>6 DEF TypeOK, leaseVars, clockVars
    <3> QED
      BY <1>0, <2>0, <2>1, <2>2, <3>1 DEF Covered, Acting, InLoop
  <2>7. CASE EndReload(s)
    <3>1. /\ pc[s] = "reload" /\ pc'[s] = "loop" /\ left' = left
          /\ lease' = lease /\ reloads' = reloads /\ spent' = spent
          /\ clock' = clock
      BY <1>0, <2>7 DEF TypeOK, leaseVars
    <3> QED
      BY <1>0, <2>0, <2>1, <2>2, <3>1 DEF Covered, Acting, InLoop
  <2>8. CASE Renew(s) \/ RenewFails(s)
    <3>1. /\ pc[s] = "renew" /\ spent'[s] = 0 /\ clock' = clock
          /\ reloads' = reloads /\ pc'[s] \in {"loop", "stop"}
          /\ left' \in {left, TTL} /\ lease' = lease
          /\ pc'[s] = "loop" => left' = TTL
      BY <1>0, <2>8 DEF TypeOK, leaseVars
    <3> QED
      BY <1>0, <2>0, <2>1, <2>2, <3>1 DEF Covered, Acting, InLoop
  <2> QED
    BY <2>3, <2>4, <2>5, <2>6, <2>7, <2>8
<1> QED
  BY <1>1, <1>2, <1>3, <1>4 DEF RunnerInv

\* The steps of a runner that stops, crashes or publishes.
LEMMA StopCovers ==
  ASSUME InTime, RunnerInv, NEW s \in Runners,
         \/ JoinWorker(s) \/ StopClient(s) \/ ClientClosed(s) \/ Release(s)
         \/ Exit(s) \/ Crash(s) \/ WorkerStep(s)
  PROVE  RunnerInv'
<1> USE RunnerAssumption
    DEF JoinWorker, StopClient, ClientClosed, Release, Exit, Crash, End, Goto,
        DeleteLease, WorkerStep, ClaimBatch, BeginPublish, EndPublish,
        LeaveBatch, Refuse
<1>0. TypeOK /\ LeaseOK /\ Covered(s)
  BY DEF RunnerInv
<1>1. TypeOK'
  <2>1. CASE WorkerStep(s)
    <3>1. /\ pc' = pc /\ lease' = lease /\ left' = left /\ clock' = clock
          /\ spent' = spent /\ busy' = busy /\ reloads' = reloads
      BY <2>1 DEF clockVars, leaseVars
    <3>2. /\ pub' \in [Runners -> 0 .. PublishLimit]
          /\ batch' \in [Runners -> 0 .. MaxBatch]
      BY <1>0, <2>1 DEF TypeOK
    <3>3. refused' \in BOOLEAN
      BY <1>0, <2>1 DEF TypeOK
    <3> QED
      BY <1>0, <3>1, <3>2, <3>3, Zenon DEF TypeOK
  <2>2. CASE JoinWorker(s) \/ StopClient(s) \/ ClientClosed(s) \/ Release(s)
    BY <1>0, <2>2 DEF TypeOK, Steps, leaseVars, workerVars
  <2>3. CASE Exit(s) \/ Crash(s)
    BY <1>0, <2>3 DEF TypeOK, Steps, leaseVars
  <2> QED
    BY <2>1, <2>2, <2>3
<1>2. LeaseOK'
  BY <1>0 DEF LeaseOK, TypeOK, leaseVars
<1>3. ASSUME NEW r \in Runners \ {s} PROVE Covered(r)'
  <2>1. /\ pc'[r] = pc[r] /\ clock'[r] = clock[r] /\ spent'[r] = spent[r]
        /\ busy'[r] = busy[r] /\ reloads'[r] = reloads[r]
        /\ pub'[r] = pub[r]
    BY <1>0, <1>3 DEF TypeOK, clockVars, workerVars
  <2>2. UNCHANGED leaseVars \/ lease = s \/ left = 0
    BY DEF leaseVars
  <2> QED
    BY <2>1, <2>2, OthersCovered
<1>4. Covered(s)'
  <2>0. /\ left \in Nat /\ spent[s] \in Nat /\ PassBound \in Int
        /\ busy[s] \in 0 .. CloseLimit /\ pub[s] \in 0 .. PublishLimit
    BY <1>0, TimeLeft DEF TypeOK
  <2>1. CASE JoinWorker(s)
    <3>1. /\ pc[s] = "stop" /\ pc'[s] = "halt" /\ left' = left
          /\ lease' = lease /\ pub' = pub
      BY <1>0, <2>1 DEF TypeOK, workerVars, leaseVars
    <3> QED
      BY <1>0, <2>0, <3>1 DEF Covered, Acting, InLoop
  <2>2. CASE StopClient(s)
    <3>1. /\ pc[s] = "halt" /\ pc'[s] = "close" /\ left' = left
          /\ lease' = lease /\ pub[s] = 0 /\ busy'[s] = 0
      BY <1>0, <2>2 DEF TypeOK, leaseVars
    <3> QED
      BY <1>0, <2>0, <3>1 DEF Covered, Acting, InLoop
  <2>3. CASE ClientClosed(s) \/ Release(s) \/ Exit(s) \/ Crash(s)
    <3>1. pc'[s] \in {"release", "exit", "down"}
      BY <1>0, <2>3 DEF TypeOK
    <3> QED
      BY <3>1 DEF Covered, Acting, InLoop
  <2>4. CASE WorkerStep(s)
    <3>1. /\ pc' = pc /\ lease' = lease /\ left' = left /\ clock' = clock
          /\ spent' = spent /\ busy' = busy /\ reloads' = reloads
      BY <2>4 DEF clockVars, leaseVars
    <3>2. pc[s] \in {"lock", "halt"} => pub'[s] <= pub[s]
      BY <1>0, <2>4 DEF TypeOK
    <3>3. /\ pub'[s] \in Int /\ Swaps(reloads[s]) \in Int
      BY <1>0, <1>1, SwapsAdd DEF TypeOK
    <3>4. pc[s] = "lock" =>
            left >= TTL - (RenewEvery - 1) - spent[s] - Swaps(reloads[s])
                      + pub'[s] + CloseLimit
      BY <1>0, <2>0, <3>2, <3>3 DEF Covered
    <3>5. pc[s] = "halt" =>
            left >= TTL - PassBound - RedisLimit - StopLimit
                      - (PublishLimit - pub'[s])
      BY <1>0, <2>0, <3>2, <3>3 DEF Covered
    <3> QED
      BY <1>0, <3>1, <3>4, <3>5 DEF Covered, Acting, InLoop
  <2> QED
    BY <2>1, <2>2, <2>3, <2>4
<1> QED
  BY <1>1, <1>2, <1>3, <1>4 DEF RunnerInv

\* The lease covers every acting runner at any time.
LEMMA RunnerInvariant ==
  ASSUME InTime
  PROVE  Spec => []RunnerInv
<1>1. ASSUME Init PROVE RunnerInv
  <2>1. TypeOK
    <3>1. lease \in Runners \cup {NoRunner} /\ left \in 0 .. TTL
      BY <1>1, RunnerAssumption DEF Init
    <3>2. /\ pc \in [Runners -> Steps] /\ clock \in [Runners -> Nat]
          /\ spent \in [Runners -> Nat]
          /\ busy \in [Runners -> 0 .. CloseLimit]
          /\ reloads \in [Runners -> 0 .. MaxReloads]
      BY <1>1, RunnerAssumption DEF Init, Steps
    <3>3. /\ pub \in [Runners -> 0 .. PublishLimit]
          /\ batch \in [Runners -> 0 .. MaxBatch]
      BY <1>1, RunnerAssumption DEF Init
    <3>4. refused \in BOOLEAN
      BY <1>1 DEF Init
    <3> QED
      BY <3>1, <3>2, <3>3, <3>4 DEF TypeOK
  <2>2. LeaseOK
    BY <1>1 DEF Init, LeaseOK
  <2>3. ASSUME NEW r \in Runners PROVE Covered(r)
    BY <1>1, <2>3 DEF Init, Covered, Acting, InLoop
  <2> QED
    BY <2>1, <2>2, <2>3 DEF RunnerInv
<1>2. ASSUME RunnerInv, [Next]_vars PROVE RunnerInv'
  <2>1. CASE UNCHANGED vars
    BY <1>2, <2>1 DEF vars, RunnerInv, TypeOK, LeaseOK, Covered, Acting,
         InLoop, leaseVars, clockVars, workerVars
  <2>2. CASE Next
    BY <1>2, <2>2, TickCovers, LoopCovers, StopCovers DEF Next, MainStep
  <2> QED
    BY <1>2, <2>1, <2>2
<1> QED
  BY <1>1, <1>2, PTL DEF Spec

\* acquire_runner_lease lets one runner at a time have a client, when the times
\* of all the steps between two renewals, with every reload that one pass may
\* do, and of a whole stop add up to less than the time to live: however often
\* runners crash, restart and lose answers of Redis.  The program does not keep
\* the times so short, nor does it look at them.
THEOREM RunnerIsSingle ==
  ASSUME InTime
  PROVE  Spec => []SingleRunner
<1>1. RunnerInv => SingleRunner
  BY DEF RunnerInv, Covered, SingleRunner
<1> QED
  BY <1>1, RunnerInvariant, PTL
=============================================================================
