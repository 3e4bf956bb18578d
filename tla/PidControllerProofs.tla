------------------------- MODULE PidControllerProofs -------------------------
(* Proofs about the PI algorithm and about switched actuators, for all     *)
(* gains, limits, errors, bands, periods and time steps.  What they say of *)
(* PI is refuted for PID by TLC.                                           *)
EXTENDS PidController, SwitchedOutput, FiniteSetTheorems, SequenceTheorems, TLAPS

\* What is proved about PI, where zero is a possible output.
PiInv == TypeOK /\ IntegralBounded

\* The product of the trial value, and the sign of its two terms.
LEMMA TrialBounds ==
  ASSUME Gains, TypeOK, NEW step \in TimeSteps
  PROVE  /\ Trial(step) \in Int
         /\ Ki * Trial(step) = Ki * integral + Ki * (error * step)
         /\ Kp * error \in Int /\ Ki * (error * step) \in Int
         /\ error >= 0 => Kp * error >= 0 /\ Ki * (error * step) >= 0
         /\ error <= 0 => Kp * error <= 0 /\ Ki * (error * step) <= 0
<1>0. error \in Int /\ integral \in Int /\ step \in Nat /\ Ki \in Nat /\ Kp \in Nat
  BY DEF Gains, TypeOK
<1>1. error * step \in Int
  BY <1>0
<1>2. /\ error >= 0 => error * step >= 0
      /\ error <= 0 => error * step <= 0
  BY <1>0
<1>3. /\ Trial(step) \in Int
      /\ Ki * Trial(step) = Ki * integral + Ki * (error * step)
  BY <1>0, <1>1 DEF Trial
<1>4. \A z \in Int, k \in Nat : /\ k * z \in Int
                                /\ z >= 0 => k * z >= 0
                                /\ z <= 0 => k * z <= 0
  OBVIOUS
<1> QED
  BY <1>0, <1>1, <1>2, <1>3, <1>4

\* Without a derivative the raw output is the sum of the two other terms.
LEMMA PiRaw ==
  ASSUME Gains, Kd = 0, TypeOK, NEW step \in TimeSteps
  PROVE  Raw(step) = Kp * error + Ki * Trial(step)
<1>1. (error - prev) \div step \in Int
  BY DEF Gains, TypeOK
<1>2. Kd * ((error - prev) \div step) = 0
  BY <1>1
<1>3. Kp * error + Ki * Trial(step) \in Int
  BY TrialBounds DEF Gains, TypeOK
<1> QED
  BY <1>2, <1>3 DEF Raw

\* A tick of PI keeps its share within the limits: while the error is positive
\* the integral is accepted only below the upper limit less the proportional
\* term, and it falls while the error is negative.
LEMMA PiKeeps ==
  ASSUME Gains, Kd = 0, PiInv, Control
  PROVE  PiInv' /\ (error < 0 /\ Kp > 0 => output' < OutMax)
<1> USE DEF PiInv
<1>1. PICK step \in TimeSteps :
        \/ /\ Raw(step) > OutMax
           /\ output' = OutMax /\ integral' = integral
        \/ /\ Raw(step) < OutMin
           /\ output' = OutMin /\ integral' = integral
        \/ /\ Raw(step) \in OutMin .. OutMax
           /\ output' = Raw(step) /\ integral' = Trial(step)
  BY DEF Control
<1> DEFINE p == Kp * error
           q == Ki * (error * step)
           s == Ki * integral
<1>2. /\ p \in Int /\ q \in Int
      /\ error >= 0 => p >= 0 /\ q >= 0
      /\ error <= 0 => p <= 0 /\ q <= 0
      /\ Ki * Trial(step) = s + q /\ Trial(step) \in Int
  BY TrialBounds
<1>3. s \in OutMin .. OutMax /\ OutMin \in Int /\ OutMax \in Int
  BY DEF IntegralBounded, Gains
<1>4. Raw(step) = p + (s + q)
  BY PiRaw, <1>2
<1>5. error \in Int /\ OutMin < OutMax /\ integral \in Int
  BY DEF Gains, TypeOK
<1>6. Kp > 0 /\ error < 0 => p < 0
  BY <1>5 DEF Gains
<1>7. error' = error /\ prev' = error
  BY DEF Control
<1> HIDE DEF p, q, s
<1>8. CASE /\ Raw(step) > OutMax
           /\ output' = OutMax /\ integral' = integral
  <2>1. TypeOK' /\ IntegralBounded'
    BY <1>3, <1>5, <1>7, <1>8 DEF TypeOK, IntegralBounded, s
  <2>2. ~(error < 0)
    BY <1>2, <1>3, <1>4, <1>5, <1>8
  <2> QED
    BY <2>1, <2>2
<1>9. CASE /\ Raw(step) < OutMin
           /\ output' = OutMin /\ integral' = integral
  <2>1. TypeOK' /\ IntegralBounded'
    BY <1>3, <1>5, <1>7, <1>9 DEF TypeOK, IntegralBounded, s
  <2>2. output' < OutMax
    BY <1>3, <1>5, <1>9
  <2> QED
    BY <2>1, <2>2
<1>10. CASE /\ Raw(step) \in OutMin .. OutMax
            /\ output' = Raw(step) /\ integral' = Trial(step)
  <2>1. TypeOK'
    BY <1>2, <1>5, <1>7, <1>10 DEF TypeOK
  <2>2. s + q \in OutMin .. OutMax
    BY <1>2, <1>3, <1>4, <1>5, <1>10
  <2>3. IntegralBounded'
    BY <2>2, <1>2, <1>10 DEF IntegralBounded
  <2>4. error < 0 /\ Kp > 0 => output' < OutMax
    BY <1>2, <1>3, <1>4, <1>5, <1>6, <1>10
  <2> QED
    BY <2>1, <2>3, <2>4
<1> QED
  BY <1>1, <1>8, <1>9, <1>10

LEMMA PiInvHolds ==
  ASSUME Gains, Kd = 0, OutMin <= 0, 0 <= OutMax
  PROVE  Spec => []PiInv
<1>1. Init => PiInv
  BY DEF Gains, Init, PiInv, TypeOK, IntegralBounded
<1>2. ASSUME PiInv, [Next]_vars PROVE PiInv'
  <2>1. CASE Control
    BY <1>2, <2>1, PiKeeps
  <2>2. CASE Disturb \/ UNCHANGED vars
    BY <1>2, <2>2 DEF Disturb, vars, PiInv, TypeOK, IntegralBounded
  <2> QED
    BY <1>2, <2>1, <2>2 DEF Next
<1> QED
  BY <1>1, <1>2, PTL DEF Spec

\* For PI whose output may be zero: pi_step keeps its integral within the output
\* limits, for every process, every sequence of errors and every time step.
THEOREM PiIntegralBounded ==
  ASSUME Gains, Kd = 0, OutMin <= 0, 0 <= OutMax
  PROVE  Spec => []IntegralBounded
BY PiInvHolds, PTL DEF PiInv

\* The anti-windup of pi_step is real: the first tick whose error asks for less
\* output leaves the upper limit.
THEOREM PiNotHeldAgainstError ==
  ASSUME Gains, Kd = 0, OutMin <= 0, 0 <= OutMax, Kp > 0
  PROVE  Spec => NotHeldAgainstError
<1>1. PiInv /\ [Next]_vars => [Control /\ error < 0 => output' < OutMax]_vars
  BY PiKeeps
<1> QED
  BY <1>1, PiInvHolds, PTL DEF Spec, NotHeldAgainstError

-----------------------------------------------------------------------------
(* The dead band                                                           *)

(* The parts of the state that the dead band is about have their types.    *)
SwTypes ==
  /\ swKind \in {"on_off", "threshold", "pwm"}
  /\ swError \in SwErrors /\ swAt \in SwErrors
  /\ swSent \in {"none", "on", "off"}
  /\ swOn \in BOOLEAN /\ swTurned \in BOOLEAN /\ swTrue \in BOOLEAN

(* While every tick was both sent and saved, the state is the last         *)
(* command, and the error at the last switch was beyond the dead band on   *)
(* its side.                                                               *)
SwFollows ==
  swKind = "on_off" /\ swTrue =>
    /\ swOn <=> swSent = "on"
    /\ swSent = "on" => swAt >= SwBand
    /\ swSent = "off" /\ swTurned => swAt <= -SwBand

SwInv == SwTypes /\ SwFollows

LEMMA SwOnOffTurns ==
  ASSUME NEW e \in Int, NEW b \in BOOLEAN, SwBand \in Nat
  PROVE  /\ SwOnOff(e, b) \in BOOLEAN
         /\ SwOnOff(e, b) /\ ~b => e >= SwBand
         /\ ~SwOnOff(e, b) /\ b => e <= -SwBand
BY DEF SwOnOff

(* What Hysteresis says of one step.                                       *)
SwSwitches ==
  swKind = "on_off" /\ swTrue' =>
       /\ swSent = "on" /\ swSent' = "off" => swAt - swError >= 2 * SwBand
       /\ swSent = "off" /\ swSent' = "on" /\ swTurned =>
            swError - swAt >= 2 * SwBand

LEMMA SwTickKeeps ==
  ASSUME SwInv, NEW saved \in BOOLEAN, NEW sent \in BOOLEAN, SwTick(saved, sent)
  PROVE  SwInv' /\ SwSwitches
<1> USE SwitchAssumption
<1>1. PICK dt \in SwTimes :
        LET on    == SwDecision(dt)
            turns == sent /\ swSent # SwCommand(on)
        IN  /\ swOn' = IF saved /\ swKind = "on_off" THEN on ELSE swOn
            /\ swSent' = IF sent THEN SwCommand(on) ELSE swSent
            /\ swAt' = IF turns THEN swError ELSE swAt
            /\ swTurned' = IF turns THEN swSent # "none" ELSE swTurned
            /\ swTrue' = (swTrue /\ saved /\ sent)
            /\ UNCHANGED <<swKind, swError, swOutput>>
  BY Zenon DEF SwTick
<1> DEFINE on == SwDecision(dt)
           turns == sent /\ swSent # SwCommand(on)
<1>2. swError \in Int /\ swAt \in Int
  BY DEF SwInv, SwTypes
<1>3. swKind = "on_off" => on = SwOnOff(swError, swOn)
  BY DEF SwDecision
<1>4. SwCommand(on) \in {"on", "off"} /\ (SwCommand(on) = "on" <=> on)
  BY DEF SwCommand
<1>4a. swKind = "on_off" => on \in BOOLEAN
  BY <1>2, <1>3, SwOnOffTurns DEF SwInv, SwTypes
<1>5. /\ swOn' = IF saved /\ swKind = "on_off" THEN on ELSE swOn
      /\ swSent' = IF sent THEN SwCommand(on) ELSE swSent
      /\ swAt' = IF turns THEN swError ELSE swAt
      /\ swTurned' = IF turns THEN swSent # "none" ELSE swTurned
      /\ swTrue' = (swTrue /\ saved /\ sent)
      /\ swKind' = swKind /\ swError' = swError
  BY <1>1
<1> HIDE DEF on
<1>6. SwTypes'
  BY <1>4, <1>4a, <1>5 DEF SwInv, SwTypes
<1>7. ASSUME swKind = "on_off", swTrue'
      PROVE  /\ swTrue /\ saved /\ sent
             /\ on /\ ~swOn => swError >= SwBand
             /\ ~on /\ swOn => swError <= -SwBand
             /\ swOn <=> swSent = "on"
             /\ swSent = "on" => swAt >= SwBand
             /\ swSent = "off" /\ swTurned => swAt <= -SwBand
  <2>1. swTrue /\ saved /\ sent
    BY <1>5, <1>7
  <2>2. swOn \in BOOLEAN
    BY DEF SwInv, SwTypes
  <2>3. /\ on /\ ~swOn => swError >= SwBand
        /\ ~on /\ swOn => swError <= -SwBand
    BY <1>2, <1>3, <1>7, <2>2, SwOnOffTurns
  <2> QED
    BY <1>7, <2>1, <2>3 DEF SwInv, SwFollows
<1>8. SwFollows'
  <2> SUFFICES ASSUME swKind = "on_off", swTrue'
               PROVE  /\ swOn' <=> swSent' = "on"
                      /\ swSent' = "on" => swAt' >= SwBand
                      /\ swSent' = "off" /\ swTurned' => swAt' <= -SwBand
    BY <1>5 DEF SwFollows
  <2> QED
    BY <1>2, <1>4, <1>4a, <1>5, <1>7 DEF SwInv, SwTypes
<1>9. SwSwitches
  BY <1>2, <1>4, <1>5, <1>7 DEF SwSwitches
<1> QED
  BY <1>6, <1>8, <1>9 DEF SwInv

LEMMA SwInductive ==
  ASSUME SwInv, [SwNext]_swVars
  PROVE  SwInv' /\ [SwSwitches]_swVars
<1>1. CASE SwRun \/ SwDryRun \/ SwRollback
  BY <1>1, SwTickKeeps DEF SwRun, SwDryRun, SwRollback
<1>2. CASE SwEnable
  BY <1>2 DEF SwEnable, SwFresh, SwInv, SwTypes, SwFollows, SwSwitches
<1>3. CASE SwDisturb
  BY <1>3 DEF SwDisturb, SwInv, SwTypes, SwFollows, SwSwitches
<1>4. CASE UNCHANGED swVars
  BY <1>4 DEF swVars, SwInv, SwTypes, SwFollows
<1> QED
  BY <1>1, <1>2, <1>3, <1>4 DEF SwNext

(* Between two switches of an on-off scheme the process value crosses the  *)
(* whole dead band, for any dead band, errors and ticks, as long as each   *)
(* tick was both sent and saved (controllers.py: on_off_step).             *)
THEOREM SwitchHysteresis == SwSpec => Hysteresis
<1>1. SwInit => SwInv
  BY DEF SwInit, SwInv, SwTypes, SwFollows
<1>2. SwInv /\ [SwNext]_swVars => SwInv' /\ [SwSwitches]_swVars
  BY SwInductive
<1> QED
  BY <1>1, <1>2, PTL DEF SwSpec, Hysteresis, SwSwitches

-----------------------------------------------------------------------------
(* The share of the pulse.  The phase is a rest beyond one of the steps of *)
(* the period, and the last ticks were at the steps before, one each; the  *)
(* steps at which the output is on are the first ones.                     *)

\* The number of regular steps from the start of the period, j ticks before
\* the one with number k.
SwSlot(k, j) == IF j <= k THEN k - j ELSE k - j + SwTicks

(* The phase is r beyond step k, and the last ticks were at the steps       *)
(* before, one each.                                                       *)
SwSlotted(recent, k, r) ==
  \A i \in 1 .. Len(recent) :
    recent[i].on <=> SwPwm(recent[i].output, r + SwSlot(k, Len(recent) - i) * SwStep)

SwTickSet == [output : 0 .. SwSpan, on : BOOLEAN]

SwCounts ==
  /\ swKind \in {"on_off", "threshold", "pwm"} /\ swOutput \in 0 .. SwSpan
  /\ swRecent \in Seq(SwTickSet) /\ Len(swRecent) <= SwTicks
  /\ \E k \in 0 .. SwTicks - 1, r \in 0 .. SwStep - 1 :
       swPhase = r + k * SwStep /\ SwSlotted(swRecent, k, r)

LEMMA SwNumbers ==
  /\ SwSpan \in Nat \ {0} /\ SwStep \in Nat \ {0} /\ SwTicks \in Nat \ {0}
  /\ SwPeriod \in Nat \ {0} /\ SwPeriod = SwStep * SwTicks
BY SwitchAssumption DEF SwPeriod

LEMMA SwLess ==
  ASSUME NEW a \in Nat, NEW b \in Nat, NEW s \in Nat \ {0}
  PROVE  /\ s * a < s * b => a < b
         /\ s * a <= s * b => a <= b
         /\ a < b => s * a + s <= s * b
         /\ a <= b => s * a <= s * b
<1>1. ASSUME a < b PROVE s * a + s <= s * b
  <2> DEFINE d == b - a - 1
  <2>1. d \in Nat /\ b = a + d + 1
    BY <1>1
  <2>2. s * b = s * a + s * d + s /\ s * d \in Nat
    BY <2>1
  <2> HIDE DEF d
  <2> QED
    BY <2>2
<1>2. ASSUME b < a PROVE s * b + s <= s * a
  <2> DEFINE d == a - b - 1
  <2>1. d \in Nat /\ a = b + d + 1
    BY <1>2
  <2>2. s * a = s * b + s * d + s /\ s * d \in Nat
    BY <2>1
  <2> HIDE DEF d
  <2> QED
    BY <2>2
<1>3. s * a \in Nat /\ s * b \in Nat
  OBVIOUS
<1> QED
  BY <1>1, <1>2, <1>3

(* A phase within the period, as steps and a rest.                         *)
LEMMA SwPhaseParts ==
  ASSUME NEW t \in 0 .. SwPeriod - 1
  PROVE  \E k \in 0 .. SwTicks - 1, r \in 0 .. SwStep - 1 : t = r + k * SwStep
<1> DEFINE k == t \div SwStep
           r == t - k * SwStep
<1>1. /\ t \in Nat /\ t < SwStep * SwTicks /\ SwStep \in Nat \ {0} /\ SwTicks \in Nat
  BY SwNumbers
<1>2. k \in Nat /\ k * SwStep <= t /\ t < k * SwStep + SwStep
  BY <1>1, Z3
<1> HIDE DEF k
<1>3. k * SwStep \in Nat
  BY <1>1, <1>2
<1>4. r \in 0 .. SwStep - 1 /\ t = r + k * SwStep
  BY <1>1, <1>2, <1>3
<1>5. SwStep * k < SwStep * SwTicks
  BY <1>1, <1>2, <1>3
<1>6. k < SwTicks
  BY <1>1, <1>2, <1>5, SwLess
<1>7. k \in 0 .. SwTicks - 1
  BY <1>1, <1>2, <1>6
<1> HIDE DEF r
<1> QED
  BY <1>4, <1>7

(* A regular tick goes one step on, and begins again at the end.           *)
LEMMA SwNextPhase ==
  ASSUME NEW k \in 0 .. SwTicks - 1, NEW r \in 0 .. SwStep - 1, swPhase = r + k * SwStep
  PROVE  SwPhaseAfter(SwStep) = r + (IF k = SwTicks - 1 THEN 0 ELSE k + 1) * SwStep
<1>1. /\ k \in Nat /\ r \in Nat /\ SwStep \in Nat \ {0} /\ SwTicks \in Nat \ {0} /\ r < SwStep
      /\ SwPeriod \in Nat \ {0} /\ SwPeriod = SwStep * SwTicks /\ k <= SwTicks - 1
  BY SwNumbers
<1>2. (k + 1) * SwStep = k * SwStep + SwStep /\ k * SwStep \in Nat
  BY <1>1
<1>3. CASE k = SwTicks - 1
  <2>1. swPhase + SwStep = r + SwPeriod
    BY <1>1, <1>2, <1>3
  <2>2. r < SwPeriod
    <3>1. SwStep * 1 <= SwStep * SwTicks
      BY <1>1, SwLess
    <3> QED
      BY <1>1, <3>1
  <2>3. (r + SwPeriod) % SwPeriod = r
    BY <1>1, <2>2, Z3
  <2> QED
    BY <1>1, <1>3, <2>1, <2>3 DEF SwPhaseAfter
<1>4. CASE k # SwTicks - 1
  <2>1. k + 1 < SwTicks /\ k + 1 \in Nat
    BY <1>1, <1>4
  <2>2. SwStep * (k + 1) + SwStep <= SwPeriod
    BY <1>1, <2>1, SwLess
  <2>3. r + (k + 1) * SwStep < SwPeriod /\ r + (k + 1) * SwStep \in Nat
    BY <1>1, <1>2, <2>2
  <2>4. swPhase + SwStep = r + (k + 1) * SwStep
    BY <1>1, <1>2
  <2> DEFINE t == r + (k + 1) * SwStep
  <2>5. t \in Nat /\ t < SwPeriod
    BY <2>3
  <2> HIDE DEF t
  <2>6. t % SwPeriod = t
    BY <1>1, <2>5, Z3
  <2> QED
    BY <1>4, <2>4, <2>6 DEF SwPhaseAfter, t
<1> QED
  BY <1>3, <1>4

LEMMA SwAnyPhase ==
  ASSUME swPhase \in Nat, NEW dt \in Nat
  PROVE  SwPhaseAfter(dt) \in 0 .. SwPeriod - 1
<1>1. swPhase + dt \in Nat /\ SwPeriod \in Nat \ {0}
  BY SwNumbers
<1> QED
  BY <1>1, Z3 DEF SwPhaseAfter

(* The ticks kept are those before, each one step further back, and the    *)
(* new one.                                                                *)
LEMMA SwLastKeeps ==
  ASSUME NEW recent \in Seq(SwTickSet), Len(recent) <= SwTicks, NEW new \in SwTickSet,
         NEW k \in 0 .. SwTicks - 1, NEW r \in Nat, SwSlotted(recent, k, r),
         NEW m, m = (IF k = SwTicks - 1 THEN 0 ELSE k + 1),
         new.on <=> SwPwm(new.output, r + m * SwStep)
  PROVE  /\ SwLast(Append(recent, new)) \in Seq(SwTickSet)
         /\ Len(SwLast(Append(recent, new))) <= SwTicks
         /\ SwSlotted(SwLast(Append(recent, new)), m, r)
<1> DEFINE n == Len(recent)
           more == Append(recent, new)
<1>0. SwTicks \in Nat \ {0} /\ n \in Nat /\ n <= SwTicks /\ k \in Nat /\ m \in 0 .. SwTicks - 1
  BY SwNumbers, LenProperties
<1>1. /\ more \in Seq(SwTickSet) /\ Len(more) = n + 1 /\ more[n + 1] = new
      /\ \A i \in 1 .. n : more[i] = recent[i]
  BY AppendProperties, LenProperties
<1>2. \A i \in 1 .. n : recent[i].on <=> SwPwm(recent[i].output, r + SwSlot(k, n - i) * SwStep)
  BY DEF SwSlotted
<1> HIDE DEF more, n
<1>3. ASSUME NEW j \in Nat, j + 1 <= SwTicks - 1 PROVE SwSlot(m, j + 1) = SwSlot(k, j)
  BY <1>0, <1>3 DEF SwSlot
<1>4. ASSUME NEW i \in 1 .. n + 1, (n + 1) - i <= SwTicks - 1
      PROVE  more[i].on <=> SwPwm(more[i].output, r + SwSlot(m, (n + 1) - i) * SwStep)
  <2>1. CASE i = n + 1
    <3>1. SwSlot(m, (n + 1) - i) = m
      BY <1>0, <2>1 DEF SwSlot
    <3> QED
      BY <1>1, <2>1, <3>1
  <2>2. CASE i # n + 1
    <3>1. i \in 1 .. n /\ n - i \in Nat /\ (n - i) + 1 = (n + 1) - i
      BY <1>0, <2>2
    <3>2. SwSlot(m, (n + 1) - i) = SwSlot(k, n - i)
      BY <1>3, <1>4, <3>1
    <3> QED
      BY <1>1, <1>2, <3>1, <3>2
  <2> QED
    BY <2>1, <2>2
<1>5. CASE n + 1 > SwTicks
  <2> DEFINE rest == Tail(more)
  <2>1. /\ rest \in Seq(SwTickSet) /\ Len(rest) = n
        /\ \A i \in 1 .. n : rest[i] = more[i + 1]
    <3>1. more # <<>>
      BY <1>0, <1>1, EmptySeq
    <3>2. /\ rest \in Seq(SwTickSet) /\ Len(rest) = Len(more) - 1
          /\ \A i \in 1 .. Len(rest) : rest[i] = more[i + 1]
      BY <1>1, <3>1, HeadTailProperties
    <3> QED
      BY <1>0, <1>1, <3>2
  <2>2. SwLast(more) = rest
    BY <1>1, <1>5 DEF SwLast
  <2> HIDE DEF rest
  <2>3. ASSUME NEW i \in 1 .. n
        PROVE  rest[i].on <=> SwPwm(rest[i].output, r + SwSlot(m, n - i) * SwStep)
    <3>1. /\ i + 1 \in 1 .. n + 1 /\ (n + 1) - (i + 1) = n - i /\ n - i <= SwTicks - 1
      BY <1>0
    <3>2. more[i + 1].on <=> SwPwm(more[i + 1].output, r + SwSlot(m, n - i) * SwStep)
      BY <1>4, <3>1
    <3> QED
      BY <2>1, <3>2
  <2>4. SwSlotted(rest, m, r)
    BY <2>1, <2>3 DEF SwSlotted
  <2> QED
    BY <1>0, <2>1, <2>2, <2>4 DEF more
<1>6. CASE ~(n + 1 > SwTicks)
  <2>1. SwLast(more) = more /\ Len(more) <= SwTicks
    BY <1>0, <1>1, <1>6 DEF SwLast
  <2>2. \A i \in 1 .. n + 1 : (n + 1) - i <= SwTicks - 1
    BY <1>0, <1>6
  <2>3. \A i \in 1 .. n + 1 :
          more[i].on <=> SwPwm(more[i].output, r + SwSlot(m, (n + 1) - i) * SwStep)
    BY <1>4, <2>2
  <2>4. SwSlotted(more, m, r)
    BY <1>1, <2>3 DEF SwSlotted
  <2> QED
    BY <1>1, <2>1, <2>4 DEF more
<1> QED
  BY <1>5, <1>6

-----------------------------------------------------------------------------
LEMMA SwNoneSlotted ==
  ASSUME NEW t \in 0 .. SwPeriod - 1
  PROVE  /\ \E k \in 0 .. SwTicks - 1, r \in 0 .. SwStep - 1 :
              t = r + k * SwStep /\ SwSlotted(<<>>, k, r)
         /\ <<>> \in Seq(SwTickSet) /\ Len(<<>>) <= SwTicks
<1>1. \A k, r : SwSlotted(<<>>, k, r)
  BY DEF SwSlotted
<1>2. <<>> \in Seq(SwTickSet) /\ Len(<<>>) <= SwTicks
  BY SwNumbers
<1> QED
  BY <1>1, <1>2, SwPhaseParts

LEMMA SwPhaseRange ==
  ASSUME SwCounts
  PROVE  swPhase \in 0 .. SwPeriod - 1
<1>1. PICK k \in 0 .. SwTicks - 1, r \in 0 .. SwStep - 1 : swPhase = r + k * SwStep
  BY DEF SwCounts
<1>2. /\ k \in Nat /\ r \in Nat /\ r < SwStep /\ k < SwTicks
      /\ SwStep \in Nat \ {0} /\ SwTicks \in Nat \ {0} /\ SwPeriod = SwStep * SwTicks
  BY SwNumbers
<1>3. SwStep * k + SwStep <= SwPeriod
  BY <1>2, SwLess
<1>4. k * SwStep \in Nat /\ SwPeriod \in Nat
  BY <1>2, SwNumbers
<1> QED
  BY <1>1, <1>2, <1>3, <1>4

LEMMA SwCountsTick ==
  ASSUME SwCounts, NEW saved \in BOOLEAN, NEW sent \in BOOLEAN, SwTick(saved, sent)
  PROVE  SwCounts'
<1>1. PICK dt \in SwTimes :
        /\ swPhase' = IF saved /\ swKind = "pwm" THEN SwPhaseAfter(dt) ELSE swPhase
        /\ swRecent' = IF saved /\ sent /\ dt = SwStep /\ swKind = "pwm"
                       THEN SwLast(Append(swRecent, [output |-> swOutput, on |-> SwDecision(dt)]))
                       ELSE <<>>
        /\ UNCHANGED <<swKind, swError, swOutput>>
  BY Zenon DEF SwTick
<1>2. dt \in Nat
  BY SwitchAssumption
<1>3. CASE saved /\ sent /\ dt = SwStep /\ swKind = "pwm"
  <2> DEFINE new == [output |-> swOutput, on |-> SwDecision(dt)]
  <2>1. PICK k \in 0 .. SwTicks - 1, r \in 0 .. SwStep - 1 :
          swPhase = r + k * SwStep /\ SwSlotted(swRecent, k, r)
    BY DEF SwCounts
  <2>2. PICK m : m = (IF k = SwTicks - 1 THEN 0 ELSE k + 1)
    OBVIOUS
  <2>3. m \in 0 .. SwTicks - 1 /\ r \in Nat
    BY <2>2, SwNumbers
  <2>4. swPhase' = r + m * SwStep /\ SwPhaseAfter(dt) = r + m * SwStep
    BY <1>1, <1>3, <2>1, <2>2, SwNextPhase
  <2>5. SwDecision(dt) = SwPwm(swOutput, r + m * SwStep)
    BY <1>3, <2>4 DEF SwDecision
  <2>6. SwDecision(dt) \in BOOLEAN
    BY <2>5 DEF SwPwm
  <2>7. new \in SwTickSet /\ new.output = swOutput /\ (new.on <=> SwPwm(swOutput, r + m * SwStep))
    BY <2>5, <2>6 DEF SwTickSet, SwCounts
  <2> HIDE DEF new
  <2>8. swRecent' = SwLast(Append(swRecent, new))
    BY <1>1, <1>3 DEF new
  <2>9. swRecent \in Seq(SwTickSet) /\ Len(swRecent) <= SwTicks
    BY DEF SwCounts
  <2>10. /\ SwLast(Append(swRecent, new)) \in Seq(SwTickSet)
         /\ Len(SwLast(Append(swRecent, new))) <= SwTicks
         /\ SwSlotted(SwLast(Append(swRecent, new)), m, r)
    BY <2>1, <2>2, <2>3, <2>7, <2>9, SwLastKeeps
  <2> QED
    BY <1>1, <2>3, <2>4, <2>8, <2>10 DEF SwCounts
<1>4. CASE ~(saved /\ sent /\ dt = SwStep /\ swKind = "pwm")
  <2>1. swRecent' = <<>>
    BY <1>1, <1>4
  <2>2. swPhase \in 0 .. SwPeriod - 1 /\ swPhase \in Nat
    BY SwPhaseRange, SwNumbers
  <2>3. swPhase' \in 0 .. SwPeriod - 1
    BY <1>1, <1>2, <2>2, SwAnyPhase
  <2>4. /\ \E k \in 0 .. SwTicks - 1, r \in 0 .. SwStep - 1 :
              swPhase' = r + k * SwStep /\ SwSlotted(swRecent', k, r)
        /\ swRecent' \in Seq(SwTickSet) /\ Len(swRecent') <= SwTicks
    BY <2>1, <2>3, SwNoneSlotted
  <2> QED
    BY <1>1, <2>4 DEF SwCounts
<1> QED
  BY <1>3, <1>4

LEMMA SwCountsHold == SwSpec => []SwCounts
<1>1. ASSUME SwInit PROVE SwCounts
  <2>1. swPhase \in 0 .. SwPeriod - 1 /\ swRecent = <<>>
    BY <1>1, SwNumbers DEF SwInit
  <2>2. swKind \in {"on_off", "threshold", "pwm"} /\ swOutput \in 0 .. SwSpan
    BY <1>1 DEF SwInit
  <2> QED
    BY <2>1, <2>2, SwNoneSlotted DEF SwCounts
<1>2. ASSUME SwCounts, [SwNext]_swVars PROVE SwCounts'
  <2>1. CASE SwRun \/ SwDryRun \/ SwRollback
    BY <1>2, <2>1, SwCountsTick DEF SwRun, SwDryRun, SwRollback
  <2>2. CASE SwEnable
    <3>1. swPhase' = 0 /\ swRecent' = <<>> /\ UNCHANGED <<swKind, swOutput>>
      BY <2>2 DEF SwEnable, SwFresh
    <3>2. swPhase' \in 0 .. SwPeriod - 1
      BY <3>1, SwNumbers
    <3>3. /\ \E k \in 0 .. SwTicks - 1, r \in 0 .. SwStep - 1 :
              swPhase' = r + k * SwStep /\ SwSlotted(swRecent', k, r)
          /\ swRecent' \in Seq(SwTickSet) /\ Len(swRecent') <= SwTicks
      BY <3>1, <3>2, SwNoneSlotted
    <3> QED
      BY <1>2, <3>1, <3>3 DEF SwCounts
  <2>3. CASE SwDisturb
    BY <1>2, <2>3 DEF SwDisturb, SwCounts
  <2>4. CASE UNCHANGED swVars
    BY <1>2, <2>4 DEF swVars, SwCounts
  <2> QED
    BY <1>2, <2>1, <2>2, <2>3, <2>4 DEF SwNext
<1> QED
  BY <1>1, <1>2, PTL DEF SwSpec

(* As many ticks as there are steps in the period are at one step each, so *)
(* that those at which the output was on are as many as the steps at the   *)
(* beginning of the period at which it is to be on.                        *)
LEMMA SwOnSteps ==
  ASSUME NEW recent \in Seq(SwTickSet), Len(recent) = SwTicks,
         NEW k \in 0 .. SwTicks - 1, NEW c \in 0 .. SwTicks,
         \A i \in 1 .. SwTicks : recent[i].on <=> SwSlot(k, SwTicks - i) < c
  PROVE  Cardinality({i \in DOMAIN recent : recent[i].on}) = c
<1> DEFINE On == {i \in DOMAIN recent : recent[i].on}
<1>1. SwTicks \in Nat /\ k \in Nat /\ k < SwTicks /\ c \in Nat /\ c <= SwTicks
  BY SwNumbers
<1>2. DOMAIN recent = 1 .. SwTicks
  BY LenProperties
<1>3. On = {i \in 1 .. SwTicks : SwSlot(k, SwTicks - i) < c}
  BY <1>2
<1>4. IsFiniteSet(On) /\ Cardinality(On) \in Nat
  <2>1. IsFiniteSet(1 .. SwTicks)
    BY <1>1, FS_Interval
  <2>2. On \in SUBSET (1 .. SwTicks)
    BY <1>3
  <2> HIDE DEF On
  <2>3. IsFiniteSet(On)
    BY <2>1, <2>2, FS_Subset
  <2> QED
    BY <2>3, FS_CardinalityType
<1>5. IsFiniteSet(0 .. c - 1) /\ Cardinality(0 .. c - 1) = c
  BY <1>1, FS_Interval
<1> HIDE DEF On
<1>6. ASSUME c < Cardinality(On) PROVE FALSE
  <2> DEFINE slot == [i \in On |-> SwSlot(k, SwTicks - i)]
  <2>1. slot \in [On -> 0 .. c - 1]
    BY <1>1, <1>3 DEF SwSlot
  <2>2. ASSUME NEW i \in On, NEW j \in On, slot[i] = slot[j] PROVE i = j
    <3>1. i \in 1 .. SwTicks /\ j \in 1 .. SwTicks
      BY <1>3
    <3>2. SwSlot(k, SwTicks - i) = SwSlot(k, SwTicks - j)
      BY <2>2
    <3> QED
      BY <1>1, <3>1, <3>2 DEF SwSlot
  <2> HIDE DEF slot
  <2>3. \E i, j \in On : i # j /\ slot[i] = slot[j]
    BY <1>4, <1>5, <1>6, <2>1, FS_PigeonHole
  <2> QED
    BY <2>2, <2>3
<1>7. ASSUME Cardinality(On) < c PROVE FALSE
  <2> DEFINE tick == [s \in 0 .. c - 1 |-> SwTicks - SwSlot(k, s)]
  <2>1. ASSUME NEW s \in 0 .. c - 1 PROVE tick[s] \in On
    <3>1. tick[s] \in 1 .. SwTicks /\ SwSlot(k, SwTicks - tick[s]) = s
      BY <1>1 DEF SwSlot
    <3> QED
      BY <1>1, <1>3, <3>1
  <2>2. ASSUME NEW s \in 0 .. c - 1, NEW t \in 0 .. c - 1, tick[s] = tick[t] PROVE s = t
    BY <1>1, <2>2 DEF SwSlot
  <2>3. tick \in [0 .. c - 1 -> On]
    BY <2>1
  <2> HIDE DEF tick
  <2>4. \E s, t \in 0 .. c - 1 : s # t /\ tick[s] = tick[t]
    BY <1>4, <1>5, <1>7, <2>3, FS_PigeonHole
  <2> QED
    BY <2>2, <2>4
<1> QED
  BY <1>1, <1>4, <1>6, <1>7 DEF On

(* The multiples of w below d are the first ones.                           *)
LEMMA SwMultiples ==
  ASSUME NEW w \in Nat \ {0}, NEW d \in Int, NEW n \in Nat, d <= w * n
  PROVE  \E c \in 0 .. n : \A s \in Nat : w * s < d <=> s < c
<1>1. CASE d <= 0
  <2>1. \A s \in Nat : w * s \in Nat
    OBVIOUS
  <2>2. \A s \in Nat : w * s < d <=> s < 0
    BY <1>1, <2>1
  <2> QED
    BY <2>2
<1>2. CASE ~(d <= 0)
  <2> DEFINE q == (d - 1) \div w
  <2>1. d - 1 \in Nat
    BY <1>2
  <2>2. q \in Nat /\ w * q <= d - 1 /\ d - 1 < w * q + w
    BY <2>1, Z3
  <2> HIDE DEF q
  <2>3. w * q \in Nat /\ w * n \in Nat
    BY <2>2
  <2>4. w * q < w * n
    BY <2>2, <2>3
  <2>5. q < n
    BY <2>2, <2>4, SwLess
  <2>6. ASSUME NEW s \in Nat PROVE w * s < d <=> s < q + 1
    <3>1. w * s \in Nat /\ (s <= q => w * s <= w * q) /\ (q < s => w * q + w <= w * s)
      BY <2>2, SwLess
    <3> QED
      BY <2>2, <2>3, <3>1
  <2>7. q + 1 \in 0 .. n
    BY <2>2, <2>5
  <2> QED
    BY <2>6, <2>7
<1> QED
  BY <1>1, <1>2

(* The steps that are on: a beginning of the period.                       *)
LEMMA SwBeginning ==
  ASSUME NEW share \in 0 .. SwSpan, NEW r \in 0 .. SwStep - 1
  PROVE  \E c \in 0 .. SwTicks :
           /\ \A s \in 0 .. SwTicks - 1 : SwPwm(share, r + s * SwStep) <=> s < c
           /\ c * SwSpan < share * SwTicks + SwSpan
           /\ share * SwTicks < c * SwSpan + SwSpan
<1>0. /\ SwSpan \in Nat \ {0} /\ SwStep \in Nat \ {0} /\ SwTicks \in Nat \ {0} /\ share \in Nat
      /\ r \in Nat /\ r < SwStep /\ share <= SwSpan
  BY SwNumbers
<1>3. \A s \in 0 .. SwTicks - 1 :
        SwPwm(share, r + s * SwStep) <=> (r + s * SwStep) * SwSpan < share * (SwStep * SwTicks)
  BY DEF SwPwm, SwPeriod
\* The condition of a step, by whole steps.
<1>5. ASSUME NEW s \in Nat
      PROVE  /\ (r + s * SwStep) * SwSpan = r * SwSpan + SwStep * (s * SwSpan)
             /\ share * (SwStep * SwTicks) = SwStep * (share * SwTicks)
             /\ r * SwSpan \in Nat /\ s * SwSpan \in Nat /\ share * SwTicks \in Nat
             /\ (r + s * SwStep) * SwSpan \in Nat /\ share * (SwStep * SwTicks) \in Nat
  BY <1>0
<1>6. ASSUME NEW s \in 0 .. SwTicks - 1, SwPwm(share, r + s * SwStep)
      PROVE  s * SwSpan < share * SwTicks
  <2> DEFINE a == s * SwSpan
             b == share * SwTicks
  <2>0. s \in Nat
    BY <1>0
  <2>1. a \in Nat /\ b \in Nat /\ r * SwSpan \in Nat
        /\ r * SwSpan + SwStep * a < SwStep * b
    BY <1>3, <1>5, <1>6, <2>0
  <2>2. SwStep * a \in Nat /\ SwStep * b \in Nat
    BY <1>0, <2>1
  <2> HIDE DEF a, b
  <2>3. SwStep * a < SwStep * b
    BY <2>1, <2>2
  <2>4. a < b
    BY <1>0, <2>1, <2>3, SwLess
  <2> QED
    BY <2>4 DEF a, b
<1>7. ASSUME NEW s \in 0 .. SwTicks - 1, ~SwPwm(share, r + s * SwStep)
      PROVE  share * SwTicks < s * SwSpan + SwSpan
  <2> DEFINE a == s * SwSpan + SwSpan
             b == share * SwTicks
  <2>0. s \in Nat
    BY <1>0
  <2>1. /\ s * SwSpan \in Nat /\ b \in Nat /\ r * SwSpan \in Nat
        /\ ~(r * SwSpan + SwStep * (s * SwSpan) < SwStep * b)
    BY <1>3, <1>5, <1>7, <2>0
  <2>2. a \in Nat /\ SwStep * a = SwStep * (s * SwSpan) + SwStep * SwSpan
    BY <1>0, <2>1
  <2>3. SwSpan * r + SwSpan <= SwSpan * SwStep
    BY <1>0, SwLess
  <2>4. /\ SwStep * (s * SwSpan) \in Nat /\ SwStep * b \in Nat /\ SwStep * SwSpan \in Nat
        /\ SwSpan * r = r * SwSpan /\ SwSpan * SwStep = SwStep * SwSpan
    BY <1>0, <2>1
  <2> HIDE DEF a, b
  <2>5. SwStep * b < SwStep * a
    BY <1>0, <2>1, <2>2, <2>3, <2>4
  <2>6. b < a
    BY <1>0, <2>1, <2>2, <2>5, SwLess
  <2> QED
    BY <2>6 DEF a, b
<1>8. PICK c \in 0 .. SwTicks :
        \A s \in Nat : (SwStep * SwSpan) * s < SwStep * (share * SwTicks) - r * SwSpan <=> s < c
  <2> DEFINE w == SwStep * SwSpan
             most == SwStep * (share * SwTicks)
             rest == r * SwSpan
             d == most - rest
  <2>1. w \in Nat \ {0}
    BY <1>0
  <2>2. /\ r * SwSpan \in Nat /\ share * SwTicks \in Nat /\ SwSpan * SwTicks \in Nat
        /\ SwTicks * share <= SwTicks * SwSpan
    BY <1>0, SwLess
  <2>3. share * SwTicks <= SwSpan * SwTicks
    BY <1>0, <2>2
  <2>4. SwStep * (share * SwTicks) <= SwStep * (SwSpan * SwTicks)
    BY <1>0, <2>2, <2>3, SwLess
  <2>5. SwStep * (SwSpan * SwTicks) = w * SwTicks /\ w * SwTicks \in Nat
    BY <1>0
  <2>6. most \in Nat /\ rest \in Nat /\ most <= w * SwTicks
    BY <1>0, <2>2, <2>4, <2>5
  <2> HIDE DEF w, most, rest
  <2>7. d \in Int /\ d <= w * SwTicks
    BY <2>5, <2>6
  <2> HIDE DEF d
  <2>8. \E c \in 0 .. SwTicks : \A s \in Nat : w * s < d <=> s < c
    BY <1>0, <2>1, <2>7, SwMultiples
  <2> QED
    BY <2>8 DEF w, d, most, rest
<1>9. ASSUME NEW s \in 0 .. SwTicks - 1
      PROVE  SwPwm(share, r + s * SwStep) <=> s < c
  <2>0. s \in Nat
    BY <1>0
  <2>1. /\ (SwStep * SwSpan) * s = SwStep * (s * SwSpan) /\ SwStep * (s * SwSpan) \in Nat
        /\ SwStep * (share * SwTicks) \in Nat
    BY <1>0, <2>0
  <2>2. SwPwm(share, r + s * SwStep)
          <=> r * SwSpan + SwStep * (s * SwSpan) < SwStep * (share * SwTicks)
    BY <1>3, <1>5, <2>0
  <2>3. r * SwSpan \in Nat
    BY <1>0
  <2>4. (SwStep * SwSpan) * s < SwStep * (share * SwTicks) - r * SwSpan <=> s < c
    BY <1>8, <2>0
  <2> QED
    BY <2>1, <2>2, <2>3, <2>4
<1>10. c * SwSpan < share * SwTicks + SwSpan
  <2>1. CASE c = 0
    BY <1>0, <2>1
  <2>2. CASE c # 0
    <3>1. c - 1 \in 0 .. SwTicks - 1 /\ c - 1 < c /\ c \in Nat
      BY <1>0, <1>8, <2>2
    <3>2. (c - 1) * SwSpan < share * SwTicks
      BY <1>6, <1>9, <3>1
    <3>3. c * SwSpan = (c - 1) * SwSpan + SwSpan
      BY <1>0, <3>1
    <3>4. (c - 1) * SwSpan \in Nat /\ share * SwTicks \in Nat
      BY <1>0, <3>1
    <3> QED
      BY <1>0, <3>2, <3>3, <3>4
  <2> QED
    BY <2>1, <2>2
<1>11. share * SwTicks < c * SwSpan + SwSpan
  <2>1. CASE c = SwTicks
    <3>1. SwTicks * share <= SwTicks * SwSpan
      BY <1>0, SwLess
    <3>2. SwTicks * SwSpan \in Nat /\ SwTicks * share \in Nat
      BY <1>0
    <3> QED
      BY <1>0, <2>1, <3>1, <3>2
  <2>2. CASE c # SwTicks
    <3>1. c \in 0 .. SwTicks - 1 /\ ~(c < c)
      BY <1>0, <1>8, <2>2
    <3> QED
      BY <1>7, <1>9, <3>1
  <2> QED
    BY <2>1, <2>2
<1> QED
  BY <1>8, <1>9, <1>10, <1>11

(* Over as many regular ticks as make a period, an output that does not    *)
(* change keeps the actuator on for its share of them, to less than one    *)
(* tick, for any period, span and step, and from any phase: also one that  *)
(* ticks of other lengths have left (controllers.py: _resolve_command,     *)
(* pwm).                                                                   *)
THEOREM SwitchPwmShare == SwSpec => []PwmShare
<1>1. ASSUME SwCounts PROVE PwmShare
  <2> SUFFICES ASSUME Len(swRecent) = SwTicks, NEW share \in 0 .. SwSpan,
                      \A i \in DOMAIN swRecent : swRecent[i].output = share
               PROVE  /\ SwShare * SwSpan < share * SwTicks + SwSpan
                      /\ share * SwTicks < SwShare * SwSpan + SwSpan
    BY DEF PwmShare
  <2>1. PICK k \in 0 .. SwTicks - 1, r \in 0 .. SwStep - 1 : SwSlotted(swRecent, k, r)
    BY <1>1 DEF SwCounts
  <2>2. PICK c \in 0 .. SwTicks :
           /\ \A s \in 0 .. SwTicks - 1 : SwPwm(share, r + s * SwStep) <=> s < c
           /\ c * SwSpan < share * SwTicks + SwSpan
           /\ share * SwTicks < c * SwSpan + SwSpan
    BY SwBeginning
  <2>3. swRecent \in Seq(SwTickSet) /\ DOMAIN swRecent = 1 .. SwTicks
    BY <1>1, LenProperties DEF SwCounts
  <2>4. ASSUME NEW i \in 1 .. SwTicks
        PROVE  swRecent[i].on <=> SwSlot(k, SwTicks - i) < c
    <3>1. swRecent[i].on <=> SwPwm(share, r + SwSlot(k, SwTicks - i) * SwStep)
      BY <2>1, <2>3 DEF SwSlotted
    <3>2. SwSlot(k, SwTicks - i) \in 0 .. SwTicks - 1
      BY SwNumbers DEF SwSlot
    <3> QED
      BY <2>2, <3>1, <3>2
  <2>5. SwShare = c
    BY <2>3, <2>4, SwOnSteps DEF SwShare
  <2> QED
    BY <2>2, <2>5
<1> QED
  BY <1>1, SwCountsHold, PTL

=============================================================================
