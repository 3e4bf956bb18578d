---------------------------- MODULE SwitchedOutput ----------------------------
(***************************************************************************)
(* How a control scheme drives an actuator that can only be on or off      *)
(* (automation/controllers.py: on_off_step, and _resolve_command for the   *)
(* output of PI and PID).                                                  *)
(*                                                                         *)
(* A tick decides from the state of the last one, sends the command and    *)
(* saves the new state.  A manual tick may save without sending; where the *)
(* transaction is rolled back the command is out and the state is not      *)
(* saved.  To enable the scheme resets the state.                          *)
(*                                                                         *)
(* The error is SP - PV or PV - SP, so that a positive one asks for on.    *)
(* The output is counted from out_min.                                     *)
(***************************************************************************)
EXTENDS Integers, Sequences, FiniteSets

CONSTANTS
  SwBand,    \* deadband
  SwErrors,  \* the errors that are measured
  SwSpan,    \* out_max - out_min
  SwStep,    \* the regular time between two ticks
  SwTicks,   \* pwm_period, in regular steps
  SwTimes    \* the values of dt

SwPeriod == SwStep * SwTicks

ASSUME SwitchAssumption ==
  /\ SwBand \in Nat /\ SwErrors \subseteq Int /\ SwSpan \in Nat \ {0}
  /\ SwStep \in Nat \ {0} /\ SwTicks \in Nat \ {0}
  /\ SwTimes \subseteq Nat

VARIABLES
  swKind,    \* control_type on_off, or what convert says
  swError,   \* the error that the next tick measures
  swOutput,  \* the output that PI or PID computes from it
  swOn,      \* runtime_state: on
  swPhase,   \* runtime_state: pwm_phase
  swSent,    \* the last command since the reset
  swAt,      \* history: the error when this command was first sent,
  swTurned,  \* and whether another one was sent before it
  swTrue,    \* history: since the reset, every tick was both sent and saved
  swRecent   \* history: output and decision of the last regular ticks

swVars == <<swKind, swError, swOutput, swOn, swPhase, swSent, swAt, swTurned, swTrue,
            swRecent>>

SwTypeOK ==
  /\ swKind \in {"on_off", "threshold", "pwm"}
  /\ swError \in SwErrors /\ swOutput \in 0 .. SwSpan
  /\ swOn \in BOOLEAN /\ swPhase \in 0 .. SwPeriod - 1
  /\ swSent \in {"none", "on", "off"} /\ swAt \in SwErrors /\ swTurned \in BOOLEAN
  /\ swTrue \in BOOLEAN
  /\ swRecent \in Seq([output : 0 .. SwSpan, on : BOOLEAN])

\* reset_runtime_state.
SwFresh ==
  /\ swOn' = FALSE /\ swPhase' = 0
  /\ swSent' = "none" /\ swTurned' = FALSE /\ swTrue' = TRUE /\ swRecent' = <<>>

SwInit ==
  /\ swKind \in {"on_off", "threshold", "pwm"}
  /\ swError \in SwErrors /\ swOutput \in 0 .. SwSpan /\ swAt = swError
  /\ swOn = FALSE /\ swPhase = 0
  /\ swSent = "none" /\ swTurned = FALSE /\ swTrue = TRUE /\ swRecent = <<>>

-----------------------------------------------------------------------------
\* Mutant: no dead band.
SwOnOffBare(error, prevOn) == error >= 0

\* Within the dead band the decision of the last tick is kept.
SwOnOff(error, prevOn) ==
  \/ error >= SwBand
  \/ error > -SwBand /\ prevOn

SwThreshold(output) == 2 * output >= SwSpan

\* Mutant: the phase is not carried over the end of the period.
SwPhaseStuck(dt) == IF swPhase + dt < SwPeriod THEN swPhase + dt ELSE SwPeriod - 1

SwPhaseAfter(dt) == (swPhase + dt) % SwPeriod

\* phase < duty * period.
SwPwm(output, phase) == phase * SwSpan < output * SwPeriod

SwDecision(dt) ==
  CASE swKind = "on_off"    -> SwOnOff(swError, swOn)
    [] swKind = "threshold" -> SwThreshold(swOutput)
    [] swKind = "pwm"       -> SwPwm(swOutput, SwPhaseAfter(dt))

SwCommand(on) == IF on THEN "on" ELSE "off"

\* The last ticks, as many as make a period.
SwLast(ticks) ==
  IF Len(ticks) > SwTicks THEN Tail(ticks) ELSE ticks

SwTick(saved, sent) ==
  \E dt \in SwTimes :
    LET on    == SwDecision(dt)
        turns == sent /\ swSent # SwCommand(on)
    IN
    /\ swOn' = IF saved /\ swKind = "on_off" THEN on ELSE swOn
    /\ swPhase' = IF saved /\ swKind = "pwm" THEN SwPhaseAfter(dt) ELSE swPhase
    /\ swSent' = IF sent THEN SwCommand(on) ELSE swSent
    /\ swAt' = IF turns THEN swError ELSE swAt
    /\ swTurned' = IF turns THEN swSent # "none" ELSE swTurned
    /\ swTrue' = (swTrue /\ saved /\ sent)
    /\ swRecent' = IF saved /\ sent /\ dt = SwStep /\ swKind = "pwm"
                   THEN SwLast(Append(swRecent, [output |-> swOutput, on |-> on])) ELSE <<>>
    /\ UNCHANGED <<swKind, swError, swOutput>>

SwRun == SwTick(TRUE, TRUE)

\* send=False.
SwDryRun == SwTick(TRUE, FALSE)

\* The command is out, the transaction is rolled back.
SwRollback == SwTick(FALSE, TRUE)

SwEnable == SwFresh /\ UNCHANGED <<swKind, swError, swOutput, swAt>>

\* The process goes its way.
SwDisturb ==
  /\ swError' \in SwErrors /\ swOutput' \in 0 .. SwSpan
  /\ UNCHANGED <<swKind, swOn, swPhase, swSent, swAt, swTurned, swTrue, swRecent>>

SwNext == SwRun \/ SwDryRun \/ SwRollback \/ SwEnable \/ SwDisturb

SwSpec == SwInit /\ [][SwNext]_swVars

-----------------------------------------------------------------------------
(* Between two switches of an on-off scheme the process value has crossed  *)
(* the whole dead band, as long as each tick was both sent and saved       *)
(* (on_off_step).                                                          *)
Hysteresis ==
  [][swKind = "on_off" /\ swTrue' =>
       /\ swSent = "on" /\ swSent' = "off" => swAt - swError >= 2 * SwBand
       /\ swSent = "off" /\ swSent' = "on" /\ swTurned =>
            swError - swAt >= 2 * SwBand]_swVars

SwShare == Cardinality({i \in DOMAIN swRecent : swRecent[i].on})

(* Over as many regular ticks as make a period, an output that does not    *)
(* change keeps the actuator on for its share of them, to less than one    *)
(* tick, whatever the ticks before were like (_resolve_command: pwm).      *)
PwmShare ==
  Len(swRecent) = SwTicks =>
    \A share \in 0 .. SwSpan :
      (\A i \in DOMAIN swRecent : swRecent[i].output = share) =>
        /\ SwShare * SwSpan < share * SwTicks + SwSpan
        /\ share * SwTicks < SwShare * SwSpan + SwSpan
=============================================================================
