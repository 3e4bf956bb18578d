---------------------------- MODULE PidController ----------------------------
(***************************************************************************)
(* The PI and PID algorithms of automation/controllers.py (pi_step,        *)
(* pid_step) in a closed loop with a process whose error moves as it       *)
(* likes.  PI is PID with Kd = 0: the two functions differ in nothing      *)
(* else.                                                                   *)
(*                                                                         *)
(* The error is SP - PV or PV - SP, so that a positive one asks for more   *)
(* output.  The floating-point values of the code are integers here; a     *)
(* difference that dt does not divide is rounded down.                     *)
(***************************************************************************)
EXTENDS Integers

CONSTANTS
  Kp, Ki, Kd,      \* the gains
  OutMin, OutMax,  \* out_min, out_max
  Errors,          \* the errors that are measured
  TimeSteps        \* the values of dt

VARIABLES
  error,     \* the error that the next tick measures
  integral,  \* runtime_state["integral"]
  prev,      \* runtime_state["prev_error"]
  output     \* the last output

vars == <<error, integral, prev, output>>

Gains ==
  /\ Kp \in Nat /\ Ki \in Nat /\ Kd \in Nat
  /\ OutMin \in Int /\ OutMax \in Int /\ OutMin < OutMax
  /\ Errors \subseteq Int /\ TimeSteps \subseteq Nat \ {0}

TypeOK ==
  /\ error \in Errors
  /\ integral \in Int /\ prev \in Int
  /\ output \in OutMin .. OutMax

\* reset_runtime_state; no output has been sent.
Init ==
  /\ error \in Errors
  /\ integral = 0 /\ prev = 0
  /\ output = OutMin

Trial(step) == integral + error * step

Raw(step) ==
  Kp * error + Ki * Trial(step) + Kd * ((error - prev) \div step)

\* The output is limited, and the integral is kept when it is.
Control ==
  /\ \E step \in TimeSteps :
       \/ /\ Raw(step) > OutMax
          /\ output' = OutMax /\ integral' = integral
       \/ /\ Raw(step) < OutMin
          /\ output' = OutMin /\ integral' = integral
       \/ /\ Raw(step) \in OutMin .. OutMax
          /\ output' = Raw(step) /\ integral' = Trial(step)
  /\ prev' = error
  /\ UNCHANGED error

Disturb ==
  /\ error' \in Errors
  /\ UNCHANGED <<integral, prev, output>>

Next == Control \/ Disturb

Spec == Init /\ [][Next]_vars

FairSpec == Spec /\ WF_vars(Control)
-----------------------------------------------------------------------------
\* pid_step promises anti-windup: when the error asks for less output and goes
\* on asking, the output does not stay at its upper limit.
Recovers == <>[](error < 0) => []<>(output < OutMax)

\* The share of the integral in the output of PI never exceeds the limits,
\* which pi_step ensures without ever comparing the integral with them.
IntegralBounded == Ki * integral \in OutMin .. OutMax

\* PI never holds the output at its upper limit against the error.
NotHeldAgainstError ==
  [][Control /\ error < 0 => output' < OutMax]_vars

=============================================================================
