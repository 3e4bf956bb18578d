--------------------------- MODULE SimulatedNodes ---------------------------
(***************************************************************************)
(* A virtual node of src/simulation.  Every node runs two threads over the *)
(* same unlocked fields: the main loop calls on_tick ten times a second,   *)
(* and paho's network thread calls handle_command for every message of the *)
(* control topic.  pin_control adds one thread for every high_all/low_all. *)
(*                                                                         *)
(* The platform believes a command carried out when a status message       *)
(* echoes its check code, so what matters here is when that echo is sent.  *)
(* A step is one assignment to a field or one publish; `accumulated_volume *)
(* +=' is a read and a write.  Values stand for themselves only at the     *)
(* boundaries the handlers test; a measured quantity is left out, and so   *)
(* are heartbeats and data messages, which change no field.                *)
(***************************************************************************)
EXTENDS Integers, Sequences, TLC

CONSTANTS
    NdClasses,      \* the node classes examined, names of NdHandler
    NdValues,       \* numbers a command may carry
    NdMaxCommands,  \* bound: commands the node receives
    NdMaxVolume,    \* bound: steps the totaliser counts
    NdText          \* a value int() and float() reject

ASSUME NdAssumption ==
    /\ NdClasses \subseteq
         {"bmp280", "temp_humi", "rotation", "generic_sensor", "level",
          "pressure", "temperature", "flow", "flow_rate", "touch", "pump",
          "servo", "generic_device", "pins"}
    /\ NdValues \subseteq Int
    /\ NdMaxCommands \in Nat
    /\ NdMaxVolume \in Nat

VARIABLES
    ndClass,     \* the class of the node
    ndFields,    \* the attributes both threads use
    ndNet,       \* the network thread: the command it handles and the steps left
    ndRunners,   \* the threads of _do_all that still run, likewise
    ndTick,      \* the totaliser value on_tick has read, or NotReading
    ndUp,        \* the node is connected
    ndReceived,  \* number of commands received; the last one's check code
    ndAnswered   \* check codes echoed in a status message

ndVars == <<ndClass, ndFields, ndNet, ndRunners, ndTick, ndUp, ndReceived,
            ndAnswered>>

Pins == <<"D5", "D6", "D7">>

(* Commands, with the argument that decides what they do.                  *)
NdMessages ==
    [cmd : {"set_interval", "set_status_interval", "set_power", "set_angle",
            "set_opening"}, val : NdValues \cup {NdText}]
    \cup [cmd : {"enable", "disable", "reset_volume", "start", "stop",
                 "current_status", "high", "low", "high_all", "low_all"},
          val : {0}]

-----------------------------------------------------------------------------
(* What handle_command does, step by step: assignments and publish_status, *)
(* which echoes the check code, in the order of the handler.               *)

Ignored == <<>>
Set(field, val) == [do |-> "set", field |-> field, val |-> val]
Status == [do |-> "publish_status", field |-> "", val |-> ""]

(* set_interval and set_status_interval outside their range, or with a     *)
(* value int() rejects (the exception ends in _on_message), have no answer.*)
Within(msg, field, lo, hi) ==
    IF msg.val \in (NdValues \cap lo .. hi) THEN <<Set(field, msg.val), Status>>
    ELSE Ignored

StatusInterval(msg, lo) == Within(msg, "status_report_interval", lo, 600)

(* The commands every periodic sensor shares; the copies differ in lo.     *)
SensorCommand(msg, lo) ==
    CASE msg.cmd = "set_interval" -> Within(msg, "sampling_interval", lo, 3600)
      [] msg.cmd = "set_status_interval" -> StatusInterval(msg, 30)
      [] msg.cmd = "enable" -> <<Set("is_enabled", TRUE), Status>>
      [] msg.cmd = "disable" -> <<Set("is_enabled", FALSE), Status>>
      [] OTHER -> Ignored

BMP280TempPressureSensor(msg) == SensorCommand(msg, 10)
TempHumiSensor(msg) == SensorCommand(msg, 10)
RotationSensor(msg) == SensorCommand(msg, 1)
GenericSensor(msg) == SensorCommand(msg, 5)
IndustrialLevelSensor(msg) == SensorCommand(msg, 5)
IndustrialPressureSensor(msg) == SensorCommand(msg, 5)
IndustrialTemperatureSensor(msg) == SensorCommand(msg, 5)

(* The two totalising sensors restart the integration on enable and clear  *)
(* the total on reset_volume.                                              *)
FlowSensor(msg) ==
    CASE msg.cmd = "enable" ->
           <<Set("is_enabled", TRUE), Set("_last_integrate_time", "now"), Status>>
      [] msg.cmd = "reset_volume" -> <<Set("accumulated_volume", 0), Status>>
      [] OTHER -> SensorCommand(msg, 5)

IndustrialFlowRateSensor(msg) ==
    CASE msg.cmd = "enable" ->
           <<Set("is_enabled", TRUE), Set("_last_integrate_time", "now"), Status>>
      [] msg.cmd = "reset_volume" -> <<Set("accumulated_volume", 0), Status>>
      [] OTHER -> SensorCommand(msg, 5)

TouchSensorSwitch(msg) ==
    IF msg.cmd = "set_interval" THEN Ignored ELSE SensorCommand(msg, 30)

(* The power of the pump counts in halves of its maximum: 0, 1, 2.         *)
PumpTarget(val) == IF val <= 0 THEN 0 ELSE IF val >= 2 THEN 2 ELSE val

Pump(msg) ==
    CASE msg.cmd = "start" ->
           IF ndFields["target_power_kw"] <= 0
           THEN <<Set("is_running", TRUE), Set("target_power_kw", 1), Status>>
           ELSE <<Set("is_running", TRUE), Status>>
      [] msg.cmd = "stop" ->
           <<Set("is_running", FALSE), Set("target_power_kw", 0), Status>>
      [] msg.cmd = "set_power" ->
           IF msg.val \notin NdValues THEN Ignored
           ELSE LET target == PumpTarget(msg.val)
                IN <<Set("target_power_kw", target), Set("is_running", target > 0), Status>>
      [] msg.cmd = "current_status" -> <<Status>>
      [] msg.cmd = "set_status_interval" -> StatusInterval(msg, 30)
      [] OTHER -> Ignored

SG90Servo(msg) ==
    CASE msg.cmd = "set_angle" -> Within(msg, "current_angle", 0, 180)
      [] msg.cmd = "current_status" -> <<Status>>
      [] msg.cmd = "set_status_interval" -> StatusInterval(msg, 10)
      [] OTHER -> Ignored

(* GenericDevice with one declared field, opening in 0..100: a number out  *)
(* of range is clamped, not refused.                                       *)
Coerced(val) == IF val < 0 THEN 0 ELSE IF val > 100 THEN 100 ELSE val

GenericDevice(msg) ==
    CASE msg.cmd = "set_opening" ->
           IF msg.val \in NdValues THEN <<Set("opening", Coerced(msg.val)), Status>>
           ELSE Ignored
      [] msg.cmd = "current_status" -> <<Status>>
      [] msg.cmd = "set_status_interval" -> StatusInterval(msg, 30)
      [] OTHER -> Ignored

PinControl(msg) ==
    CASE msg.cmd \in {"high", "low"} -> <<Set("D5", msg.cmd), Status>>
      [] msg.cmd = "current_status" -> <<Status>>
      [] msg.cmd = "set_status_interval" -> StatusInterval(msg, 30)
      [] OTHER -> Ignored

NdHandler(class, msg) ==
    CASE class = "bmp280" -> BMP280TempPressureSensor(msg)
      [] class = "temp_humi" -> TempHumiSensor(msg)
      [] class = "rotation" -> RotationSensor(msg)
      [] class = "generic_sensor" -> GenericSensor(msg)
      [] class = "level" -> IndustrialLevelSensor(msg)
      [] class = "pressure" -> IndustrialPressureSensor(msg)
      [] class = "temperature" -> IndustrialTemperatureSensor(msg)
      [] class = "flow" -> FlowSensor(msg)
      [] class = "flow_rate" -> IndustrialFlowRateSensor(msg)
      [] class = "touch" -> TouchSensorSwitch(msg)
      [] class = "pump" -> Pump(msg)
      [] class = "servo" -> SG90Servo(msg)
      [] class = "generic_device" -> GenericDevice(msg)
      [] class = "pins" -> PinControl(msg)

-----------------------------------------------------------------------------
NdFieldNames == {"is_enabled", "sampling_interval", "status_report_interval",
                 "accumulated_volume", "_last_integrate_time", "is_running",
                 "target_power_kw", "power_kw", "current_angle", "opening",
                 "D5", "D6", "D7", "switch_state"}

(* __init__ of every class; an attribute a class has not is never read.    *)
NdInitialFields ==
    [f \in NdFieldNames |->
        CASE f = "is_enabled" -> TRUE
          [] f \in {"is_running", "switch_state"} -> FALSE
          [] f \in {"sampling_interval", "status_report_interval"} -> 60
          [] f = "_last_integrate_time" -> "past"
          [] f \in {"D5", "D6", "D7"} -> "low"
          [] OTHER -> 0]

NotReading == -1
NdIdle == [todo |-> <<>>, code |-> 0]

NdInit ==
    /\ ndClass \in NdClasses
    /\ ndFields = NdInitialFields
    /\ ndNet = NdIdle
    /\ ndRunners = {}
    /\ ndTick = NotReading
    /\ ndUp = TRUE
    /\ ndReceived = 0
    /\ ndAnswered = {}

(* high_all and low_all start a thread and return; the thread sets one pin *)
(* a second and confirms at the end.                                       *)
DoAll(level) ==
    <<Set(Pins[1], level), Set(Pins[2], level), Set(Pins[3], level), Status>>

(* Network thread: _on_message, and handle_command up to its first step.   *)
(* What it ignores it does not answer.                                     *)
NdReceive ==
    /\ ndUp
    /\ ndNet.todo = <<>>
    /\ ndReceived < NdMaxCommands
    /\ ndReceived' = ndReceived + 1
    /\ \E msg \in NdMessages :
         IF ndClass = "pins" /\ msg.cmd \in {"high_all", "low_all"}
         THEN /\ ndRunners' = ndRunners \cup
                   {[code |-> ndReceived',
                     todo |-> DoAll(IF msg.cmd = "high_all" THEN "high" ELSE "low")]}
              /\ UNCHANGED ndNet
         ELSE /\ ndNet' = [code |-> ndReceived', todo |-> NdHandler(ndClass, msg)]
              /\ UNCHANGED ndRunners
    /\ UNCHANGED <<ndClass, ndFields, ndTick, ndUp, ndAnswered>>

Assign(field, val) == ndFields' = [ndFields EXCEPT ![field] = val]

(* The QoS 0 publish of a status fails without a connection, and nobody    *)
(* sends the status again.                                                 *)
NdStep(thread) ==
    /\ thread.todo # <<>>
    /\ LET step == Head(thread.todo) IN
       IF step.do = "set"
       THEN Assign(step.field, step.val) /\ UNCHANGED ndAnswered
       ELSE /\ ndAnswered' = IF ndUp THEN ndAnswered \cup {thread.code} ELSE ndAnswered
            /\ UNCHANGED ndFields

NdNetStep ==
    /\ NdStep(ndNet)
    /\ ndNet' = [ndNet EXCEPT !.todo = Tail(@)]
    /\ UNCHANGED <<ndClass, ndRunners, ndTick, ndUp, ndReceived>>

NdRunnerStep(r) ==
    /\ NdStep(r)
    /\ ndRunners' = (ndRunners \ {r})
                      \cup {x \in {[r EXCEPT !.todo = Tail(@)]} : x.todo # <<>>}
    /\ UNCHANGED <<ndClass, ndNet, ndTick, ndUp, ndReceived>>

-----------------------------------------------------------------------------
(* Main loop: on_tick of the classes that keep a state of their own; the   *)
(* sampling interval is taken as due at any time.                          *)

NdTotaliserReads ==
    /\ ndClass \in {"flow", "flow_rate"}
    /\ ndTick = NotReading
    /\ ndFields["is_enabled"]
    /\ ndFields["accumulated_volume"] < NdMaxVolume
    /\ Assign("_last_integrate_time", "now")
    /\ ndTick' = ndFields["accumulated_volume"]
    /\ UNCHANGED <<ndClass, ndNet, ndRunners, ndUp, ndReceived, ndAnswered>>

NdTotaliserWrites ==
    /\ ndTick # NotReading
    /\ Assign("accumulated_volume", ndTick + 1)
    /\ ndTick' = NotReading
    /\ UNCHANGED <<ndClass, ndNet, ndRunners, ndUp, ndReceived, ndAnswered>>

NdFlip ==
    /\ ndClass = "touch" /\ ndFields["is_enabled"]
    /\ Assign("switch_state", ~ ndFields["switch_state"])
    /\ UNCHANGED <<ndClass, ndNet, ndRunners, ndTick, ndUp, ndReceived, ndAnswered>>

(* The power of the pump approaches the target, stopped or not.            *)
NdRamp ==
    /\ ndClass = "pump"
    /\ LET power == ndFields["power_kw"]
           target == ndFields["target_power_kw"]
       IN /\ power # target
          /\ Assign("power_kw", IF power < target THEN power + 1 ELSE power - 1)
    /\ UNCHANGED <<ndClass, ndNet, ndRunners, ndTick, ndUp, ndReceived, ndAnswered>>

(* The session is clean: what is sent to the node while it is away is lost.*)
NdConnection ==
    /\ ndUp' = ~ ndUp
    /\ UNCHANGED <<ndClass, ndFields, ndNet, ndRunners, ndTick, ndReceived, ndAnswered>>

NdNext ==
    \/ NdReceive
    \/ NdNetStep
    \/ \E r \in ndRunners : NdRunnerStep(r)
    \/ NdTotaliserReads
    \/ NdTotaliserWrites
    \/ NdFlip
    \/ NdRamp
    \/ NdConnection

NdSpec == NdInit /\ [][NdNext]_ndVars

-----------------------------------------------------------------------------
NdSteps ==
    {Status} \cup [do : {"set"}, field : NdFieldNames,
                   val : BOOLEAN \cup Int \cup {"now", "high", "low"}]

NdTypeOK ==
    /\ ndClass \in NdClasses
    /\ DOMAIN ndFields = NdFieldNames
    /\ ndNet.todo \in Seq(NdSteps) /\ ndNet.code \in 0 .. ndReceived
    /\ \A r \in ndRunners : r.todo \in Seq(NdSteps) /\ r.code \in 1 .. ndReceived
    /\ ndTick \in {NotReading} \cup 0 .. NdMaxVolume
    /\ ndUp \in BOOLEAN
    /\ ndReceived \in 0 .. NdMaxCommands
    /\ ndAnswered \subseteq 1 .. ndReceived

(* The platform may take an echoed check code for the effect: once a code  *)
(* is echoed, no thread has an assignment of its command left, also when   *)
(* the command runs in a thread of its own while others are handled.       *)
EchoedIsCarriedOut ==
    LET NothingLeft(thread) ==
          thread.code \in ndAnswered =>
              \A i \in 1 .. Len(thread.todo) : thread.todo[i].do # "set"
    IN NothingLeft(ndNet) /\ \A r \in ndRunners : NothingLeft(r)
=============================================================================
