------------------------------ MODULE MCPlatform ------------------------------
(***************************************************************************)
(* The parts of the platform that share no state, checked in one run: the  *)
(* initial state picks a part, and only this part takes steps.             *)
(***************************************************************************)
EXTENDS InboundDelivery, LiveView, ProjectRooms, ResourceTree, SimulationRuns,
        SimulatedNodes, PageOrder, BoundedCapture, ResourceRecord,
        SwitchedOutput

VARIABLE part

MCMsgs == 1 .. 3
MCKind == <<"data", "device", "status">>
MCErrors == -1 .. 1

\* The receivers, the writers, the administrators and the users of folders and
\* records have the same two names: to exchange them is a symmetry of every part.
Symmetry == Permutations(PrAdmins)

platformVars == <<part, ibVars, lvVars, prVars, fdVars, smVars, ndVars, poVars,
                  cpVars, rrVars, swVars>>

\* The parts with several initial states have one while they are idle.
Init ==
  /\ part \in {"inbound", "view", "rooms", "tree", "simulation", "nodes",
             "order", "capture", "record", "switch"}
  /\ IbInit /\ LvInit /\ PrInit /\ FdInit /\ SmInit /\ NdInit /\ PoInit
  /\ CpInit /\ RrInit /\ SwInit
  /\ part # "nodes" => ndClass = CHOOSE c \in NdClasses : TRUE
  /\ part # "capture" => cpChannel = "output"
  /\ part # "switch" => swKind = "pwm" /\ swError = 0 /\ swOutput = 0

InboundStep ==
  /\ part = "inbound" /\ IbNext
  /\ UNCHANGED <<part, lvVars, prVars, fdVars, smVars, ndVars,
                 poVars, cpVars, rrVars, swVars>>

ViewStep ==
  /\ part = "view" /\ LvNext
  /\ UNCHANGED <<part, ibVars, prVars, fdVars, smVars, ndVars,
                 poVars, cpVars, rrVars, swVars>>

RoomsStep ==
  /\ part = "rooms" /\ PrNext
  /\ UNCHANGED <<part, ibVars, lvVars, fdVars, smVars, ndVars,
                 poVars, cpVars, rrVars, swVars>>

TreeStep ==
  /\ part = "tree" /\ FdNext
  /\ UNCHANGED <<part, ibVars, lvVars, prVars, smVars, ndVars,
                 poVars, cpVars, rrVars, swVars>>

SimulationStep ==
  /\ part = "simulation" /\ SmNext
  /\ UNCHANGED <<part, ibVars, lvVars, prVars, fdVars, ndVars,
                 poVars, cpVars, rrVars, swVars>>

NodesStep ==
  /\ part = "nodes" /\ NdNext
  /\ UNCHANGED <<part, ibVars, lvVars, prVars, fdVars, smVars,
                 poVars, cpVars, rrVars, swVars>>

OrderStep ==
  /\ part = "order" /\ PoNext
  /\ UNCHANGED <<part, ibVars, lvVars, prVars, fdVars, smVars,
                 ndVars, cpVars, rrVars, swVars>>

CaptureStep ==
  /\ part = "capture" /\ CpNext
  /\ UNCHANGED <<part, ibVars, lvVars, prVars, fdVars, smVars,
                 ndVars, poVars, rrVars, swVars>>

RecordStep ==
  /\ part = "record" /\ RrNext
  /\ UNCHANGED <<part, ibVars, lvVars, prVars, fdVars, smVars,
                 ndVars, poVars, cpVars, swVars>>

SwitchStep ==
  /\ part = "switch" /\ SwNext
  /\ UNCHANGED <<part, ibVars, lvVars, prVars, fdVars, smVars,
                 ndVars, poVars, cpVars, rrVars>>

Next ==
  \/ InboundStep \/ ViewStep \/ RoomsStep \/ TreeStep
  \/ SimulationStep \/ NodesStep \/ OrderStep
  \/ CaptureStep \/ RecordStep \/ SwitchStep

Spec == Init /\ [][Next]_platformVars
=============================================================================
