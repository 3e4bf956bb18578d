----------------------------- MODULE ProjectRooms -----------------------------
(***************************************************************************)
(* Projects, their rooms, and what is in a room: members (a sensor or a    *)
(* device), a view, a rule and a control scheme (projects/, automation/).  *)
(*                                                                         *)
(* A request that creates or edits a row validates it against the database *)
(* and saves it in a second step, without a lock or a transaction around   *)
(* both: other requests come in between.  A save writes every column, also *)
(* those that the request did not change, and inserts the row again when   *)
(* it has been deleted meanwhile.  A deletion collects what it cascades to *)
(* and deletes it in a transaction afterwards; it is refused when a scheme *)
(* protects a member that it has collected.  The foreign keys refuse what  *)
(* has come in between, so that it is one step here.                       *)
(*                                                                         *)
(* There is one sensor and one device, which may be members of any number  *)
(* of rooms, and one view, rule and scheme; names, order, thresholds and   *)
(* the layout of views are left out.                                       *)
(***************************************************************************)
EXTENDS Naturals

CONSTANTS
  PrProjects, PrRooms,
  PrSensorRows, PrDeviceRows,  \* the ids of members
  PrAdmins,                    \* the requests under way
  PrMaxEdits,                  \* bound on the changes of the database
  PrFirst, PrHere,             \* the project and the room of the members at first
  PrNone

ASSUME ProjectAssumption ==
  /\ PrFirst \in PrProjects /\ PrHere \in PrRooms
  /\ PrNone \notin PrProjects \cup PrRooms \cup PrSensorRows \cup PrDeviceRows
  /\ PrSensorRows \cap PrDeviceRows = {} /\ PrMaxEdits \in Nat

PrMembers == PrSensorRows \cup PrDeviceRows
PrKinds   == {"sensor", "device"}
PrKindOf(m) == IF m \in PrSensorRows THEN "sensor" ELSE "device"

VARIABLES
  prProjects,  \* the projects that exist
  prRoom,      \* the project of each room
  prMember,    \* the members: room and project
  prScheme,    \* the control scheme: room, project and members
  prRule,      \* the rule: room, project and resources
  prView,      \* the view: room, project and bound resources
  prReq,       \* the request of each administrator: what it has validated
  prEdits

prRows == <<prProjects, prRoom, prMember, prScheme, prRule, prView>>
prVars == <<prRows, prReq, prEdits>>

PrIn(r, p) == [room |-> r, project |-> p]
PrNoRow    == PrIn(PrNone, PrNone)
PrNoScheme == [room |-> PrNone, project |-> PrNone, sensor |-> PrNone, device |-> PrNone]
PrNoItem   == [room |-> PrNone, project |-> PrNone, uses |-> {}]
PrIdle     == [op |-> "idle"]

PrExists(row) == row.room # PrNone
PrRoomRow(r)  == prRoom[r] # PrNone

PrPlaces == [room : PrRooms \cup {PrNone}, project : PrProjects \cup {PrNone}]
PrItems  == [room : PrRooms \cup {PrNone}, project : PrProjects \cup {PrNone},
             uses : SUBSET PrKinds]
PrBinds  == [room : PrRooms \cup {PrNone}, project : PrProjects \cup {PrNone},
             sensor : PrSensorRows \cup {PrNone}, device : PrDeviceRows \cup {PrNone}]

PrTypeOK ==
  /\ prProjects \subseteq PrProjects
  /\ prRoom \in [PrRooms -> PrProjects \cup {PrNone}]
  /\ prMember \in [PrMembers -> PrPlaces]
  /\ prScheme \in PrBinds
  /\ prRule \in PrItems /\ prView \in PrItems
  /\ \A u \in PrAdmins :
       \/ prReq[u] = PrIdle
       \/ prReq[u] \in [op : {"member"}, id : PrMembers, row : PrPlaces]
       \/ prReq[u] \in [op : {"room"}, id : PrRooms, project : PrProjects]
       \/ prReq[u] \in [op : {"scheme"}, row : PrBinds]
       \/ prReq[u] \in [op : {"rule", "view"}, row : PrItems]
  /\ prEdits \in 0 .. PrMaxEdits

\* Rooms of one project; the sensor and the device are members of one.
PrInit ==
  /\ prProjects = PrProjects
  /\ prRoom = [r \in PrRooms |-> PrFirst]
  /\ \E s \in PrSensorRows, d \in PrDeviceRows :
       prMember = [m \in PrMembers |-> IF m \in {s, d} THEN PrIn(PrHere, PrFirst) ELSE PrNoRow]
  /\ prScheme = PrNoScheme /\ prRule = PrNoItem /\ prView = PrNoItem
  /\ prReq = [u \in PrAdmins |-> PrIdle]
  /\ prEdits = 0

-----------------------------------------------------------------------------
(* Reading and validating.                                                 *)

PrAsk(u, req) ==
  /\ prReq[u] = PrIdle
  /\ prReq' = [prReq EXCEPT ![u] = req]
  /\ UNCHANGED <<prRows, prEdits>>

\* The kinds of resources that are members of a room.
SectionResources(r) == {PrKindOf(m) : m \in {n \in PrMembers : prMember[n].room = r}}

\* Import into a room, singly or as a batch: what the room has is skipped, and
\* the project is that of the room.
CreateMember(u) ==
  \E m \in PrMembers, r \in PrRooms :
    /\ PrRoomRow(r) /\ ~PrExists(prMember[m])
    /\ PrKindOf(m) \notin SectionResources(r)
    /\ PrAsk(u, [op |-> "member", id |-> m, row |-> PrIn(r, prRoom[r])])

\* A member may be put into another room of its project; a request that says
\* nothing of the room saves the one that it has read.
UpdateMember(u) ==
  \E m \in PrMembers :
    /\ PrExists(prMember[m])
    /\ \/ PrAsk(u, [op |-> "member", id |-> m, row |-> prMember[m]])
       \/ \E r \in PrRooms :
            /\ PrRoomRow(r) /\ prRoom[r] = prMember[m].project
            /\ r # prMember[m].room => PrKindOf(m) \notin SectionResources(r)
            /\ PrAsk(u, [op |-> "member", id |-> m, row |-> PrIn(r, prRoom[r])])

\* The serializer of a room takes any project.
WriteSection(u) ==
  \E r \in PrRooms, p \in prProjects : PrAsk(u, [op |-> "room", id |-> r, project |-> p])

\* Project, room and both members agree with each other when they are read.
ValidateScheme(u) ==
  \E s \in PrSensorRows, d \in PrDeviceRows, r \in PrRooms :
    /\ PrRoomRow(r)
    /\ prMember[s] = PrIn(r, prRoom[r]) /\ prMember[d] = PrIn(r, prRoom[r])
    /\ PrAsk(u, [op |-> "scheme", row |->
         [room |-> r, project |-> prRoom[r], sensor |-> s, device |-> d]])

\* A rule belongs to no room or keeps the one that it was created in.
ValidateRule(u) ==
  \E r \in PrRooms, used \in SUBSET PrKinds :
    /\ PrRoomRow(r) /\ used \subseteq SectionResources(r)
    /\ PrExists(prRule) => r = prRule.room /\ prRule.project = prRoom[r]
    /\ PrAsk(u, [op |-> "rule", row |-> [room |-> r, project |-> prRoom[r], uses |-> used]])

\* The bindings of a flow diagram must be resources of its room; a request
\* that says nothing of the room and the diagram saves what it has read.
ValidateView(u) ==
  \/ PrExists(prView) /\ PrAsk(u, [op |-> "view", row |-> prView])
  \/ \E r \in PrRooms, used \in SUBSET PrKinds :
       /\ PrRoomRow(r) /\ used \subseteq SectionResources(r)
       /\ PrExists(prView) => prView.project = prRoom[r]
       /\ PrAsk(u, [op |-> "view", row |-> [room |-> r, project |-> prRoom[r], uses |-> used]])

-----------------------------------------------------------------------------
(* Saving.  A row that it refers to may be gone, or the place be taken:    *)
(* the request fails then, and nothing is written.                         *)

PrCount == prEdits < PrMaxEdits /\ prEdits' = prEdits + 1
PrAnswer(u) == prReq' = [prReq EXCEPT ![u] = PrIdle]
PrPlaceable(row) == PrRoomRow(row.room) /\ row.project \in prProjects

PrFails(u) ==
  /\ prReq[u] # PrIdle
  /\ PrAnswer(u) /\ UNCHANGED <<prRows, prEdits>>

SaveMember(u) ==
  LET q == prReq[u] IN
  /\ q.op = "member" /\ PrPlaceable(q.row)
  /\ \A n \in PrMembers \ {q.id} :
       ~(PrKindOf(n) = PrKindOf(q.id) /\ prMember[n].room = q.row.room)
  /\ prMember' = [prMember EXCEPT ![q.id] = q.row]
  /\ PrAnswer(u) /\ PrCount
  /\ UNCHANGED <<prProjects, prRoom, prScheme, prRule, prView>>

SaveSection(u) ==
  LET q == prReq[u] IN
  /\ q.op = "room" /\ q.project \in prProjects
  /\ prRoom' = [prRoom EXCEPT ![q.id] = q.project]
  /\ PrAnswer(u) /\ PrCount
  /\ UNCHANGED <<prProjects, prMember, prScheme, prRule, prView>>

SaveScheme(u) ==
  LET q == prReq[u] IN
  /\ q.op = "scheme" /\ PrPlaceable(q.row)
  /\ PrExists(prMember[q.row.sensor]) /\ PrExists(prMember[q.row.device])
  /\ prScheme' = q.row
  /\ PrAnswer(u) /\ PrCount
  /\ UNCHANGED <<prProjects, prRoom, prMember, prRule, prView>>

SaveItem(u) ==
  LET q == prReq[u] IN
  /\ q.op \in {"rule", "view"} /\ PrPlaceable(q.row)
  /\ IF q.op = "rule" THEN prRule' = q.row /\ UNCHANGED prView
                      ELSE prView' = q.row /\ UNCHANGED prRule
  /\ PrAnswer(u) /\ PrCount
  /\ UNCHANGED <<prProjects, prRoom, prMember, prScheme>>

-----------------------------------------------------------------------------
(* Deleting.                                                               *)

\* Mutant: the scheme does not protect its sensor.
ProtectedNot(ms) == prScheme.device \in ms

\* The members that a deletion may not take along.
Protected(ms) == prScheme.sensor \in ms \/ prScheme.device \in ms

\* The collector: rooms and members with what depends on them; the rule of a
\* deleted project stays without it, unless its room goes.
PrDelete(ps, rs, ms) ==
  LET gone == ms \cup {m \in PrMembers : prMember[m].room \in rs \/ prMember[m].project \in ps}
      Falls(row) == row.room \in rs \/ row.project \in ps IN
  /\ ~Protected(gone) /\ PrCount
  /\ prProjects' = prProjects \ ps
  /\ prRoom' = [r \in PrRooms |-> IF r \in rs THEN PrNone ELSE prRoom[r]]
  /\ prMember' = [m \in PrMembers |-> IF m \in gone THEN PrNoRow ELSE prMember[m]]
  /\ prScheme' = IF Falls(prScheme) THEN PrNoScheme ELSE prScheme
  /\ prRule' = IF prRule.room \in rs THEN PrNoItem
               ELSE IF prRule.project \in ps THEN [prRule EXCEPT !.project = PrNone]
               ELSE prRule
  /\ prView' = IF Falls(prView) THEN PrNoItem ELSE prView
  /\ UNCHANGED prReq

DestroyProject ==
  \E p \in prProjects : PrDelete({p}, {r \in PrRooms : prRoom[r] = p}, {})
DestroySection ==
  \E r \in PrRooms : PrRoomRow(r) /\ PrDelete({}, {r}, {})
DestroyMember ==
  \E m \in PrMembers : PrExists(prMember[m]) /\ PrDelete({}, {}, {m})
\* The sensor or the device itself is deleted.
DestroySource ==
  \E ms \in {PrSensorRows, PrDeviceRows} :
    (\E m \in ms : PrExists(prMember[m])) /\ PrDelete({}, {}, ms)

DestroyScheme ==
  /\ PrExists(prScheme) /\ prScheme' = PrNoScheme /\ PrCount
  /\ UNCHANGED <<prProjects, prRoom, prMember, prRule, prView, prReq>>

PrRequest(u) ==
  \/ CreateMember(u) \/ UpdateMember(u) \/ WriteSection(u)
  \/ ValidateScheme(u) \/ ValidateRule(u) \/ ValidateView(u)
  \/ SaveMember(u) \/ SaveSection(u) \/ SaveScheme(u) \/ SaveItem(u) \/ PrFails(u)

PrNext ==
  \/ \E u \in PrAdmins : PrRequest(u)
  \/ DestroyProject \/ DestroySection \/ DestroyMember \/ DestroySource \/ DestroyScheme

PrSpec == PrInit /\ [][PrNext]_prVars

-----------------------------------------------------------------------------
PrAligned ==
  /\ PrExists(prScheme)
  /\ \A m \in {prScheme.sensor, prScheme.device} :
       prMember[m] = PrIn(prScheme.room, prScheme.project)

(* A control scheme whose members are in its room ends only by its own     *)
(* deletion, and its members stay: no deletion of a project, a room, a     *)
(* member, a sensor or a device takes it along, whatever requests were     *)
(* validated before (projects/views.py: destroy; automation/models.py:     *)
(* PROTECT).                                                               *)
SchemeProtected ==
  [][PrAligned =>
       /\ PrExists(prScheme') \/ DestroyScheme
       /\ \A m \in {prScheme.sensor, prScheme.device} : PrExists(prMember'[m])]_prVars

(* "While there is a control scheme, deleting the project or the room is   *)
(* refused."  A member that was put into another room protects it no more, *)
(* and the scheme goes with its room.                                      *)
SchemeBlocksDeletion ==
  [][PrExists(prScheme) => PrExists(prScheme') \/ DestroyScheme]_prVars
=============================================================================
