------------------------------- MODULE LiveView -------------------------------
(***************************************************************************)
(* What a project page shows of the reports that are stored.               *)
(*                                                                         *)
(* A writer, the network thread of a runner, commits a row and then sends  *)
(* a notification to the channel layer; two writers exist while a runner   *)
(* takes over from one that is still busy.  A page asks for a snapshot     *)
(* over REST and, at the same time, opens a socket: its consumer joins the *)
(* groups, sends a snapshot of its own and then forwards notifications.    *)
(*                                                                         *)
(* A row is its number in the order of the commits, which is the order of  *)
(* received_at: the heartbeat's UPDATE holds the parent's row until then.  *)
(* The samples of the sensors and the states of the devices are one each.  *)
(***************************************************************************)
EXTENDS Integers, Sequences

CONSTANTS
  LvWriters,
  LvMaxRows, LvMaxPages, LvMaxDrops  \* bounds on reports, pages and lost sockets

ASSUME LiveViewAssumption ==
  LvMaxRows \in Nat /\ LvMaxPages \in Nat \ {0} /\ LvMaxDrops \in Nat

LvEntities == {"sensor", "device"}

VARIABLES
  lvRows,    \* the number of rows of the sensor and of the device
  lvSend,    \* the row of which each writer has not yet sent the notification
  lvMember,  \* the device is a member of the project
  lvSocket,  \* the page's socket and its consumer, and the sockets lost so far
  lvWire,    \* the frames for the page
  lvGets,    \* the REST snapshots that were read and not yet applied
  lvPage,    \* the number of the page, and whether it has asked for one
  lvShown,   \* the rows the page shows
  lvLost,    \* what may lag behind as a notification was lost or overtaken
  lvLate     \* what may lag behind as the REST snapshot came late

lvVars == <<lvRows, lvSend, lvMember, lvSocket, lvWire, lvGets, lvPage, lvShown,
            lvLost, lvLate>>

NoSend  == [entity |-> "sensor", row |-> 0]
Sending(w) == lvSend[w].row > 0

\* A frame: the row of each, 0 if the frame is not about it.
Frame(snap, s, d) == [snap |-> snap, sensor |-> s, device |-> d]

LvTypeOK ==
  /\ lvRows \in [LvEntities -> 0 .. LvMaxRows]
  /\ lvSend \in [LvWriters -> [entity : LvEntities, row : 0 .. LvMaxRows]]
  /\ lvMember \in BOOLEAN
  /\ lvSocket \in [state : {"closed", "joined", "live"}, bound : BOOLEAN, drops : 0 .. LvMaxDrops]
  /\ lvWire \in Seq([snap : BOOLEAN, sensor : 0 .. LvMaxRows, device : 0 .. LvMaxRows])
  /\ lvGets \subseteq [page : 1 .. LvMaxPages, sensor : 0 .. LvMaxRows, device : 0 .. LvMaxRows]
  /\ lvPage \in [number : 1 .. LvMaxPages, asked : BOOLEAN]
  /\ lvShown \in [LvEntities -> 0 .. LvMaxRows]
  /\ lvLost \subseteq LvEntities /\ lvLate \subseteq LvEntities

Closed == [state |-> "closed", bound |-> FALSE, drops |-> 0]

LvInit ==
  /\ lvRows = [e \in LvEntities |-> 0]
  /\ lvSend = [w \in LvWriters |-> NoSend]
  /\ lvMember = FALSE
  /\ lvSocket = Closed /\ lvWire = <<>>
  /\ lvGets = {} /\ lvPage = [number |-> 1, asked |-> FALSE]
  /\ lvShown = [e \in LvEntities |-> 0]
  /\ lvLost = {} /\ lvLate = {}

-----------------------------------------------------------------------------
(* The writers.                                                            *)

Commit(w, e) ==
  /\ ~Sending(w) /\ lvRows[e] < LvMaxRows
  /\ lvRows' = [lvRows EXCEPT ![e] = @ + 1]
  /\ lvSend' = [lvSend EXCEPT ![w] = [entity |-> e, row |-> lvRows[e] + 1]]
  /\ UNCHANGED <<lvMember, lvSocket, lvWire, lvGets, lvPage, lvShown, lvLost, lvLate>>

WriterDies(w) ==
  /\ Sending(w)
  /\ lvSend' = [lvSend EXCEPT ![w] = NoSend]
  /\ lvLost' = lvLost \cup {lvSend[w].entity}
  /\ UNCHANGED <<lvRows, lvMember, lvSocket, lvWire, lvGets, lvPage, lvShown, lvLate>>

\* _safe_send: a consumer that has joined gets the frame unless the channel
\* layer fails, which nobody is told.
SafeSend(w, frame) ==
  LET e == lvSend[w].entity IN
  /\ lvSend' = [lvSend EXCEPT ![w] = NoSend]
  /\ IF lvSocket.state = "closed" THEN UNCHANGED <<lvWire, lvLost>>
     ELSE \/ /\ lvWire' = Append(lvWire, frame)
             /\ lvLost' = IF lvSend[w].row < lvRows[e] THEN lvLost \cup {e} ELSE lvLost \ {e}
          \/ lvLost' = lvLost \cup {e} /\ UNCHANGED lvWire
  /\ UNCHANGED <<lvRows, lvMember, lvSocket, lvGets, lvPage, lvShown, lvLate>>

OnSensorDataSaved(w) ==
  /\ Sending(w) /\ lvSend[w].entity = "sensor"
  /\ SafeSend(w, Frame(FALSE, lvSend[w].row, 0))

\* A consumer drops the states of devices that were not in its snapshot.
OnDeviceStatus(w) ==
  /\ Sending(w) /\ lvSend[w].entity = "device"
  /\ IF lvSocket.state = "live" /\ ~lvSocket.bound
     THEN /\ lvSend' = [lvSend EXCEPT ![w] = NoSend]
          /\ lvLost' = lvLost \cup {"device"}
          /\ UNCHANGED <<lvRows, lvMember, lvSocket, lvWire, lvGets, lvPage, lvShown, lvLate>>
     ELSE SafeSend(w, Frame(FALSE, 0, lvSend[w].row))

-----------------------------------------------------------------------------
(* The consumer.                                                           *)

\* An administrator makes the device a member of the project.
AddMember ==
  /\ ~lvMember /\ lvMember' = TRUE
  /\ lvLost' = IF lvSocket.state = "live" THEN lvLost \cup {"device"} ELSE lvLost
  /\ UNCHANGED <<lvRows, lvSend, lvSocket, lvWire, lvGets, lvPage, lvShown, lvLate>>

\* build_project_snapshot.
Snapshot == Frame(TRUE, lvRows["sensor"], IF lvMember THEN lvRows["device"] ELSE 0)

\* The groups are joined, and the connection is accepted.
ConsumerConnect ==
  /\ lvSocket.state = "closed"
  /\ lvSocket' = [lvSocket EXCEPT !.state = "joined"]
  /\ lvWire' = <<>> /\ lvLost' = {}
  /\ UNCHANGED <<lvRows, lvSend, lvMember, lvGets, lvPage, lvShown, lvLate>>

\* Mutant: the snapshot was read before the groups were joined.
SendInitialEarly ==
  /\ lvSocket.state = "joined"
  /\ lvSocket' = [lvSocket EXCEPT !.state = "live", !.bound = lvMember]
  /\ lvWire' = <<Frame(TRUE, 0, 0)>> \o lvWire
  /\ UNCHANGED <<lvRows, lvSend, lvMember, lvGets, lvPage, lvShown, lvLost, lvLate>>

\* The snapshot is read now, and sent before what has come in since.
SendInitial ==
  /\ lvSocket.state = "joined"
  /\ lvSocket' = [lvSocket EXCEPT !.state = "live", !.bound = lvMember]
  /\ lvWire' = <<Snapshot>> \o lvWire
  /\ UNCHANGED <<lvRows, lvSend, lvMember, lvGets, lvPage, lvShown, lvLost, lvLate>>

Drop ==
  /\ lvSocket.state # "closed" /\ lvSocket.drops < LvMaxDrops
  /\ lvSocket' = [Closed EXCEPT !.drops = lvSocket.drops + 1]
  /\ lvWire' = <<>> /\ lvLost' = {}
  /\ UNCHANGED <<lvRows, lvSend, lvMember, lvGets, lvPage, lvShown, lvLate>>

-----------------------------------------------------------------------------
(* The page.                                                               *)

\* The store: a snapshot replaces everything, a notification its own entry;
\* the state of a device that was not in the snapshot is not forwarded.
Replaces(f, e) == f.snap \/ (f[e] > 0 /\ (e = "device" => lvSocket.bound))

ApplyFrame(f) == [e \in LvEntities |-> IF Replaces(f, e) THEN f[e] ELSE lvShown[e]]

Receive ==
  LET f == Head(lvWire) IN
  /\ lvSocket.state = "live" /\ lvWire # <<>>
  /\ lvShown' = ApplyFrame(f)
  /\ lvWire' = Tail(lvWire)
  /\ lvLate' = {e \in lvLate : ~Replaces(f, e)}
  /\ UNCHANGED <<lvRows, lvSend, lvMember, lvSocket, lvGets, lvPage, lvLost>>

\* The page's request is answered; the answer is under way.
GetSnapshot ==
  /\ ~lvPage.asked
  /\ lvPage' = [lvPage EXCEPT !.asked = TRUE]
  /\ lvGets' = lvGets \cup {[page |-> lvPage.number,
                             sensor |-> Snapshot.sensor, device |-> Snapshot.device]}
  /\ UNCHANGED <<lvRows, lvSend, lvMember, lvSocket, lvWire, lvShown, lvLost, lvLate>>

\* It is applied whatever has happened since the page asked; the points of a
\* project that was left are not those of the page.
LoadSnapshot ==
  \E g \in lvGets :
    LET row == [e \in LvEntities |-> IF g.page = lvPage.number THEN g[e] ELSE 0] IN
    /\ lvGets' = lvGets \ {g}
    /\ lvShown' = row
    /\ lvLate' = lvLate \cup {e \in LvEntities : row[e] < lvShown[e]}
    /\ UNCHANGED <<lvRows, lvSend, lvMember, lvSocket, lvWire, lvPage, lvLost>>

\* The workspace of another project is opened: reset, a new socket, a new
\* request; the requests of the page that was left go on.
OpenPage ==
  /\ lvPage.number < LvMaxPages
  /\ lvPage' = [number |-> lvPage.number + 1, asked |-> FALSE]
  /\ lvShown' = [e \in LvEntities |-> 0]
  /\ lvSocket' = [Closed EXCEPT !.drops = lvSocket.drops]
  /\ lvWire' = <<>> /\ lvLost' = {} /\ lvLate' = {}
  /\ UNCHANGED <<lvRows, lvSend, lvMember, lvGets>>

WriterStep(w) ==
  \/ \E e \in LvEntities : Commit(w, e)
  \/ OnSensorDataSaved(w) \/ OnDeviceStatus(w) \/ WriterDies(w)

LvNext ==
  \/ \E w \in LvWriters : WriterStep(w)
  \/ AddMember \/ ConsumerConnect \/ SendInitial \/ Drop
  \/ Receive \/ GetSnapshot \/ LoadSnapshot \/ OpenPage

LvSpec == LvInit /\ [][LvNext]_lvVars

-----------------------------------------------------------------------------
\* The page is connected, and nothing is on its way to it.
Quiet(e) ==
  /\ lvSocket.state = "live" /\ lvWire = <<>>
  /\ e = "device" => lvMember
  /\ \A w \in LvWriters : Sending(w) => lvSend[w].entity # e

(* Between the consumer's snapshot and the notifications it forwards there *)
(* is no gap: a connected page shows the latest row, unless a notification *)
(* failed or was overtaken by a later one, the device became a member      *)
(* after the snapshot, or the REST snapshot came late (consumers.py:       *)
(* connect, _send_initial; stores/project.js).                             *)
NoGap ==
  \A e \in LvEntities : Quiet(e) /\ e \notin lvLost \cup lvLate => lvShown[e] = lvRows[e]
=============================================================================
