---------------------------- MODULE ResourceRecord ----------------------------
(***************************************************************************)
(* The row of a sensor or device in the database, and who writes it        *)
(* (sensors/, devices/: models.py, serializers.py, views.py and admin.py). *)
(*                                                                         *)
(* The topics on which the firmware talks contain its id.  save() makes    *)
(* them, and makes them anew when the id changes, but keeps a topic that   *)
(* was given at the creation of the row.  An edit reads the row, changes   *)
(* it and writes all of it, a new row where it is gone; the action that    *)
(* checks who is online writes a few fields.  Reports update the row in    *)
(* place.                                                                  *)
(*                                                                         *)
(* A topic is the id that it contains, or RrCustom.  A name, a folder and  *)
(* the flag is_online, which nothing reads, are left out.                  *)
(***************************************************************************)
EXTENDS Naturals

CONSTANTS
  RrIds,         \* the values of sensor_id or device_id
  RrTopics,      \* the topics: data, control, and status for a sensor
  RrUsers,       \* the requests under way
  RrMaxReports,  \* bound on the reports
  RrCustom,      \* a topic of the user's own
  RrNone

ASSUME RecordAssumption ==
  RrCustom \notin RrIds /\ RrNone \notin RrIds /\ RrMaxReports \in Nat

VARIABLES
  rrRow,      \* the row
  rrReq,      \* the requests: the row as it was read and as it will be written
  rrOwn,      \* history: the topics that were given at the creation
  rrHeard,    \* history: the number of reports
  rrCrossed,  \* history: an edit renamed what another one had renamed or deleted
  rrOverwrote \* history: an edit wrote back what was there before a report

rrVars == <<rrRow, rrReq, rrOwn, rrHeard, rrCrossed, rrOverwrote>>

RrRows == [id : RrIds, topic : [RrTopics -> RrIds \cup {RrCustom}], seen : 0 .. RrMaxReports]

\* Not created yet, or deleted: its primary key is never used again.
RrNoRow(deleted) == [id |-> RrNone, deleted |-> deleted]

RrIdle == [step |-> "idle"]
RrExists == rrRow.id # RrNone

RrTypeOK ==
  /\ rrRow \in RrRows \cup {RrNoRow(FALSE), RrNoRow(TRUE)}
  /\ rrReq \in [RrUsers -> {RrIdle} \cup
       [step : {"edit", "check", "write", "touch"}, read : RrRows, row : RrRows]]
  /\ rrOwn \subseteq RrTopics /\ rrHeard \in 0 .. RrMaxReports
  /\ rrCrossed \in BOOLEAN /\ rrOverwrote \in BOOLEAN

RrInit ==
  /\ rrRow = RrNoRow(FALSE) /\ rrReq = [u \in RrUsers |-> RrIdle]
  /\ rrOwn = {} /\ rrHeard = 0 /\ rrCrossed = FALSE /\ rrOverwrote = FALSE

-----------------------------------------------------------------------------
\* Mutant: every topic that is not the expected one is made anew.
RrMakesAll(topic, id, old) == topic # id

\* save(): the row of the database, which still has the old id, tells whether
\* the topic is one that the platform has made.
RrMakes(topic, id, old) ==
  topic # id /\ old # RrNone /\ old # id /\ topic = old

RrSaved(row, old) ==
  [row EXCEPT !.topic = [t \in RrTopics |-> IF RrMakes(row.topic[t], row.id, old)
                                            THEN row.id ELSE row.topic[t]]]

\* A blank topic is made.
RrCreate ==
  /\ rrRow = RrNoRow(FALSE)
  /\ \E id \in RrIds, own \in SUBSET RrTopics :
       /\ rrOwn' = own
       /\ rrRow' = [id |-> id, seen |-> 0,
                    topic |-> [t \in RrTopics |-> IF t \in own THEN RrCustom ELSE id]]
  /\ UNCHANGED <<rrReq, rrHeard, rrCrossed, rrOverwrote>>

RrReads(u, step, row) ==
  /\ rrReq[u] = RrIdle /\ RrExists
  /\ rrReq' = [rrReq EXCEPT ![u] = [step |-> step, read |-> rrRow, row |-> row]]
  /\ UNCHANGED <<rrRow, rrOwn, rrHeard, rrCrossed, rrOverwrote>>

\* PUT and PATCH, and the form of the administration pages.
RrBeginEdit(u) == \E id \in RrIds : RrReads(u, "edit", [rrRow EXCEPT !.id = id])

RrBeginCheck(u) == RrReads(u, "check", rrRow)

\* save() looks the old id up.
RrLookUp(u) ==
  LET q == rrReq[u] IN
  /\ q.step \in {"edit", "check"}
  /\ rrReq' = [rrReq EXCEPT ![u] =
       [q EXCEPT !.row = RrSaved(@, rrRow.id),
                 !.step = IF q.step = "edit" THEN "write" ELSE "touch"]]
  /\ rrCrossed' = (rrCrossed \/ (q.row.id # q.read.id /\ rrRow.id # q.read.id))
  /\ UNCHANGED <<rrRow, rrOwn, rrHeard, rrOverwrote>>

RrWrite(u) ==
  LET q == rrReq[u] IN
  /\ q.step = "write"
  /\ rrRow' = q.row /\ rrReq' = [rrReq EXCEPT ![u] = RrIdle]
  /\ rrOverwrote' = (rrOverwrote \/ q.row.seen # rrHeard)
  /\ UNCHANGED <<rrOwn, rrHeard, rrCrossed>>

\* Mutant: update_fields is forgotten.
RrTouchAll(u) ==
  LET q == rrReq[u] IN
  /\ q.step = "touch" /\ RrExists
  /\ rrRow' = q.row /\ rrReq' = [rrReq EXCEPT ![u] = RrIdle]
  /\ UNCHANGED <<rrOwn, rrHeard, rrCrossed, rrOverwrote>>

\* update_fields, and the topics that were made.
RrTouch(u) ==
  LET q == rrReq[u] IN
  /\ q.step = "touch" /\ RrExists
  /\ rrRow' = [rrRow EXCEPT !.topic =
       [t \in RrTopics |-> IF q.row.topic[t] # q.read.topic[t] THEN q.row.topic[t] ELSE @[t]]]
  /\ rrReq' = [rrReq EXCEPT ![u] = RrIdle]
  /\ UNCHANGED <<rrOwn, rrHeard, rrCrossed, rrOverwrote>>

\* The id belongs to another row, the row is gone, or nobody is offline.
RrRefuse(u) ==
  /\ rrReq[u] # RrIdle
  /\ rrReq' = [rrReq EXCEPT ![u] = RrIdle]
  /\ UNCHANGED <<rrRow, rrOwn, rrHeard, rrCrossed, rrOverwrote>>

RrReport ==
  /\ RrExists /\ rrHeard < RrMaxReports
  /\ rrHeard' = rrHeard + 1 /\ rrRow' = [rrRow EXCEPT !.seen = rrHeard + 1]
  /\ UNCHANGED <<rrReq, rrOwn, rrCrossed, rrOverwrote>>

RrDelete ==
  /\ RrExists /\ rrRow' = RrNoRow(TRUE)
  /\ UNCHANGED <<rrReq, rrOwn, rrHeard, rrCrossed, rrOverwrote>>

RrNext ==
  \/ RrCreate \/ RrReport \/ RrDelete
  \/ \E u \in RrUsers : \/ RrBeginEdit(u) \/ RrBeginCheck(u) \/ RrLookUp(u)
                        \/ RrWrite(u) \/ RrTouch(u) \/ RrRefuse(u)

RrSpec == RrInit /\ [][RrNext]_rrVars

-----------------------------------------------------------------------------
(* However edits, renames, checks and reports overlap, each topic contains *)
(* the present id of its row, or is the one that was given, as long as no  *)
(* two edits that change the id overlap (save() of sensors/models.py and   *)
(* devices/models.py).                                                     *)
TopicsFollow ==
  RrExists /\ ~rrCrossed =>
    \A t \in RrTopics : rrRow.topic[t] = IF t \in rrOwn THEN RrCustom ELSE rrRow.id

(* The last report is not taken back, by no check of who is online and no  *)
(* edit, unless the edit had read the row before the report                *)
(* (check_online_status in devices/models.py).                             *)
ReportsKept ==
  RrExists /\ ~rrOverwrote => rrRow.seen = rrHeard
=============================================================================
