------------------------------ MODULE PageOrder ------------------------------
(***************************************************************************)
(* The order in which a management page shows the sensors, devices or      *)
(* rules of a folder: sort_order, and among equals the newest first        *)
(* (reorder of the three view sets).                                       *)
(*                                                                         *)
(* A client drags the items of the page it sees.  The server reads the     *)
(* order of the whole folder, puts the page into it, reads the rows and    *)
(* writes a number into each; between these steps other requests reorder,  *)
(* edit, move, create and delete.  An edit reads a row and saves all its   *)
(* columns, the number included.  A resource is the number of its          *)
(* creation.                                                               *)
(***************************************************************************)
EXTENDS Naturals, FiniteSets

CONSTANTS
  PoLast,      \* the resources are 1 .. PoLast
  PoPageSize,
  PoUsers,     \* those who reorder a page and edit a resource
  PoEdited     \* bound: the resources that are edited

ASSUME OrderAssumption == PoLast \in Nat /\ PoPageSize \in Nat \ {0}

PoItems == 1 .. PoLast

VARIABLES
  poPlace,   \* not created yet, in the folder, in another one, or deleted
  poRank,    \* sort_order
  poReq,     \* the reorders: the numbers to be written, and the page as long as
             \* no other request has changed a number
  poEdit     \* the edits: the row as it was read

poVars == <<poPlace, poRank, poReq, poEdit>>

PoIdle == [phase |-> "idle", number |-> [x \in PoItems |-> 0], page |-> {}]
PoNoEdit == [item |-> 0, rank |-> 0]

PoTypeOK ==
  /\ poPlace \in [PoItems -> {"new", "in", "out", "gone"}]
  /\ poRank \in [PoItems -> 0 .. PoLast]
  /\ poReq \in [PoUsers -> [phase : {"idle", "rows", "save"}, number : [PoItems -> 0 .. PoLast],
                            page : SUBSET PoItems]]
  /\ poEdit \in [PoUsers -> [item : 0 .. PoLast, rank : 0 .. PoLast]]

PoInit ==
  /\ poPlace = [x \in PoItems |-> "new"]
  /\ poRank = [x \in PoItems |-> 0]
  /\ poReq = [u \in PoUsers |-> PoIdle]
  /\ poEdit = [u \in PoUsers |-> PoNoEdit]

-----------------------------------------------------------------------------
PoShown == {x \in PoItems : poPlace[x] = "in"}
PoExist == {x \in PoItems : poPlace[x] \in {"in", "out"}}

PoBefore(x, y) == poRank[x] < poRank[y] \/ (poRank[x] = poRank[y] /\ x > y)
PoAt(x) == 1 + Cardinality({y \in PoShown : PoBefore(y, x)})

\* Mutant: the page is put at the beginning of the folder.
PoStartNone(page) == 0

PoStart(page) == page * PoPageSize

PoNumberings(xs, first) ==
  {f \in [xs -> first + 1 .. first + Cardinality(xs)] :
     \A x, y \in xs : f[x] = f[y] => x = y}

\* A page that is not what the client has seen is refused.
AskReorder(u) ==
  \E n \in {(PoAt(x) - 1) \div PoPageSize : x \in PoShown} :
    LET page == {x \in PoShown : (PoAt(x) - 1) \div PoPageSize = n} IN
    \E f \in PoNumberings(page, PoStart(n)) :
      /\ poReq[u] = PoIdle
      /\ poReq' = [poReq EXCEPT ![u] =
           [phase |-> "rows", page |-> page,
            number |-> [x \in PoItems |-> IF x \in page THEN f[x]
                                          ELSE IF x \in PoShown THEN PoAt(x) ELSE 0]]]
      /\ UNCHANGED <<poPlace, poRank, poEdit>>

\* A row that has been deleted meanwhile ends the request with an error.
ReadRows(u) ==
  /\ poReq[u].phase = "rows"
  /\ poReq' = IF \A x \in PoItems : poReq[u].number[x] > 0 => x \in PoExist
              THEN [poReq EXCEPT ![u].phase = "save"] ELSE [poReq EXCEPT ![u] = PoIdle]
  /\ UNCHANGED <<poPlace, poRank, poEdit>>

\* Reorders that have read the old numbers still write theirs, and no longer know
\* the page as it was.
PoOutdates(done) ==
  poReq' = [v \in PoUsers |-> IF v \in done THEN PoIdle ELSE [poReq[v] EXCEPT !.page = {}]]

PoWrites(done, number) ==
  /\ poRank' = [x \in PoItems |-> IF number[x] > 0 /\ x \in PoExist THEN number[x]
                                                                    ELSE poRank[x]]
  /\ PoOutdates(done)
  /\ UNCHANGED <<poPlace, poEdit>>

BulkUpdate(u) == poReq[u].phase = "save" /\ PoWrites({u}, poReq[u].number)

\* A client that does not name its page: 1, 2, ... for what it lists.
ReorderListed ==
  \E xs \in SUBSET PoExist : \E f \in PoNumberings(xs, 0) :
       PoWrites({}, [x \in PoItems |-> IF x \in xs THEN f[x] ELSE 0])

PoPlaced(x, from, to) ==
  /\ poPlace[x] \in from /\ poPlace' = [poPlace EXCEPT ![x] = to]
  /\ UNCHANGED <<poRank, poReq, poEdit>>

PoNewest(x) == poPlace[x] = "new" /\ \A y \in 1 .. x - 1 : poPlace[y] # "new"

PoCreate(x) == PoNewest(x) /\ PoPlaced(x, {"new"}, "in")
PoMove(x) == PoPlaced(x, {"in"}, "out") \/ PoPlaced(x, {"out"}, "in")
PoDelete(x) == PoPlaced(x, {"in", "out"}, "gone")

BeginEdit(u) ==
  /\ poEdit[u] = PoNoEdit
  /\ \E x \in PoExist \cap PoEdited :
       poEdit' = [poEdit EXCEPT ![u] = [item |-> x, rank |-> poRank[x]]]
  /\ UNCHANGED <<poPlace, poRank, poReq>>

\* Every column is saved: the folder, the one that was read or another, and the
\* number that was read.  A row that was deleted meanwhile is inserted again,
\* as the newest.
SaveEdit(u) ==
  LET e == poEdit[u] IN
  \E x \in PoItems, place \in {"in", "out"} :
    /\ e.item # 0
    /\ IF e.item \in PoExist THEN x = e.item ELSE PoNewest(x)
    /\ poPlace' = [poPlace EXCEPT ![x] = place]
    /\ poRank' = [poRank EXCEPT ![x] = e.rank]
    /\ IF e.rank = poRank[x] THEN UNCHANGED poReq ELSE PoOutdates({})
    /\ poEdit' = [poEdit EXCEPT ![u] = PoNoEdit]

PoNext ==
  \/ ReorderListed
  \/ \E u \in PoUsers : \/ AskReorder(u) \/ ReadRows(u) \/ BulkUpdate(u)
                        \/ BeginEdit(u) \/ SaveEdit(u)
  \/ \E x \in PoItems : PoCreate(x) \/ PoMove(x) \/ PoDelete(x)

PoSpec == PoInit /\ [][PoNext]_poVars

-----------------------------------------------------------------------------
(* A reorder of a page puts this page into the order that was asked for,   *)
(* and leaves the pages before and after it as they are, whatever has been *)
(* created, edited, moved or deleted since the order was read, unless      *)
(* another reorder was saved meanwhile, or an edit that put back an older  *)
(* number than the row had (reorder in sensors/views.py, devices/views.py  *)
(* and automation/views.py; the update of their serializers).              *)
PageOnly ==
  [][\A u \in PoUsers :
       LET q == poReq[u] IN
       q.phase = "save" /\ poReq'[u] = PoIdle /\ q.page # {} =>
         \A x, y \in {z \in PoShown : q.number[z] > 0} :
           PoBefore(x, y)' <=> IF x \in q.page /\ y \in q.page
                               THEN q.number[x] < q.number[y]
                               ELSE PoBefore(x, y)]_poVars
=============================================================================
