----------------------------- MODULE ResourceTree -----------------------------
(***************************************************************************)
(* The folders in which the sensors, devices and rules of the management   *)
(* pages are filed (resource_folders/, and bulk_move of the three pages).  *)
(*                                                                         *)
(* Each type has a tree of its own; this is one of them.  A request that   *)
(* creates, renames or moves a folder walks up from the new parent to see  *)
(* that the folder is not among its ancestors, and saves in a second step; *)
(* a request that deletes a folder, or moves resources into one, also      *)
(* looks first.  Names, and the order in a folder, are left out.           *)
(***************************************************************************)
EXTENDS Naturals, FiniteSets

CONSTANTS
  FdFolders, FdResources,
  FdUsers,   \* the requests under way
  FdRoot,    \* no parent; unfiled
  FdGone

ASSUME FolderAssumption ==
  FdRoot \notin FdFolders /\ FdGone \notin FdFolders \cup {FdRoot} /\ IsFiniteSet(FdFolders)

VARIABLES
  fdParent,   \* the parent of each folder
  fdPlace,    \* the folder of each resource
  fdReq,      \* what each request has validated and not yet saved
  fdOverlap   \* a folder was put where the way up had changed since it was walked

fdVars == <<fdParent, fdPlace, fdReq, fdOverlap>>

FdIdle == [op |-> "idle", folder |-> FdRoot, parent |-> FdRoot, stale |-> FALSE]

FdTypeOK ==
  /\ fdParent \in [FdFolders -> FdFolders \cup {FdRoot, FdGone}]
  /\ fdPlace \in [FdResources -> FdFolders \cup {FdRoot}]
  /\ fdReq \in [FdUsers -> [op : {"idle", "save", "destroy", "file", "loop"},
                            folder : FdFolders \cup {FdRoot},
                            parent : FdFolders \cup {FdRoot}, stale : BOOLEAN]]
  /\ fdOverlap \in BOOLEAN

FdInit ==
  /\ fdParent = [f \in FdFolders |-> FdGone]
  /\ fdPlace = [x \in FdResources |-> FdRoot]
  /\ fdReq = [u \in FdUsers |-> FdIdle]
  /\ fdOverlap = FALSE

-----------------------------------------------------------------------------
FdTree == {f \in FdFolders : fdParent[f] # FdGone}
FdIs(f) == f \in FdTree \cup {FdRoot}

FdUp(f) == IF f \in FdFolders THEN fdParent[f] ELSE f

\* The folder that is n steps above.
FdAbove(f) ==
  LET up[n \in 0 .. Cardinality(FdFolders)] == IF n = 0 THEN f ELSE FdUp(up[n - 1])
  IN  up

FdEnds(f) == \E n \in DOMAIN FdAbove(f) : FdAbove(f)[n] = FdRoot

\* Mutant: only the new parent itself is compared.
FdUnderParent(f, p) == p = f

\* f is p or an ancestor of it.
FdUnder(f, p) == \E n \in DOMAIN FdAbove(p) : FdAbove(p)[n] = f

FdHolds(f) == \E x \in FdResources : fdPlace[x] = f
FdChildren(f) == {k \in FdFolders : fdParent[k] = f}

FdAsk(u, op, f, p) ==
  /\ fdReq[u] = FdIdle
  /\ fdReq' = [fdReq EXCEPT ![u] = [op |-> op, folder |-> f, parent |-> p, stale |-> FALSE]]
  /\ UNCHANGED <<fdParent, fdPlace, fdOverlap>>

\* The folder is new, or renamed, or moved under p; the walk up from p goes on
\* for ever where it meets no root and not the folder.
ValidateFolder(u) ==
  \E f \in FdFolders, p \in FdFolders \cup {FdRoot} :
    /\ FdIs(p) /\ ~FdUnder(f, p)
    /\ FdAsk(u, IF FdEnds(p) THEN "save" ELSE "loop", f, p)

CheckEmpty(u) ==
  \E f \in FdFolders :
    /\ FdIs(f) /\ FdChildren(f) = {} /\ ~FdHolds(f)
    /\ FdAsk(u, "destroy", f, FdRoot)

FindTarget(u) ==
  \E p \in FdFolders \cup {FdRoot} : FdIs(p) /\ FdAsk(u, "file", FdRoot, p)

\* A walk that came past folder g would now go another way.
FdPassed(g, q) == q.stale \/ (q.op = "save" /\ FdUnder(g, q.parent))

FdMoves(u) ==
  /\ fdReq' = [v \in FdUsers |->
                 IF v = u THEN FdIdle
                 ELSE [fdReq[v] EXCEPT !.stale = FdPassed(fdReq[u].folder, fdReq[v])]]
  /\ fdOverlap' = (fdOverlap \/ fdReq[u].stale)

SaveFolder(u) ==
  LET q == fdReq[u] IN
  /\ q.op = "save" /\ FdIs(q.parent)
  /\ fdParent' = [fdParent EXCEPT ![q.folder] = q.parent]
  /\ FdMoves(u) /\ UNCHANGED fdPlace

FdDone(u) == fdReq' = [fdReq EXCEPT ![u] = FdIdle] /\ UNCHANGED fdOverlap

\* Children that have come in between are protected, resources are unfiled.
DeleteFolder(u) ==
  LET f == fdReq[u].folder IN
  /\ fdReq[u].op = "destroy" /\ FdIs(f) /\ FdChildren(f) = {}
  /\ fdParent' = [fdParent EXCEPT ![f] = FdGone]
  /\ fdPlace' = [x \in FdResources |-> IF fdPlace[x] = f THEN FdRoot ELSE fdPlace[x]]
  /\ FdDone(u)

BulkMove(u) ==
  /\ fdReq[u].op = "file" /\ FdIs(fdReq[u].parent)
  /\ \E xs \in SUBSET FdResources :
       fdPlace' = [x \in FdResources |-> IF x \in xs THEN fdReq[u].parent ELSE fdPlace[x]]
  /\ FdDone(u) /\ UNCHANGED fdParent

\* What it refers to is gone or protected.
FdFails(u) ==
  /\ fdReq[u].op \in {"save", "destroy", "file"}
  /\ FdDone(u) /\ UNCHANGED <<fdParent, fdPlace>>

FdRequest(u) ==
  \/ ValidateFolder(u) \/ CheckEmpty(u) \/ FindTarget(u)
  \/ SaveFolder(u) \/ DeleteFolder(u) \/ BulkMove(u) \/ FdFails(u)

FdNext == \E u \in FdUsers : FdRequest(u)

FdSpec == FdInit /\ [][FdNext]_fdVars

-----------------------------------------------------------------------------
(* Every folder and every resource is in a folder that exists, or in none, *)
(* and can be reached from the root, whatever folders and resources are    *)
(* created, moved, filed and deleted between the look and the save of a    *)
(* request, unless one of them moved a folder on the way that another had  *)
(* walked, up from the new parent (resource_folders/serializers.py:        *)
(* validate; two such moves at a time do make a ring).                     *)
FoldersReachable ==
  /\ \A f \in FdTree : FdIs(fdParent[f])
  /\ \A x \in FdResources : FdIs(fdPlace[x])
  /\ ~fdOverlap => /\ \A f \in FdTree : FdEnds(f)
                   /\ \A x \in FdResources : FdEnds(fdPlace[x])
=============================================================================
