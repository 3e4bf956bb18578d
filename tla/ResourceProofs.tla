--------------------------- MODULE ResourceProofs ---------------------------
(***************************************************************************)
(* Proofs about the resources that pages show: the tree of their folders,  *)
(* the row of each and its topics, the order of a page, and the live view; *)
(* for any number of folders, topics, resources, users and writers.        *)
(***************************************************************************)
EXTENDS ResourceTree, ResourceRecord, PageOrder, LiveView, FiniteSetTheorems,
        SequenceTheorems, WellFoundedInduction, TLAPS

-----------------------------------------------------------------------------
(* The folder tree.  Numbers fall from every folder to its parent, so that *)
(* the walk up ends; where a folder is moved, the way up from the new      *)
(* place, which the request has walked, does not meet it.                  *)

(* Induction over numbers, in the form that needs no operator: a set of    *)
(* them has a least one.                                                   *)
LEMMA LeastNatural ==
  ASSUME NEW T \in SUBSET Nat, T # {}
  PROVE  \E m \in T : \A n \in T : m <= n
<1> DEFINE Below == {0 .. n : n \in T}
<1>1. \A n \in T : n \in Nat /\ IsFiniteSet(0 .. n) /\ 0 .. n \in SUBSET Nat
  BY FS_Interval
<1>2. Below \subseteq FiniteSubsetsOf(Nat) /\ Below # {}
  BY <1>1 DEF FiniteSubsetsOf
<1> HIDE DEF Below
<1>3. PICK x \in Below : \A y \in Below : ~ (<<y, x>> \in StrictSubsetOrdering(Nat))
  <2>1. IsWellFoundedOn(StrictSubsetOrdering(Nat), FiniteSubsetsOf(Nat))
    BY FS_StrictSubsetOrderingWellFounded
  <2> QED
    BY <1>2, <2>1, WFMin
<1>4. PICK m \in T : x = 0 .. m
  BY DEF Below
<1>5. ASSUME NEW n \in T, ~(m <= n) PROVE FALSE
  <2>1. m \in Nat /\ n \in Nat /\ n < m
    BY <1>5
  <2>2. 0 .. n \subseteq 0 .. m /\ m \in 0 .. m /\ m \notin 0 .. n
    BY <2>1
  <2>3. 0 .. n # 0 .. m
    BY <2>2
  <2>4. <<0 .. n, 0 .. m>> \in StrictSubsetOrdering(Nat)
    BY <1>1, <2>2, <2>3 DEF StrictSubsetOrdering
  <2>5. 0 .. n \in Below
    BY DEF Below
  <2> QED
    BY <1>3, <1>4, <2>4, <2>5
<1> QED
  BY <1>5

FdLength == Cardinality(FdFolders)

LEMMA FdLengthIs == FdLength \in Nat
BY FS_CardinalityType, FolderAssumption DEF FdLength

(* FdAbove is the walk up from f.                                          *)
LEMMA FdAboveIs ==
  ASSUME NEW f
  PROVE  FdAbove(f) = [n \in 0 .. FdLength |-> IF n = 0 THEN f ELSE FdUp(FdAbove(f)[n - 1])]
<1> DEFINE Walk(g, m) == g = [n \in 0 .. m |-> IF n = 0 THEN f ELSE FdUp(g[n - 1])]
           T == {m \in Nat : ~ \E g : Walk(g, m)}
<1>1. T = {}
  <2> SUFFICES ASSUME T # {} PROVE FALSE
    OBVIOUS
  <2>1. PICK m \in T : \A n \in T : m <= n
    BY LeastNatural
  <2>2. m \in Nat /\ ~ \E g : Walk(g, m)
    OBVIOUS
  <2>3. m # 0
    <3> DEFINE g == [n \in 0 .. 0 |-> f]
    <3>1. \A n \in 0 .. 0 : n = 0
      OBVIOUS
    <3>2. g = [n \in 0 .. 0 |-> IF n = 0 THEN f ELSE FdUp(g[n - 1])]
      BY <3>1
    <3> QED
      BY <2>2, <3>2
  <2>4. m - 1 \in Nat /\ m - 1 \notin T
    <3>1. m - 1 \in Nat /\ ~(m <= m - 1)
      BY <2>2, <2>3
    <3> HIDE DEF T
    <3> QED
      BY <2>1, <3>1
  <2>5. PICK g : Walk(g, m - 1)
    BY <2>4
  <2> DEFINE h == [n \in 0 .. m |-> IF n = 0 THEN f ELSE FdUp(g[n - 1])]
  <2>6. \A n \in 0 .. m - 1 : g[n] = IF n = 0 THEN f ELSE FdUp(g[n - 1])
    BY <2>5
  <2>7. ASSUME NEW n \in 0 .. m, n # 0 PROVE h[n - 1] = g[n - 1]
    <3>1. n - 1 \in 0 .. m - 1 /\ n - 1 \in 0 .. m
      BY <2>2, <2>7
    <3>2. h[n - 1] = IF n - 1 = 0 THEN f ELSE FdUp(g[n - 1 - 1])
      BY <3>1
    <3> QED
      BY <2>6, <3>1, <3>2
  <2>8. h = [n \in 0 .. m |-> IF n = 0 THEN f ELSE FdUp(h[n - 1])]
    <3> HIDE DEF h
    <3>1. [n \in 0 .. m |-> IF n = 0 THEN f ELSE FdUp(g[n - 1])]
          = [n \in 0 .. m |-> IF n = 0 THEN f ELSE FdUp(h[n - 1])]
      BY <2>7
    <3> QED
      BY <3>1 DEF h
  <2> QED
    BY <2>2, <2>8
<1>2. \E g : Walk(g, FdLength)
  BY <1>1, FdLengthIs
<1> DEFINE up[n \in 0 .. FdLength] == IF n = 0 THEN f ELSE FdUp(up[n - 1])
<1>3. FdAbove(f) = up
  BY DEF FdAbove, FdLength
<1>4. up = CHOOSE g : Walk(g, FdLength)
  OBVIOUS
<1>5. Walk(up, FdLength)
  <2> HIDE DEF Walk, up
  <2> QED
    BY <1>2, <1>4
<1> HIDE DEF up
<1> QED
  BY <1>3, <1>5

-----------------------------------------------------------------------------
(* Numbers that fall along the tree, from every folder to its parent.      *)
FdRank(parent, d) ==
  /\ d \in [FdFolders \cup {FdRoot} -> Nat]
  /\ \A f \in FdFolders :
       parent[f] # FdGone =>
         /\ parent[f] \in FdFolders => parent[parent[f]] # FdGone
         /\ d[parent[f]] < d[f]

(* A part of the tree with p, and without f, that leads up.                *)
FdWayUp(parent, way, f, p) ==
  /\ p \in way /\ f \notin way
  /\ \A k \in FdFolders : k \in way => parent[k] \in way

(* No folder has a parent, and no resource a folder, that does not exist.  *)
FdKept ==
  /\ \A f \in FdTree : FdIs(fdParent[f])
  /\ \A x \in FdResources : FdIs(fdPlace[x])

(* What a request has found on its way up is still so, unless it is stale. *)
FdSaves(u) ==
  fdReq[u].op = "save" =>
    /\ fdReq[u].folder \in FdFolders
    /\ ~fdReq[u].stale /\ FdIs(fdReq[u].parent) =>
         \E way : FdWayUp(fdParent, way, fdReq[u].folder, fdReq[u].parent)

FdInv ==
  /\ FdTypeOK
  /\ FdKept
  /\ ~fdOverlap =>
       /\ \E d : FdRank(fdParent, d)
       /\ \A u \in FdUsers : FdSaves(u)

(* Where the numbers fall, the walk up from a folder comes to the root     *)
(* before it has seen as many folders as there are.                        *)
LEMMA FdRankEnds ==
  ASSUME FdTypeOK, NEW d, FdRank(fdParent, d), NEW f \in FdTree
  PROVE  FdEnds(f)
<1> DEFINE C == FdLength
           walk == FdAbove(f)
<1>1. C \in Nat /\ IsFiniteSet(FdFolders) /\ FdRoot \notin FdFolders /\ FdGone # FdRoot
  BY FdLengthIs, FolderAssumption
<1>2. walk = [n \in 0 .. C |-> IF n = 0 THEN f ELSE FdUp(walk[n - 1])]
  BY FdAboveIs
<1> HIDE DEF walk, C
<1>3. DOMAIN walk = 0 .. C /\ walk[0] = f
      /\ \A n \in 0 .. C : n # 0 => walk[n] = FdUp(walk[n - 1])
  BY <1>1, <1>2
<1> SUFFICES ASSUME \A n \in 0 .. C : walk[n] # FdRoot PROVE FALSE
  BY <1>3 DEF FdEnds, walk
<1> DEFINE Falls(n) == walk[n] \in FdTree /\ \A i \in 0 .. C : i < n => d[walk[n]] < d[walk[i]]
           T == {n \in 0 .. C : ~Falls(n)}
<1>4. T = {}
  <2> SUFFICES ASSUME T # {} PROVE FALSE
    OBVIOUS
  <2>1. T \in SUBSET Nat
    BY <1>1
  <2>2. PICK m \in T : \A n \in T : m <= n
    BY <2>1, LeastNatural
  <2>3. m \in 0 .. C /\ ~Falls(m)
    OBVIOUS
  <2>4. m # 0
    <3>1. Falls(0)
      BY <1>1, <1>3
    <3> QED
      BY <2>3, <3>1
  <2>5. m - 1 \in 0 .. C /\ ~(m <= m - 1)
    BY <1>1, <2>3, <2>4
  <2>6. Falls(m - 1)
    <3> HIDE DEF Falls
    <3> QED
      BY <2>2, <2>5
  <2>7. walk[m] = fdParent[walk[m - 1]]
    BY <1>3, <2>3, <2>4, <2>5, <2>6 DEF FdUp, FdTree
  <2> DEFINE k == walk[m - 1]
  <2>8. k \in FdFolders /\ fdParent[k] # FdGone /\ fdParent[k] # FdRoot
    BY <2>3, <2>6, <2>7 DEF FdTree
  <2>9. walk[m] \in FdTree /\ d[walk[m]] < d[k] /\ d[k] \in Nat /\ d[walk[m]] \in Nat
    BY <2>7, <2>8 DEF FdTypeOK, FdRank, FdTree
  <2>10. ASSUME NEW i \in 0 .. C, i < m PROVE d[walk[m]] < d[walk[i]]
    <3>1. CASE i = m - 1
      BY <2>9, <3>1
    <3>2. CASE i < m - 1
      <4>1. d[k] < d[walk[i]]
        BY <2>6, <3>2
      <4>2. \A n \in 0 .. C : n < m => walk[n] \in FdFolders
        <5>1. ASSUME NEW n \in 0 .. C, n < m PROVE Falls(n)
          <6>1. ~(m <= n)
            BY <1>1, <2>3, <5>1
          <6> HIDE DEF Falls
          <6> QED
            BY <2>2, <6>1
        <5> QED
          BY <5>1 DEF FdTree
      <4>3. d[walk[i]] \in Nat
        BY <2>10, <4>2 DEF FdRank
      <4> QED
        BY <2>9, <4>1, <4>3
    <3>3. i = m - 1 \/ i < m - 1
      BY <1>1, <2>3, <2>10
    <3> QED
      BY <3>1, <3>2, <3>3
  <2> QED
    BY <2>3, <2>9, <2>10
<1>5. \A n \in 0 .. C : Falls(n)
  BY <1>4
<1>6. walk \in [0 .. C -> FdFolders]
  BY <1>2, <1>3, <1>5 DEF FdTree
<1>7. IsFiniteSet(0 .. C) /\ Cardinality(0 .. C) = C + 1
  BY <1>1, FS_Interval
<1>8. Cardinality(FdFolders) < Cardinality(0 .. C)
  BY <1>1, <1>7 DEF C, FdLength
<1>9. PICK i, j \in 0 .. C : i # j /\ walk[i] = walk[j]
  BY <1>1, <1>6, <1>7, <1>8, FS_PigeonHole
<1>10. d[walk[i]] \in Nat /\ d[walk[i]] = d[walk[j]]
  BY <1>6, <1>9 DEF FdRank
<1>11. i < j \/ j < i
  BY <1>1, <1>9
<1> QED
  BY <1>5, <1>9, <1>10, <1>11

(* A folder that the walk up from p does not meet is off the way from p.   *)
LEMMA FdWalkIsWayUp ==
  ASSUME NEW f \in FdFolders, NEW p, ~FdUnder(f, p), FdEnds(p)
  PROVE  \E way : FdWayUp(fdParent, way, f, p)
<1> DEFINE walk == FdAbove(p)
           C == FdLength
<1>1. walk = [n \in 0 .. C |-> IF n = 0 THEN p ELSE FdUp(walk[n - 1])] /\ C \in Nat
  BY FdAboveIs, FdLengthIs
<1> HIDE DEF C
<1>2. PICK m \in 0 .. C : walk[m] = FdRoot
  BY <1>1 DEF FdEnds
<1>3. \A n \in 0 .. C : walk[n] # f
  BY <1>1 DEF FdUnder
<1> HIDE DEF walk
<1> DEFINE way == {walk[n] : n \in 0 .. m}
<1>4. p \in way
  <2>1. 0 \in 0 .. m /\ walk[0] = p
    BY <1>1, <1>2
  <2> QED
    BY <2>1
<1>5. f \notin way
  <2>1. \A n \in 0 .. m : n \in 0 .. C
    BY <1>1, <1>2
  <2> QED
    BY <1>3, <2>1
<1>6. ASSUME NEW k \in FdFolders, k \in way PROVE fdParent[k] \in way
  <2>1. PICK n \in 0 .. m : k = walk[n]
    BY <1>6
  <2>2. n # m
    BY <1>2, <1>6, <2>1, FolderAssumption
  <2>3. n + 1 \in 0 .. m /\ n + 1 \in 0 .. C /\ n + 1 # 0 /\ (n + 1) - 1 = n
    BY <1>1, <1>2, <2>1, <2>2
  <2>4. walk[n + 1] = FdUp(walk[n])
    BY <1>1, <2>3
  <2>5. walk[n + 1] = fdParent[k]
    BY <2>1, <2>4, FolderAssumption DEF FdUp
  <2> QED
    BY <2>3, <2>5
<1> QED
  BY <1>4, <1>5, <1>6 DEF FdWayUp

(* When a folder off the way from p is put under p, it and all the others  *)
(* off the way are given higher numbers.                                   *)
LEMMA FdMoved ==
  ASSUME NEW parent \in [FdFolders -> FdFolders \cup {FdRoot, FdGone}], NEW d, FdRank(parent, d),
         NEW f \in FdFolders, NEW p \in FdFolders \cup {FdRoot},
         p \in FdFolders => parent[p] # FdGone,
         NEW way, FdWayUp(parent, way, f, p)
  PROVE  \E e : FdRank([parent EXCEPT ![f] = p], e)
<1> DEFINE e == [k \in FdFolders \cup {FdRoot} |-> IF k \in way THEN d[k] ELSE d[k] + d[p] + 1]
           moved == [parent EXCEPT ![f] = p]
<1>1. \A k \in FdFolders \cup {FdRoot} : d[k] \in Nat
  BY DEF FdRank
<1>2. e \in [FdFolders \cup {FdRoot} -> Nat]
  BY <1>1
<1>3. \A k \in FdFolders : moved[k] = IF k = f THEN p ELSE parent[k]
  OBVIOUS
<1>4. \A k \in FdFolders \cup {FdRoot} : e[k] = IF k \in way THEN d[k] ELSE d[k] + d[p] + 1
  OBVIOUS
<1>5. p # FdGone
  BY FolderAssumption
<1> HIDE DEF e, moved
<1>6. ASSUME NEW k \in FdFolders, moved[k] # FdGone
      PROVE  /\ moved[k] \in FdFolders => moved[moved[k]] # FdGone
             /\ e[moved[k]] < e[k]
  <2>1. CASE k = f
    <3>1. moved[k] = p /\ p \in way /\ k \notin way
      BY <1>3, <2>1 DEF FdWayUp
    <3>2. p \in FdFolders => moved[p] # FdGone
      BY <1>3, <1>5
    <3>3. e[p] = d[p] /\ e[k] = d[k] + d[p] + 1
      BY <1>4, <3>1
    <3> QED
      BY <1>1, <3>1, <3>2, <3>3
  <2>2. CASE k # f
    <3>1. moved[k] = parent[k] /\ parent[k] # FdGone /\ parent[k] \in FdFolders \cup {FdRoot}
      BY <1>3, <1>6, <2>2
    <3>2. (parent[k] \in FdFolders => parent[parent[k]] # FdGone) /\ d[parent[k]] < d[k]
      BY <3>1 DEF FdRank
    <3>3. parent[k] \in FdFolders => moved[parent[k]] # FdGone
      BY <1>3, <1>5, <3>2
    <3>4. k \in way => parent[k] \in way
      BY DEF FdWayUp
    <3>5. e[parent[k]] < e[k]
      BY <1>1, <1>4, <3>1, <3>2, <3>4
    <3> QED
      BY <3>1, <3>3, <3>5
  <2> QED
    BY <2>1, <2>2
<1>7. FdRank(moved, e)
  BY <1>2, <1>6 DEF FdRank
<1> QED
  BY <1>7 DEF moved

(* The root is at its own end.                                             *)
LEMMA FdRootEnds == FdEnds(FdRoot)
<1>1. FdAbove(FdRoot) = [n \in 0 .. FdLength |->
                          IF n = 0 THEN FdRoot ELSE FdUp(FdAbove(FdRoot)[n - 1])]
  BY FdAboveIs
<1>2. 0 \in 0 .. FdLength
  BY FdLengthIs
<1>3. 0 \in DOMAIN FdAbove(FdRoot) /\ FdAbove(FdRoot)[0] = FdRoot
  BY <1>1, <1>2
<1> QED
  BY <1>3 DEF FdEnds

FdRequests == [op : {"idle", "save", "destroy", "file", "loop"},
               folder : FdFolders \cup {FdRoot},
               parent : FdFolders \cup {FdRoot}, stale : BOOLEAN]

LEMMA FdAsked ==
  ASSUME FdInv, NEW u \in FdUsers, NEW op \in {"save", "destroy", "file", "loop"},
         NEW f \in FdFolders \cup {FdRoot}, NEW p \in FdFolders \cup {FdRoot}, FdAsk(u, op, f, p),
         op = "save" => f \in FdFolders /\ ~FdUnder(f, p) /\ FdEnds(p)
  PROVE  FdInv'
<1>1. /\ fdReq' = [fdReq EXCEPT ![u] = [op |-> op, folder |-> f, parent |-> p, stale |-> FALSE]]
      /\ UNCHANGED <<fdParent, fdPlace, fdOverlap>>
  BY DEF FdAsk
<1>2. FdTypeOK' /\ FdKept'
  BY <1>1 DEF FdInv, FdTypeOK, FdKept, FdIs, FdTree
<1>3. ASSUME op = "save" PROVE \E way : FdWayUp(fdParent, way, f, p)
  BY <1>3, FdWalkIsWayUp
<1>4. fdReq \in [FdUsers -> FdRequests]
  BY DEF FdInv, FdTypeOK, FdRequests
<1>5. ASSUME ~fdOverlap, NEW v \in FdUsers PROVE FdSaves(v)'
  <2>1. CASE v = u
    <3>1. fdReq'[v] = [op |-> op, folder |-> f, parent |-> p, stale |-> FALSE]
      BY <1>1, <1>4, <2>1
    <3>2. fdReq'[v].op = op /\ fdReq'[v].folder = f /\ fdReq'[v].parent = p
      BY <3>1
    <3>3. CASE op = "save"
      BY <1>1, <1>3, <3>2, <3>3 DEF FdSaves
    <3>4. CASE op # "save"
      BY <3>2, <3>4 DEF FdSaves
    <3> QED
      BY <3>3, <3>4
  <2>2. CASE v # u
    <3>1. fdReq'[v] = fdReq[v] /\ fdParent' = fdParent
      BY <1>1, <1>4, <2>2
    <3>2. FdSaves(v)
      BY <1>5 DEF FdInv
    <3> QED
      BY <3>1, <3>2 DEF FdSaves, FdIs, FdTree
  <2> QED
    BY <2>1, <2>2
<1> QED
  BY <1>1, <1>2, <1>5 DEF FdInv

(* A request that is over owes nothing, the others are as before.          *)
LEMMA FdDoneIs ==
  ASSUME FdTypeOK, NEW u \in FdUsers, FdDone(u)
  PROVE  /\ fdReq' \in [FdUsers -> FdRequests] /\ fdOverlap' = fdOverlap
         /\ \A v \in FdUsers : fdReq'[v] = IF v = u THEN FdIdle ELSE fdReq[v]
<1>1. fdReq \in [FdUsers -> FdRequests] /\ FdIdle \in FdRequests
  BY DEF FdTypeOK, FdRequests, FdIdle
<1> QED
  BY <1>1 DEF FdDone

(* The same where a folder has been moved, and walks have become stale.    *)
LEMMA FdMovesIs ==
  ASSUME FdTypeOK, NEW u \in FdUsers, FdMoves(u)
  PROVE  /\ fdReq' \in [FdUsers -> FdRequests]
         /\ fdOverlap' \in BOOLEAN /\ (~fdOverlap' => ~fdOverlap /\ ~fdReq[u].stale)
         /\ fdReq'[u].op = "idle"
         /\ \A v \in FdUsers : v # u =>
              /\ fdReq'[v].op = fdReq[v].op
              /\ fdReq'[v].folder = fdReq[v].folder /\ fdReq'[v].parent = fdReq[v].parent
              /\ fdReq'[v].stale = FdPassed(fdReq[u].folder, fdReq[v])
<1>1. fdReq \in [FdUsers -> FdRequests] /\ FdIdle \in FdRequests /\ FdIdle.op = "idle"
  BY DEF FdTypeOK, FdRequests, FdIdle
<1> DEFINE g == fdReq[u].folder
<1>2. ASSUME NEW v \in FdUsers PROVE FdPassed(g, fdReq[v]) \in BOOLEAN
  <2>1. fdReq[v].stale \in BOOLEAN
    BY <1>1 DEF FdRequests
  <2> QED
    BY <2>1 DEF FdPassed
<1>3. ASSUME NEW v \in FdUsers
      PROVE  [fdReq[v] EXCEPT !.stale = FdPassed(g, fdReq[v])] \in FdRequests
  <2>1. PICK b \in BOOLEAN : b = FdPassed(g, fdReq[v])
    BY <1>2
  <2>2. [fdReq[v] EXCEPT !.stale = b] \in FdRequests
    BY <1>1 DEF FdRequests
  <2> QED
    BY <2>1, <2>2
<1>4. \A v \in FdUsers : fdReq'[v] = IF v = u THEN FdIdle
                          ELSE [fdReq[v] EXCEPT !.stale = FdPassed(g, fdReq[v])]
  BY DEF FdMoves
<1>5. fdReq' \in [FdUsers -> FdRequests]
  <2>1. fdReq' = [v \in FdUsers |-> IF v = u THEN FdIdle
                    ELSE [fdReq[v] EXCEPT !.stale = FdPassed(g, fdReq[v])]]
    BY DEF FdMoves
  <2> HIDE DEF g
  <2> QED
    BY <1>1, <1>3, <2>1
<1>6. ASSUME NEW v \in FdUsers, v # u
      PROVE  /\ fdReq'[v].op = fdReq[v].op
             /\ fdReq'[v].folder = fdReq[v].folder /\ fdReq'[v].parent = fdReq[v].parent
             /\ fdReq'[v].stale = FdPassed(g, fdReq[v])
  <2>1. PICK b \in BOOLEAN : b = FdPassed(g, fdReq[v])
    BY <1>2
  <2>2. fdReq'[v] = [fdReq[v] EXCEPT !.stale = b] /\ fdReq[v] \in FdRequests
    BY <1>1, <1>4, <1>6, <2>1
  <2>3. /\ fdReq'[v].op = fdReq[v].op
        /\ fdReq'[v].folder = fdReq[v].folder /\ fdReq'[v].parent = fdReq[v].parent
        /\ fdReq'[v].stale = b
    BY <2>2 DEF FdRequests
  <2> QED
    BY <2>1, <2>3
<1>7. fdOverlap' \in BOOLEAN /\ (~fdOverlap' => ~fdOverlap /\ ~fdReq[u].stale)
  BY <1>1 DEF FdMoves, FdTypeOK, FdRequests
<1> QED
  BY <1>1, <1>4, <1>5, <1>6, <1>7

(* Where a folder is moved that is not on the way up from p, both the walk *)
(* and what it did not meet are as before: the intersection of the way     *)
(* that avoids f and of the walk of today, which avoids g.                 *)
LEMMA FdOtherWay ==
  ASSUME FdTypeOK, NEW d, FdRank(fdParent, d), NEW f \in FdFolders, NEW g \in FdFolders,
         NEW h, NEW p \in FdFolders \cup {FdRoot}, FdIs(p), ~FdUnder(g, p),
         NEW way, FdWayUp(fdParent, way, f, p)
  PROVE  \E w : FdWayUp([fdParent EXCEPT ![g] = h], w, f, p)
<1>1. FdEnds(p)
  BY FdRankEnds, FdRootEnds DEF FdIs
<1>2. PICK walk : FdWayUp(fdParent, walk, g, p)
  BY <1>1, FdWalkIsWayUp
<1> DEFINE w == way \cap walk
           moved == [fdParent EXCEPT ![g] = h]
<1>3. p \in w /\ f \notin w /\ g \notin w
  BY <1>2 DEF FdWayUp
<1>4. ASSUME NEW k \in FdFolders, k \in w PROVE moved[k] \in w
  <2>1. moved[k] = fdParent[k]
    BY <1>3, <1>4 DEF FdTypeOK
  <2>2. fdParent[k] \in way /\ fdParent[k] \in walk
    BY <1>2, <1>4 DEF FdWayUp
  <2> QED
    BY <2>1, <2>2
<1> HIDE DEF w, moved
<1>5. FdWayUp(moved, w, f, p)
  BY <1>3, <1>4 DEF FdWayUp
<1> QED
  BY <1>5 DEF moved

LEMMA FdSaveKeeps ==
  ASSUME FdInv, NEW u \in FdUsers, SaveFolder(u)
  PROVE  FdInv'
<1> DEFINE g == fdReq[u].folder
           h == fdReq[u].parent
<1>1. /\ fdReq[u].op = "save" /\ FdIs(h) /\ fdParent' = [fdParent EXCEPT ![g] = h]
      /\ FdMoves(u) /\ fdPlace' = fdPlace
  BY DEF SaveFolder
<1>2. /\ FdTypeOK /\ FdKept /\ g \in FdFolders \cup {FdRoot} /\ h \in FdFolders \cup {FdRoot}
      /\ fdParent \in [FdFolders -> FdFolders \cup {FdRoot, FdGone}]
  BY DEF FdInv, FdTypeOK
<1>3. fdReq' \in [FdUsers -> FdRequests] /\ fdOverlap' \in BOOLEAN
  BY <1>1, <1>2, FdMovesIs
<1>4. FdTypeOK'
  <2>1. /\ fdParent' \in [FdFolders -> FdFolders \cup {FdRoot, FdGone}]
        /\ fdPlace' \in [FdResources -> FdFolders \cup {FdRoot}]
    BY <1>1, <1>2 DEF FdTypeOK
  <2> QED
    BY <1>3, <2>1 DEF FdTypeOK, FdRequests
<1> HIDE DEF g, h
<1>5. \A k \in FdFolders : fdParent'[k] = IF k = g THEN h ELSE fdParent[k]
  BY <1>1, <1>2
<1>6. h # FdGone
  BY <1>2, FolderAssumption
<1>7. ASSUME NEW k, FdIs(k) PROVE FdIs(k)'
  BY <1>5, <1>6, <1>7 DEF FdIs, FdTree
<1>8. FdKept'
  <2>1. ASSUME NEW k \in FdTree' PROVE FdIs(fdParent[k])'
    <3>1. k \in FdFolders
      BY <2>1 DEF FdTree
    <3>2. CASE k = g
      BY <1>1, <1>5, <1>7, <3>1, <3>2
    <3>3. CASE k # g
      <4>1. fdParent'[k] = fdParent[k] /\ k \in FdTree
        BY <1>5, <2>1, <3>1, <3>3 DEF FdTree
      <4>2. FdIs(fdParent[k])
        BY <1>2, <4>1 DEF FdKept
      <4>3. PICK m : m = fdParent[k]
        OBVIOUS
      <4>4. FdIs(m)'
        BY <1>7, <4>2, <4>3
      <4> QED
        BY <4>1, <4>3, <4>4 DEF FdIs
    <3> QED
      BY <3>2, <3>3
  <2>2. ASSUME NEW x \in FdResources PROVE FdIs(fdPlace[x])'
    <3>1. PICK m : m = fdPlace[x]
      OBVIOUS
    <3>2. FdIs(m)'
      BY <1>2, <1>7, <3>1 DEF FdKept
    <3> QED
      BY <1>1, <3>1, <3>2 DEF FdIs
  <2> QED
    BY <2>1, <2>2 DEF FdKept
<1>9. ASSUME ~fdOverlap' PROVE (\E d : FdRank(fdParent', d)) /\ \A v \in FdUsers : FdSaves(v)'
  <2>1. ~fdOverlap /\ ~fdReq[u].stale
    BY <1>1, <1>2, <1>9, FdMovesIs
  <2>2. g \in FdFolders /\ (\E way : FdWayUp(fdParent, way, g, h))
    BY <1>1, <2>1 DEF FdInv, FdSaves, g, h
  <2>3. PICK d : FdRank(fdParent, d)
    BY <2>1 DEF FdInv
  <2>4. PICK way : FdWayUp(fdParent, way, g, h)
    BY <2>2
  <2>5. h \in FdFolders => fdParent[h] # FdGone
    BY <1>1, FolderAssumption DEF FdIs, FdTree
  <2>6. \E e : FdRank(fdParent', e)
    BY <1>1, <1>2, <2>2, <2>3, <2>4, <2>5, FdMoved
  <2>7. ASSUME NEW v \in FdUsers, fdReq'[v].op = "save" PROVE FdSaves(v)'
    <3>1. v # u
      BY <1>1, <1>2, <2>7, FdMovesIs
    <3>0. PICK f, p : f = fdReq[v].folder /\ p = fdReq[v].parent
      OBVIOUS
    <3>2. /\ fdReq[v].op = "save" /\ fdReq'[v].folder = f /\ fdReq'[v].parent = p
          /\ fdReq'[v].stale = FdPassed(g, fdReq[v])
      BY <1>1, <1>2, <2>7, <3>0, <3>1, FdMovesIs DEF g
    <3>3. FdSaves(v)
      BY <2>1 DEF FdInv
    <3>4. f \in FdFolders /\ p \in FdFolders \cup {FdRoot}
      BY <1>2, <3>0, <3>2, <3>3 DEF FdSaves, FdTypeOK
    <3>5. ASSUME ~fdReq'[v].stale, FdIs(p)'
          PROVE  \E w : FdWayUp(fdParent', w, f, p)
      <4>1. ~fdReq[v].stale /\ ~FdUnder(g, p)
        BY <3>0, <3>2, <3>5 DEF FdPassed
      <4>2. p # g
        <5>1. FdAbove(p)[0] = p /\ 0 \in DOMAIN FdAbove(p)
          <6>1. FdAbove(p) = [n \in 0 .. FdLength |->
                               IF n = 0 THEN p ELSE FdUp(FdAbove(p)[n - 1])]
            BY FdAboveIs
          <6>2. 0 \in 0 .. FdLength
            BY FdLengthIs
          <6> QED
            BY <6>1, <6>2
        <5> QED
          BY <4>1, <5>1 DEF FdUnder
      <4>3. FdIs(p)
        BY <1>5, <3>4, <3>5, <4>2 DEF FdIs, FdTree
      <4>4. PICK way2 : FdWayUp(fdParent, way2, f, p)
        BY <3>0, <3>2, <3>3, <4>1, <4>3 DEF FdSaves
      <4>5. \E w : FdWayUp([fdParent EXCEPT ![g] = h], w, f, p)
        BY <1>2, <2>2, <2>3, <3>4, <4>1, <4>3, <4>4, FdOtherWay
      <4> QED
        BY <1>1, <4>5
    <3> QED
      BY <3>2, <3>4, <3>5 DEF FdSaves, FdIs
  <2>8. \A v \in FdUsers : FdSaves(v)'
    BY <2>7 DEF FdSaves
  <2> QED
    BY <2>6, <2>8
<1> QED
  BY <1>4, <1>8, <1>9 DEF FdInv

LEMMA FdDeleteKeeps ==
  ASSUME FdInv, NEW u \in FdUsers, DeleteFolder(u)
  PROVE  FdInv'
<1> DEFINE g == fdReq[u].folder
<1>1. /\ fdReq[u].op = "destroy"
      /\ FdChildren(g) = {} /\ fdParent' = [fdParent EXCEPT ![g] = FdGone]
      /\ fdPlace' = [x \in FdResources |-> IF fdPlace[x] = g THEN FdRoot ELSE fdPlace[x]]
      /\ FdDone(u)
  BY DEF DeleteFolder
<1>2. /\ FdTypeOK /\ FdKept /\ fdParent \in [FdFolders -> FdFolders \cup {FdRoot, FdGone}]
      /\ fdPlace \in [FdResources -> FdFolders \cup {FdRoot}]
  BY DEF FdInv, FdTypeOK
<1>3. /\ fdReq' \in [FdUsers -> FdRequests] /\ fdOverlap' = fdOverlap
      /\ \A v \in FdUsers : fdReq'[v] = IF v = u THEN FdIdle ELSE fdReq[v]
  BY <1>1, <1>2, FdDoneIs
<1>4. FdTypeOK'
  <2>1. /\ fdPlace' \in [FdResources -> FdFolders \cup {FdRoot}]
        /\ fdParent' \in [FdFolders -> FdFolders \cup {FdRoot, FdGone}]
    BY <1>1, <1>2
  <2> QED
    BY <1>2, <1>3, <2>1 DEF FdTypeOK, FdRequests
<1> HIDE DEF g
<1>5. \A k \in FdFolders : fdParent'[k] = IF k = g THEN FdGone ELSE fdParent[k]
  BY <1>1, <1>2
<1>6. \A k \in FdFolders : fdParent[k] # g
  BY <1>1 DEF FdChildren
<1>7. ASSUME NEW k, k # g PROVE FdIs(k) <=> FdIs(k)'
  BY <1>5, <1>7 DEF FdIs, FdTree
<1>8. FdKept'
  <2>1. ASSUME NEW k \in FdTree' PROVE FdIs(fdParent[k])'
    <3>1. k \in FdTree /\ fdParent'[k] = fdParent[k] /\ fdParent[k] # g
      BY <1>5, <1>6, <2>1 DEF FdTree
    <3>2. PICK m : m = fdParent[k]
      OBVIOUS
    <3>3. FdIs(m)'
      BY <1>2, <1>7, <3>1, <3>2 DEF FdKept
    <3> QED
      BY <3>1, <3>2, <3>3 DEF FdIs
  <2>2. ASSUME NEW x \in FdResources PROVE FdIs(fdPlace[x])'
    <3>1. CASE fdPlace[x] = g
      BY <1>1, <3>1 DEF FdIs
    <3>2. CASE fdPlace[x] # g
      <4>1. PICK m : m = fdPlace[x]
        OBVIOUS
      <4>2. FdIs(m)'
        BY <1>2, <1>7, <3>2, <4>1 DEF FdKept
      <4> QED
        BY <1>1, <3>2, <4>1, <4>2 DEF FdIs
    <3> QED
      BY <3>1, <3>2
  <2> QED
    BY <2>1, <2>2 DEF FdKept
<1>9. ASSUME ~fdOverlap' PROVE (\E d : FdRank(fdParent', d)) /\ \A v \in FdUsers : FdSaves(v)'
  <2>1. ~fdOverlap
    BY <1>3, <1>9
  <2>2. PICK d : FdRank(fdParent, d)
    BY <2>1 DEF FdInv
  <2>3. FdRank(fdParent', d)
    BY <1>2, <1>5, <1>6, <2>2 DEF FdRank
  <2>4. ASSUME NEW v \in FdUsers, fdReq'[v].op = "save" PROVE FdSaves(v)'
    <3>1. FdIdle.op # "save"
      BY DEF FdIdle
    <3>2. fdReq'[v] = fdReq[v] /\ FdSaves(v)
      BY <1>3, <2>1, <2>4, <3>1 DEF FdInv
    <3>0. PICK f, p : f = fdReq[v].folder /\ p = fdReq[v].parent
      OBVIOUS
    <3>3. f \in FdFolders /\ p \in FdFolders \cup {FdRoot}
      BY <1>2, <2>4, <3>0, <3>2 DEF FdSaves, FdTypeOK
    <3>4. ASSUME ~fdReq[v].stale, FdIs(p)', FdIs(p), g \in FdFolders
          PROVE  \E w : FdWayUp(fdParent', w, f, p)
      <4>1. p # g
        BY <1>5, <3>4, FolderAssumption DEF FdIs, FdTree
      <4>2. PICK way : FdWayUp(fdParent, way, f, p)
        BY <2>4, <3>0, <3>2, <3>4 DEF FdSaves
      <4> DEFINE w == way \ {g}
      <4>3. p \in w /\ f \notin w
        BY <4>1, <4>2 DEF FdWayUp
      <4>4. ASSUME NEW k \in FdFolders, k \in w PROVE fdParent'[k] \in w
        <5>1. fdParent'[k] = fdParent[k] /\ fdParent[k] # g /\ k \in way
          BY <1>5, <1>6, <4>4
        <5> QED
          BY <4>2, <5>1 DEF FdWayUp
      <4> HIDE DEF w
      <4> QED
        BY <4>3, <4>4 DEF FdWayUp
    <3>5. ASSUME ~fdReq[v].stale, FdIs(p)'
          PROVE  \E w : FdWayUp(fdParent', w, f, p)
      <4>1. CASE g \in FdFolders
        <5>1. FdIs(p)
          BY <1>5, <3>5, <4>1, FolderAssumption DEF FdIs, FdTree
        <5> QED
          BY <3>4, <3>5, <4>1, <5>1
      <4>2. CASE g \notin FdFolders
        <5>1. fdParent' = fdParent
          BY <1>1, <1>2, <4>2
        <5>2. FdIs(p)
          BY <3>5, <5>1 DEF FdIs, FdTree
        <5> QED
          BY <2>4, <3>0, <3>2, <3>5, <5>1, <5>2 DEF FdSaves
      <4> QED
        BY <4>1, <4>2
    <3> QED
      BY <3>0, <3>2, <3>3, <3>5 DEF FdSaves, FdIs
  <2>5. \A v \in FdUsers : FdSaves(v)'
    BY <2>4 DEF FdSaves
  <2> QED
    BY <2>3, <2>5
<1> QED
  BY <1>4, <1>8, <1>9 DEF FdInv

(* A request that leaves the folders where they are.                       *)
LEMMA FdDoneKeeps ==
  ASSUME FdInv, NEW u \in FdUsers, FdDone(u), fdParent' = fdParent,
         fdPlace' \in [FdResources -> FdFolders \cup {FdRoot}],
         \A x \in FdResources : FdIs(fdPlace'[x])
  PROVE  FdInv'
<1>1. FdTypeOK /\ FdKept
  BY DEF FdInv
<1>2. /\ fdReq' \in [FdUsers -> FdRequests] /\ fdOverlap' = fdOverlap
      /\ \A v \in FdUsers : fdReq'[v] = IF v = u THEN FdIdle ELSE fdReq[v]
  BY <1>1, FdDoneIs
<1>3. FdTypeOK'
  BY <1>1, <1>2 DEF FdTypeOK, FdRequests
<1>4. FdKept'
  BY <1>1 DEF FdKept, FdIs, FdTree
<1>5. ASSUME ~fdOverlap, NEW v \in FdUsers PROVE FdSaves(v)'
  <2>1. CASE v = u
    BY <1>2, <2>1 DEF FdSaves, FdIdle
  <2>2. CASE v # u
    <3>1. fdReq'[v] = fdReq[v] /\ FdSaves(v)
      BY <1>2, <1>5, <2>2 DEF FdInv
    <3> QED
      BY <3>1 DEF FdSaves, FdIs, FdTree
  <2> QED
    BY <2>1, <2>2
<1> QED
  BY <1>2, <1>3, <1>4, <1>5 DEF FdInv

LEMMA FdInductive ==
  ASSUME FdInv, [FdNext]_fdVars
  PROVE  FdInv'
<1>1. CASE UNCHANGED fdVars
  BY <1>1 DEF fdVars, FdInv, FdTypeOK, FdKept, FdSaves, FdIs, FdTree
<1>2. ASSUME NEW u \in FdUsers, FdRequest(u) PROVE FdInv'
  <2>1. CASE ValidateFolder(u)
    <3>1. PICK f \in FdFolders, p \in FdFolders \cup {FdRoot} :
            /\ ~FdUnder(f, p)
            /\ FdAsk(u, IF FdEnds(p) THEN "save" ELSE "loop", f, p)
      BY <2>1 DEF ValidateFolder
    <3>2. CASE FdEnds(p)
      BY <3>1, <3>2, FdAsked
    <3>3. CASE ~FdEnds(p)
      BY <3>1, <3>3, FdAsked
    <3> QED
      BY <3>2, <3>3
  <2>2. CASE CheckEmpty(u)
    BY <2>2, FdAsked DEF CheckEmpty
  <2>3. CASE FindTarget(u)
    BY <2>3, FdAsked DEF FindTarget
  <2>4. CASE BulkMove(u)
    <3>1. FdTypeOK /\ FdKept
      BY DEF FdInv
    <3>2. PICK p \in FdFolders \cup {FdRoot} : p = fdReq[u].parent
      BY <3>1 DEF FdTypeOK
    <3>3. PICK xs \in SUBSET FdResources :
            fdPlace' = [x \in FdResources |-> IF x \in xs THEN p ELSE fdPlace[x]]
      BY <2>4, <3>2 DEF BulkMove
    <3>4. FdIs(p) /\ FdDone(u) /\ fdParent' = fdParent
      BY <2>4, <3>2 DEF BulkMove
    <3>5. /\ fdPlace' \in [FdResources -> FdFolders \cup {FdRoot}]
          /\ \A x \in FdResources : FdIs(fdPlace'[x])
      BY <3>1, <3>2, <3>3, <3>4 DEF FdTypeOK, FdKept
    <3> QED
      BY <3>4, <3>5, FdDoneKeeps
  <2>5. CASE FdFails(u)
    <3>1. FdDone(u) /\ fdParent' = fdParent /\ fdPlace' = fdPlace
      BY <2>5 DEF FdFails
    <3>2. /\ fdPlace' \in [FdResources -> FdFolders \cup {FdRoot}]
          /\ \A x \in FdResources : FdIs(fdPlace'[x])
      BY <3>1 DEF FdInv, FdTypeOK, FdKept
    <3> QED
      BY <3>1, <3>2, FdDoneKeeps
  <2> QED
    BY <1>2, <2>1, <2>2, <2>3, <2>4, <2>5, FdSaveKeeps, FdDeleteKeeps DEF FdRequest
<1> QED
  BY <1>1, <1>2 DEF FdNext

(* For any number of folders, resources and users: every folder and every  *)
(* resource stays in a folder that exists, or in none, and can be reached  *)
(* from the root, through every interleaving of creations, moves, filings  *)
(* and deletions in which no request saves a folder under a parent whose   *)
(* way up another has changed since it was walked                          *)
(* (resource_folders/serializers.py: validate).                            *)
THEOREM FoldersStayReachable == FdSpec => []FoldersReachable
<1>1. ASSUME FdInit PROVE FdInv
  <2>1. FdTypeOK
    BY <1>1 DEF FdInit, FdTypeOK, FdIdle
  <2> DEFINE d == [k \in FdFolders \cup {FdRoot} |-> 0]
  <2>2. FdRank(fdParent, d)
    BY <1>1 DEF FdInit, FdRank
  <2>3. \A u \in FdUsers : fdReq[u].op # "save"
    BY <1>1 DEF FdInit, FdIdle
  <2>4. FdKept
    BY <1>1 DEF FdInit, FdKept, FdIs, FdTree
  <2> QED
    BY <2>1, <2>2, <2>3, <2>4 DEF FdInv, FdSaves
<1>2. FdInv /\ [FdNext]_fdVars => FdInv'
  BY FdInductive
<1>3. ASSUME FdInv PROVE FoldersReachable
  <2>1. ASSUME ~fdOverlap, NEW f, FdIs(f) PROVE FdEnds(f)
    <3>1. CASE f = FdRoot
      BY <3>1, FdRootEnds
    <3>2. CASE f \in FdTree
      BY <1>3, <2>1, <3>2, FdRankEnds DEF FdInv
    <3> QED
      BY <2>1, <3>1, <3>2 DEF FdIs
  <2> QED
    BY <1>3, <2>1 DEF FdInv, FdKept, FoldersReachable, FdIs
<1> QED
  BY <1>1, <1>2, <1>3, PTL DEF FdSpec

-----------------------------------------------------------------------------
(* The row.  A request that will write knows a row whose topics follow its *)
(* id.                                                                     *)

(* The topics of a row that was read or will be written.                   *)
RrFollows(row, own) ==
  \A t \in RrTopics : row.topic[t] = IF t \in own THEN RrCustom ELSE row.id

RrAsked(q, own) ==
  q # RrIdle =>
    /\ q.step = "check" => q.row = q.read
    /\ q.step \in {"edit", "touch"} => q.row.topic = q.read.topic
    /\ RrFollows(q.read, own)
    /\ q.step = "write" => RrFollows(q.row, own)

(* No request has read a row that was never there; while no two renames    *)
(* cross, what a request has read and will write has its topics right.     *)
RrFresh == rrRow = RrNoRow(FALSE) => rrHeard = 0 /\ rrReq = [u \in RrUsers |-> RrIdle]
RrAskedInv == ~rrCrossed => \A u \in RrUsers : RrAsked(rrReq[u], rrOwn)

RrInv == RrTypeOK /\ RrFresh /\ RrAskedInv /\ TopicsFollow /\ ReportsKept

RrRequests == [step : {"edit", "check", "write", "touch"}, read : RrRows, row : RrRows]

LEMMA RrNotIdle ==
  ASSUME RrTypeOK, NEW u \in RrUsers, rrReq[u] # RrIdle
  PROVE  rrReq[u] \in RrRequests /\ (RrFresh => rrRow # RrNoRow(FALSE))
BY DEF RrTypeOK, RrRequests, RrFresh

LEMMA RrRowParts ==
  ASSUME NEW r \in RrRows
  PROVE  /\ r.id \in RrIds /\ r.topic \in [RrTopics -> RrIds \cup {RrCustom}]
         /\ r.seen \in 0 .. RrMaxReports
         /\ r = [id |-> r.id, topic |-> r.topic, seen |-> r.seen]
         /\ r.id # RrNone /\ \A d : r # RrNoRow(d)
BY RecordAssumption DEF RrRows, RrNoRow

(* save() gives the topics that follow the new id, when the row still has  *)
(* the old one; without a change of the id it changes no topic.            *)
LEMMA RrSavedFollows ==
  ASSUME NEW read \in RrRows, NEW row \in RrRows, NEW old \in RrIds \cup {RrNone},
         row.topic = read.topic, RrFollows(read, rrOwn), row.id # read.id => old = read.id
  PROVE  /\ RrSaved(row, old) \in RrRows
         /\ RrFollows(RrSaved(row, old), rrOwn)
         /\ row.id = read.id => RrSaved(row, old) = row
<1> DEFINE s == RrSaved(row, old)
<1>1. /\ s = [id |-> row.id, seen |-> row.seen,
              topic |-> [t \in RrTopics |-> IF RrMakes(row.topic[t], row.id, old)
                                            THEN row.id ELSE row.topic[t]]]
  BY DEF RrSaved, RrRows
<1>2. s.id = row.id
  BY <1>1
<1>3. s \in RrRows
  BY <1>1, RrRowParts DEF RrRows
<1>4. \A t \in RrTopics : s.topic[t] = IF t \in rrOwn THEN RrCustom ELSE row.id
  BY <1>1, RecordAssumption, RrRowParts DEF RrFollows, RrMakes
<1>5. ASSUME row.id = read.id PROVE s = row
  <2>1. \A t \in RrTopics : s.topic[t] = row.topic[t]
    BY <1>4, <1>5 DEF RrFollows
  <2>2. s.topic = row.topic
    BY <1>3, <2>1, RrRowParts
  <2> QED
    BY <1>1, <2>2, RrRowParts
<1> QED
  BY <1>2, <1>3, <1>4, <1>5 DEF RrFollows

LEMMA RrLookUpKeeps ==
  ASSUME RrInv, NEW u \in RrUsers, RrLookUp(u)
  PROVE  RrInv'
<1> DEFINE q == rrReq[u]
           saved == RrSaved(q.row, rrRow.id)
           p == [q EXCEPT !.row = saved, !.step = IF q.step = "edit" THEN "write" ELSE "touch"]
<1>1. /\ q.step \in {"edit", "check"} /\ rrReq' = [rrReq EXCEPT ![u] = p]
      /\ rrCrossed' = (rrCrossed \/ (q.row.id # q.read.id /\ rrRow.id # q.read.id))
      /\ UNCHANGED <<rrRow, rrOwn, rrHeard, rrOverwrote>>
  BY DEF RrLookUp
<1>1a. q # RrIdle
  BY <1>1 DEF RrIdle
<1>2. q \in RrRequests /\ rrRow # RrNoRow(FALSE)
  BY <1>1a, RrNotIdle DEF RrInv
<1>3. rrRow.id \in RrIds \cup {RrNone}
  BY DEF RrInv, RrTypeOK, RrRows, RrNoRow
<1>4. saved \in RrRows
  BY <1>2, <1>3, RrRowParts DEF RrSaved, RrRequests, RrRows
<1>5. /\ p.read = q.read /\ p.row = saved
      /\ p.step = (IF q.step = "edit" THEN "write" ELSE "touch")
      /\ p \in RrRequests
  BY <1>2, <1>4 DEF RrRequests
<1> HIDE DEF p
<1>6. RrTypeOK'
  BY <1>1, <1>5 DEF RrInv, RrTypeOK, RrRequests
<1>7. RrFresh' /\ ReportsKept'
  BY <1>1, <1>2 DEF RrInv, RrFresh, ReportsKept, RrExists
<1>8. TopicsFollow'
  BY <1>1 DEF RrInv, TopicsFollow, RrExists
<1>9. RrAskedInv'
  <2> SUFFICES ASSUME ~rrCrossed', NEW v \in RrUsers
               PROVE  RrAsked(rrReq'[v], rrOwn')
    BY DEF RrAskedInv
  <2>1. RrAsked(rrReq[v], rrOwn) /\ RrAsked(q, rrOwn) /\ (q.row.id # q.read.id => rrRow.id = q.read.id)
    BY <1>1 DEF RrInv, RrAskedInv
  <2>2. CASE v # u
    BY <1>1, <2>1, <2>2 DEF RrAsked, RrFollows, RrInv, RrTypeOK
  <2>3. CASE v = u
    <3>1. q.row.topic = q.read.topic /\ RrFollows(q.read, rrOwn) /\ (q.step = "check" => q.row = q.read)
      BY <1>1, <2>1 DEF RrAsked, RrIdle
    <3>2. RrFollows(saved, rrOwn) /\ (q.row.id = q.read.id => saved = q.row)
      BY <1>2, <1>3, <2>1, <3>1, RrSavedFollows DEF RrRequests
    <3>3. rrReq'[v] = p
      BY <1>1, <2>3 DEF RrInv, RrTypeOK
    <3>4. p.read = q.read /\ p.row = saved /\ p.step = (IF q.step = "edit" THEN "write" ELSE "touch")
      BY <1>5
    <3>5. RrFollows(p.read, rrOwn') /\ RrFollows(p.row, rrOwn')
      BY <1>1, <3>1, <3>2, <3>4 DEF RrFollows
    <3>6. p.step = "touch" => p.row.topic = p.read.topic
      BY <1>1, <3>1, <3>2, <3>4
    <3> QED
      BY <3>3, <3>4, <3>5, <3>6, <1>1 DEF RrAsked
  <2> QED
    BY <2>2, <2>3
<1> QED
  BY <1>6, <1>7, <1>8, <1>9 DEF RrInv

LEMMA RrWriteKeeps ==
  ASSUME RrInv, NEW u \in RrUsers, RrWrite(u)
  PROVE  RrInv'
<1> DEFINE q == rrReq[u]
<1>1. /\ q.step = "write" /\ rrRow' = q.row /\ rrReq' = [rrReq EXCEPT ![u] = RrIdle]
      /\ rrOverwrote' = (rrOverwrote \/ q.row.seen # rrHeard)
      /\ UNCHANGED <<rrOwn, rrHeard, rrCrossed>>
  BY DEF RrWrite
<1>1a. q # RrIdle
  BY <1>1 DEF RrIdle
<1>2. q \in RrRequests /\ q.row \in RrRows
  BY <1>1a, RrNotIdle DEF RrInv, RrRequests
<1>3. RrTypeOK'
  BY <1>1, <1>2 DEF RrInv, RrTypeOK, RrRequests
<1>4. RrFresh' /\ ReportsKept'
  BY <1>1, <1>2, RrRowParts DEF RrFresh, ReportsKept
<1>5. RrAskedInv'
  BY <1>1 DEF RrInv, RrTypeOK, RrAskedInv, RrAsked
<1>6. TopicsFollow'
  BY <1>1, <1>1a DEF RrInv, RrAskedInv, RrAsked, RrFollows, TopicsFollow
<1> QED
  BY <1>3, <1>4, <1>5, <1>6 DEF RrInv

\* The fields that the check writes are not those of a rename or of a report.
LEMMA RrTouchKeeps ==
  ASSUME RrInv, NEW u \in RrUsers, RrTouch(u)
  PROVE  RrInv'
<1> DEFINE q == rrReq[u]
           topic == [t \in RrTopics |-> IF q.row.topic[t] # q.read.topic[t]
                                         THEN q.row.topic[t] ELSE rrRow.topic[t]]
<1>1. /\ q.step = "touch" /\ RrExists /\ rrRow' = [rrRow EXCEPT !.topic = topic]
      /\ rrReq' = [rrReq EXCEPT ![u] = RrIdle]
      /\ UNCHANGED <<rrOwn, rrHeard, rrCrossed, rrOverwrote>>
  BY DEF RrTouch
<1>1a. q # RrIdle
  BY <1>1 DEF RrIdle
<1>2. q \in RrRequests /\ rrRow \in RrRows
  BY <1>1, <1>1a, RrNotIdle DEF RrInv, RrTypeOK, RrExists, RrNoRow
<1>3. topic \in [RrTopics -> RrIds \cup {RrCustom}]
  BY <1>2, RrRowParts DEF RrRequests
<1>4. rrRow' = [id |-> rrRow.id, topic |-> topic, seen |-> rrRow.seen]
  BY <1>1, <1>2 DEF RrRows
<1>5. rrRow' \in RrRows
  BY <1>2, <1>3, <1>4, RrRowParts DEF RrRows
<1>6. RrTypeOK'
  BY <1>1, <1>5 DEF RrInv, RrTypeOK
<1>7. RrFresh' /\ ReportsKept'
  BY <1>1, <1>4, <1>5, RrRowParts DEF RrInv, RrFresh, ReportsKept, RrExists
<1>8. RrAskedInv'
  BY <1>1 DEF RrInv, RrTypeOK, RrAskedInv, RrAsked
<1>9. TopicsFollow'
  <2> SUFFICES ASSUME ~rrCrossed, NEW t \in RrTopics
               PROVE  topic[t] = IF t \in rrOwn THEN RrCustom ELSE rrRow.id
    BY <1>1, <1>4 DEF TopicsFollow
  <2>1. q.row.topic = q.read.topic
    BY <1>1, <1>1a DEF RrInv, RrAskedInv, RrAsked
  <2>2. topic[t] = rrRow.topic[t]
    BY <2>1
  <2> QED
    BY <1>1, <2>2 DEF RrInv, TopicsFollow
<1> QED
  BY <1>6, <1>7, <1>8, <1>9 DEF RrInv

LEMMA RrBeginKeeps ==
  ASSUME RrInv, NEW u \in RrUsers, RrBeginEdit(u) \/ RrBeginCheck(u)
  PROVE  RrInv'
<1>1. PICK step \in {"edit", "check"},
             row \in {rrRow} \cup {[rrRow EXCEPT !.id = id] : id \in RrIds} :
        /\ RrReads(u, step, row)
        /\ \/ step = "check" /\ row = rrRow
           \/ step = "edit" /\ \E id \in RrIds : row = [rrRow EXCEPT !.id = id]
  BY DEF RrBeginEdit, RrBeginCheck
<1> DEFINE q == [step |-> step, read |-> rrRow, row |-> row]
<1>2. /\ RrExists /\ rrReq' = [rrReq EXCEPT ![u] = q]
      /\ UNCHANGED <<rrRow, rrOwn, rrHeard, rrCrossed, rrOverwrote>>
  BY <1>1 DEF RrReads
<1>3. rrRow \in RrRows
  BY <1>2 DEF RrInv, RrTypeOK, RrExists, RrNoRow
<1>4. row \in RrRows /\ row.topic = rrRow.topic
  BY <1>1, <1>3, RrRowParts DEF RrRows
<1>5. RrTypeOK'
  BY <1>2, <1>3, <1>4 DEF RrInv, RrTypeOK
<1>6. RrFresh' /\ ReportsKept' /\ TopicsFollow'
  BY <1>2, <1>3, RrRowParts DEF RrInv, RrFresh, ReportsKept, TopicsFollow, RrExists
<1>7. RrAskedInv'
  <2> SUFFICES ASSUME ~rrCrossed, NEW v \in RrUsers
               PROVE  RrAsked(rrReq'[v], rrOwn)
    BY <1>2 DEF RrAskedInv
  <2>1. CASE v = u
    <3>1. RrFollows(rrRow, rrOwn)
      BY <1>2 DEF RrInv, TopicsFollow, RrFollows
    <3>2. rrReq'[v] = q
      BY <1>2, <2>1 DEF RrInv, RrTypeOK
    <3>3. RrAsked(q, rrOwn)
      BY <1>1, <1>4, <3>1 DEF RrAsked
    <3> QED
      BY <3>2, <3>3
  <2>2. CASE v # u
    BY <1>2, <2>2 DEF RrInv, RrTypeOK, RrAskedInv
  <2> QED
    BY <2>1, <2>2
<1> QED
  BY <1>5, <1>6, <1>7 DEF RrInv

LEMMA RrInductive ==
  ASSUME RrInv, [RrNext]_rrVars
  PROVE  RrInv'
<1>1. CASE RrCreate
  <2>1. PICK id \in RrIds, own \in SUBSET RrTopics :
          /\ rrOwn' = own
          /\ rrRow' = [id |-> id, seen |-> 0,
                       topic |-> [t \in RrTopics |-> IF t \in own THEN RrCustom ELSE id]]
    BY <1>1 DEF RrCreate
  <2>2. /\ rrRow = RrNoRow(FALSE) /\ UNCHANGED <<rrReq, rrHeard, rrCrossed, rrOverwrote>>
    BY <1>1 DEF RrCreate
  <2>3. rrHeard = 0 /\ \A u \in RrUsers : rrReq[u] = RrIdle
    BY <2>2 DEF RrInv, RrFresh
  <2>4. rrRow' \in RrRows
    BY <2>1, RecordAssumption DEF RrRows
  <2>5. RrTypeOK'
    BY <2>1, <2>2, <2>4 DEF RrInv, RrTypeOK
  <2>6. RrFresh' /\ ReportsKept'
    BY <2>1, <2>2, <2>3, <2>4, RrRowParts DEF RrFresh, ReportsKept
  <2>7. RrAskedInv' /\ TopicsFollow'
    BY <2>1, <2>2, <2>3 DEF RrAskedInv, RrAsked, TopicsFollow
  <2> QED
    BY <2>5, <2>6, <2>7 DEF RrInv
<1>2. CASE RrReport
  <2>1. /\ RrExists /\ rrHeard < RrMaxReports /\ rrHeard' = rrHeard + 1
        /\ rrRow' = [rrRow EXCEPT !.seen = rrHeard + 1]
        /\ UNCHANGED <<rrReq, rrOwn, rrCrossed, rrOverwrote>>
    BY <1>2 DEF RrReport
  <2>2. rrRow \in RrRows /\ rrHeard + 1 \in 0 .. RrMaxReports
    BY <2>1, RecordAssumption DEF RrInv, RrTypeOK, RrExists, RrNoRow
  <2>3. rrRow' = [id |-> rrRow.id, topic |-> rrRow.topic, seen |-> rrHeard + 1]
    BY <2>1, <2>2 DEF RrRows
  <2>4. rrRow' \in RrRows
    BY <2>2, <2>3, RrRowParts DEF RrRows
  <2>5. RrTypeOK'
    BY <2>1, <2>2, <2>4 DEF RrInv, RrTypeOK
  <2>6. RrFresh' /\ ReportsKept' /\ TopicsFollow'
    BY <2>1, <2>3, <2>4, RrRowParts DEF RrInv, RrFresh, ReportsKept, TopicsFollow
  <2>7. RrAskedInv'
    BY <2>1 DEF RrInv, RrAskedInv
  <2> QED
    BY <2>5, <2>6, <2>7 DEF RrInv
<1>3. CASE RrDelete
  <2>1. rrRow' = RrNoRow(TRUE) /\ UNCHANGED <<rrReq, rrOwn, rrHeard, rrCrossed, rrOverwrote>>
    BY <1>3 DEF RrDelete
  <2>2. rrRow' # RrNoRow(FALSE) /\ ~RrExists'
    BY <2>1 DEF RrNoRow, RrExists
  <2> QED
    BY <2>1, <2>2 DEF RrInv, RrTypeOK, RrFresh, RrAskedInv, TopicsFollow, ReportsKept
<1>4. ASSUME NEW u \in RrUsers, RrRefuse(u) PROVE RrInv'
  <2>1. rrReq' = [rrReq EXCEPT ![u] = RrIdle] /\ rrReq[u] # RrIdle
        /\ UNCHANGED <<rrRow, rrOwn, rrHeard, rrCrossed, rrOverwrote>>
    BY <1>4 DEF RrRefuse
  <2>2. RrTypeOK' /\ RrFresh'
    BY <2>1 DEF RrInv, RrTypeOK, RrFresh
  <2> QED
    BY <2>1, <2>2 DEF RrInv, RrTypeOK, RrAskedInv, RrAsked, TopicsFollow, ReportsKept, RrExists
<1>5. CASE UNCHANGED rrVars
  BY <1>5 DEF rrVars, RrInv, RrTypeOK, RrFresh, RrAskedInv, TopicsFollow, ReportsKept, RrExists
<1> QED
  BY <1>1, <1>2, <1>3, <1>4, <1>5, RrLookUpKeeps, RrWriteKeeps, RrTouchKeeps, RrBeginKeeps
     DEF RrNext

LEMMA RrHolds == RrSpec => []RrInv
<1>1. ASSUME RrInit PROVE RrInv
  <2>1. ~RrExists
    BY <1>1 DEF RrInit, RrExists, RrNoRow
  <2>2. RrFresh
    BY <1>1 DEF RrInit, RrFresh
  <2>3. \A u \in RrUsers : rrReq[u] = RrIdle
    BY <1>1 DEF RrInit
  <2>4. RrAskedInv
    BY <2>3 DEF RrAskedInv, RrAsked
  <2>5. rrReq \in [RrUsers -> {RrIdle}]
    BY <1>1 DEF RrInit
  <2>6. RrTypeOK
    <3>1. rrReq \in [RrUsers -> {RrIdle} \cup RrRequests]
      BY <2>5
    <3>2. rrHeard \in 0 .. RrMaxReports
      BY <1>1, RecordAssumption DEF RrInit
    <3> QED
      BY <1>1, <3>1, <3>2 DEF RrInit, RrTypeOK, RrRequests
  <2> QED
    BY <2>1, <2>2, <2>4, <2>6 DEF RrInv, TopicsFollow, ReportsKept
<1>2. RrInv /\ [RrNext]_rrVars => RrInv'
  BY RrInductive
<1> QED
  BY <1>1, <1>2, PTL DEF RrSpec

(* The topics of a row contain its present id, or are those that were      *)
(* given, for any number of users and topics (save of sensors/models.py    *)
(* and devices/models.py).                                                 *)
THEOREM RecordTopicsFollow == RrSpec => []TopicsFollow
<1>1. RrInv => TopicsFollow
  BY DEF RrInv
<1> QED
  BY <1>1, RrHolds, PTL

(* No check of who is online, and no edit that read the row after the last *)
(* report, takes this report back (devices/models.py:                      *)
(* check_online_status).                                                   *)
THEOREM RecordReportsKept == RrSpec => []ReportsKept
<1>1. RrInv => ReportsKept
  BY DEF RrInv
<1> QED
  BY <1>1, RrHolds, PTL

-----------------------------------------------------------------------------
(* The order of a page.  A request that knows its page knows distinct      *)
(* numbers, which keep the order of the folder outside the page.           *)

PoTypes ==
  /\ poRank \in [PoItems -> Nat]
  /\ poEdit \in [PoUsers -> [item : Nat, rank : Nat]]
  /\ poReq \in [PoUsers -> [phase : {"idle", "rows", "save"}, number : [PoItems -> Nat],
                            page : SUBSET PoItems]]

(* The numbers of a request are distinct, and in the order of the folder   *)
(* except within the page.                                                 *)
PoKnown(q) ==
  q.phase # "idle" /\ q.page # {} =>
    \A x, y \in PoItems :
      q.number[x] > 0 /\ q.number[y] > 0 =>
        /\ x # y => q.number[x] # q.number[y]
        /\ ~(x \in q.page /\ y \in q.page) => (q.number[x] < q.number[y] <=> PoBefore(x, y))

PoInv == PoTypes /\ \A u \in PoUsers : PoKnown(poReq[u])

-----------------------------------------------------------------------------
LEMMA PoBeforeIs ==
  ASSUME poRank \in [PoItems -> Nat]
  PROVE  \A x, y, z \in PoItems :
           /\ ~PoBefore(x, x)
           /\ PoBefore(x, y) /\ PoBefore(y, z) => PoBefore(x, z)
           /\ x # y => PoBefore(x, y) \/ PoBefore(y, x)
           /\ PoBefore(x, y) => ~PoBefore(y, x)
BY OrderAssumption DEF PoBefore, PoItems

LEMMA PoFinite ==
  ASSUME NEW S \in SUBSET PoItems
  PROVE  IsFiniteSet(S) /\ Cardinality(S) \in Nat
<1>1. IsFiniteSet(PoItems)
  BY FS_Interval, OrderAssumption DEF PoItems
<1> QED
  BY <1>1, FS_Subset, FS_CardinalityType

(* The place of a resource in the folder.                                  *)
LEMMA PoAtIs ==
  ASSUME poRank \in [PoItems -> Nat], NEW x \in PoShown, NEW y \in PoShown
  PROVE  /\ PoAt(x) \in Nat \ {0}
         /\ PoBefore(x, y) => PoAt(x) < PoAt(y)
         /\ PoAt(x) < PoAt(y) <=> PoBefore(x, y)
         /\ x # y => PoAt(x) # PoAt(y)
<1> DEFINE Above(z) == {v \in PoShown : PoBefore(v, z)}
<1>1. PoShown \subseteq PoItems
  BY DEF PoShown
<1>2. \A z : IsFiniteSet(Above(z)) /\ Cardinality(Above(z)) \in Nat
  BY <1>1, PoFinite
<1>3. ASSUME NEW a \in PoShown, NEW b \in PoShown, PoBefore(a, b)
      PROVE  PoAt(a) < PoAt(b)
  <2>1. Above(a) \subseteq Above(b) /\ a \in Above(b) /\ a \notin Above(a)
    BY <1>1, <1>3, PoBeforeIs
  <2>2. Cardinality(Above(a)) < Cardinality(Above(b))
    BY <1>2, <2>1, FS_Subset
  <2> QED
    BY <1>2, <2>2 DEF PoAt
<1>4. PoAt(x) \in Nat \ {0} /\ PoAt(y) \in Nat
  BY <1>2 DEF PoAt
<1>5. x = y \/ PoBefore(x, y) \/ PoBefore(y, x)
  BY <1>1, PoBeforeIs
<1> QED
  BY <1>3, <1>4, <1>5

(* Pages of equal size.                                                    *)
LEMMA PoPageIs ==
  ASSUME NEW a \in Nat, NEW s \in Nat \ {0}
  PROVE  /\ a \div s \in Nat
         /\ (a \div s) * s <= a /\ a < (a \div s) * s + s
BY Z3

LEMMA PoPagesApart ==
  ASSUME NEW m \in Nat, NEW n \in Nat, NEW s \in Nat, m < n
  PROVE  m * s + s <= n * s
<1>1. n = m + 1 + (n - m - 1) /\ n - m - 1 \in Nat
  OBVIOUS
<1> DEFINE k == n - m - 1
<1>2. n * s = m * s + s + k * s /\ k * s \in Nat
  BY <1>1
<1>3. m * s \in Nat
  OBVIOUS
<1> HIDE DEF k
<1> QED
  BY <1>2, <1>3

(* What is asked for of a page that was read has the order of the folder   *)
(* outside the page.                                                       *)
LEMMA PoAsks ==
  ASSUME PoInv, NEW u \in PoUsers, AskReorder(u)
  PROVE  PoInv'
<1> DEFINE s == PoPageSize
           Page(x) == (PoAt(x) - 1) \div s
<1>1. PICK n \in {Page(x) : x \in PoShown} :
        LET page == {x \in PoShown : Page(x) = n} IN
        \E f \in PoNumberings(page, PoStart(n)) :
          /\ poReq[u] = PoIdle
          /\ poReq' = [poReq EXCEPT ![u] =
               [phase |-> "rows", page |-> page,
                number |-> [x \in PoItems |-> IF x \in page THEN f[x]
                                              ELSE IF x \in PoShown THEN PoAt(x) ELSE 0]]]
          /\ UNCHANGED <<poPlace, poRank, poEdit>>
  BY DEF AskReorder
<1> DEFINE page == {x \in PoShown : Page(x) = n}
<1>2. PICK f \in PoNumberings(page, PoStart(n)) :
          /\ poReq' = [poReq EXCEPT ![u] =
               [phase |-> "rows", page |-> page,
                number |-> [x \in PoItems |-> IF x \in page THEN f[x]
                                              ELSE IF x \in PoShown THEN PoAt(x) ELSE 0]]]
          /\ UNCHANGED <<poPlace, poRank, poEdit>>
  BY <1>1
<1>3. poRank \in [PoItems -> Nat] /\ s \in Nat \ {0} /\ PoShown \subseteq PoItems
  BY OrderAssumption DEF PoInv, PoTypes, PoShown
<1>4. \A x \in PoShown :
        /\ PoAt(x) \in Nat \ {0} /\ PoAt(x) - 1 \in Nat
        /\ Page(x) \in Nat /\ Page(x) * s < PoAt(x) /\ PoAt(x) <= Page(x) * s + s
  <2>1. ASSUME NEW x \in PoShown PROVE PoAt(x) \in Nat \ {0} /\ PoAt(x) - 1 \in Nat
    BY <1>3, PoAtIs
  <2>2. ASSUME NEW x \in PoShown
        PROVE  Page(x) \in Nat /\ Page(x) * s <= PoAt(x) - 1 /\ PoAt(x) - 1 < Page(x) * s + s
    BY <1>3, <2>1, PoPageIs
  <2>3. ASSUME NEW x \in PoShown
        PROVE  Page(x) * s < PoAt(x) /\ PoAt(x) <= Page(x) * s + s
    <3>1. Page(x) * s \in Nat
      BY <1>3, <2>2
    <3> DEFINE t == Page(x) * s
    <3>2. t \in Nat /\ t <= PoAt(x) - 1 /\ PoAt(x) - 1 < t + s
      BY <2>2, <3>1
    <3> HIDE DEF t
    <3>3. t < PoAt(x) /\ PoAt(x) <= t + s
      BY <1>3, <2>1, <3>2
    <3> QED
      BY <3>3 DEF t
  <2> QED
    BY <2>1, <2>2, <2>3
<1>5. n \in Nat /\ n * s \in Nat
  <2>1. n \in Nat
    BY <1>4
  <2> QED
    BY <1>3, <2>1
<1> DEFINE first == n * s
<1>6. \A x \in page : x \in PoShown /\ PoAt(x) \in Nat /\ first < PoAt(x) /\ PoAt(x) <= first + s
  <2>1. \A x \in page : x \in PoShown /\ Page(x) = n
    OBVIOUS
  <2> HIDE DEF Page, page
  <2> QED
    BY <1>4, <2>1
<1>7. page \subseteq PoItems /\ IsFiniteSet(page) /\ Cardinality(page) \in Nat
  BY <1>3, PoFinite
<1>8. Cardinality(page) <= s
  <2> DEFINE at == [x \in page |-> PoAt(x) - first]
  <2> HIDE DEF page, first
  <2>1. first \in Nat
    BY <1>5 DEF first
  <2>2. at \in [page -> 1 .. s]
    BY <1>3, <1>6, <2>1
  <2>3. IsFiniteSet(1 .. s) /\ Cardinality(1 .. s) = s
    BY <1>3, FS_Interval
  <2>4. ASSUME ~(Cardinality(page) <= s) PROVE FALSE
    <3>1. Cardinality(1 .. s) < Cardinality(page)
      BY <1>3, <1>7, <2>3, <2>4
    <3>2. PICK x \in page, y \in page : x # y /\ at[x] = at[y]
      <4> HIDE DEF at
      <4> QED
        BY <1>7, <2>2, <2>3, <3>1, FS_PigeonHole
    <3>3. PoAt(x) = PoAt(y)
      BY <1>6, <2>1, <3>2
    <3> QED
      BY <1>3, <1>6, <3>2, <3>3, PoAtIs
  <2> QED
    BY <2>4
<1>9. \A x \in page : f[x] \in Nat /\ first < f[x] /\ f[x] <= first + s
  <2>1. f \in [page -> first + 1 .. first + Cardinality(page)]
    BY DEF PoNumberings, PoStart
  <2>2. \A x \in page : f[x] \in first + 1 .. first + Cardinality(page)
    BY <2>1
  <2>3. first \in Nat
    BY <1>5
  <2> HIDE DEF page, first
  <2> QED
    BY <1>3, <1>7, <1>8, <2>2, <2>3
<1>10. \A x, y \in page : f[x] = f[y] => x = y
  BY DEF PoNumberings
<1>11. \A x \in PoShown \ page : PoAt(x) <= first \/ first + s < PoAt(x)
  <2> SUFFICES ASSUME NEW x \in PoShown \ page PROVE PoAt(x) <= first \/ first + s < PoAt(x)
    OBVIOUS
  <2> DEFINE m == Page(x)
             t == m * s
  <2>1. /\ m \in Nat /\ m # n /\ PoAt(x) \in Nat /\ t < PoAt(x) /\ PoAt(x) <= t + s
        /\ t \in Nat /\ first \in Nat
    <3>1. m # n
      OBVIOUS
    <3>2. m \in Nat /\ PoAt(x) \in Nat /\ m * s < PoAt(x) /\ PoAt(x) <= m * s + s
      BY <1>4
    <3> HIDE DEF m
    <3>3. m * s \in Nat
      BY <1>3, <3>2
    <3> QED
      BY <1>5, <3>1, <3>2, <3>3
  <2> HIDE DEF m
  <2>2. CASE m < n
    <3>1. t + s <= first
      BY <1>3, <1>5, <2>1, <2>2, PoPagesApart
    <3> HIDE DEF t, first
    <3> QED
      BY <1>3, <2>1, <3>1
  <2>3. CASE n < m
    <3>1. first + s <= t
      BY <1>3, <1>5, <2>1, <2>3, PoPagesApart
    <3> HIDE DEF t, first
    <3> QED
      BY <1>3, <2>1, <3>1
  <2> QED
    BY <1>5, <2>1, <2>2, <2>3
<1> DEFINE number == [x \in PoItems |-> IF x \in page THEN f[x]
                                        ELSE IF x \in PoShown THEN PoAt(x) ELSE 0]
           q == [phase |-> "rows", page |-> page, number |-> number]
<1>12. poReq' = [poReq EXCEPT ![u] = q] /\ UNCHANGED <<poPlace, poRank, poEdit>>
  BY <1>2
<1>13. /\ \A x \in page : number[x] = f[x]
       /\ \A x \in PoShown \ page : number[x] = PoAt(x)
       /\ \A x \in PoItems \ PoShown : number[x] = 0
  BY <1>3, <1>7
<1>14. first \in Nat /\ page \subseteq PoShown
  BY <1>5
<1>15. number \in [PoItems -> Nat]
  BY <1>4, <1>9
<1> HIDE DEF page, number, first
<1>16. ASSUME NEW x \in PoShown, NEW y \in PoShown
       PROVE  /\ x # y => number[x] # number[y]
              /\ ~(x \in page /\ y \in page) => (number[x] < number[y] <=> PoBefore(x, y))
  <2>1. CASE x \in page /\ y \in page
    BY <1>10, <1>13, <2>1
  <2>2. CASE x \notin page /\ y \notin page
    BY <1>3, <1>13, <2>2, PoAtIs
  <2>3. ASSUME NEW a \in page, NEW b \in PoShown \ page
        PROVE  /\ number[a] # number[b] /\ a # b
               /\ (number[a] < number[b] <=> PoBefore(a, b))
               /\ (number[b] < number[a] <=> PoBefore(b, a))
    <3>1. /\ number[a] \in Nat /\ first < number[a] /\ number[a] <= first + s
          /\ PoAt(a) \in Nat /\ first < PoAt(a) /\ PoAt(a) <= first + s
      BY <1>6, <1>9, <1>13
    <3>2. /\ number[b] = PoAt(b) /\ PoAt(b) \in Nat
          /\ (PoAt(b) <= first \/ first + s < PoAt(b))
      BY <1>4, <1>11, <1>13
    <3>3. /\ number[a] # number[b]
          /\ (number[a] < number[b] <=> PoAt(a) < PoAt(b))
          /\ (number[b] < number[a] <=> PoAt(b) < PoAt(a))
      BY <1>3, <1>14, <3>1, <3>2
    <3>4. /\ PoAt(a) < PoAt(b) <=> PoBefore(a, b)
          /\ PoAt(b) < PoAt(a) <=> PoBefore(b, a)
      BY <1>3, <1>14, PoAtIs
    <3> QED
      BY <3>3, <3>4
  <2> QED
    BY <2>1, <2>2, <2>3
<1>17. PICK r : r = q
  OBVIOUS
<1>18. /\ r.number = number /\ r.page = page /\ r.phase = "rows"
       /\ r \in [phase : {"idle", "rows", "save"}, number : [PoItems -> Nat], page : SUBSET PoItems]
  BY <1>7, <1>15, <1>17
<1>19. PoKnown(r)
  <2>1. \A x \in PoItems : number[x] > 0 => x \in PoShown
    BY <1>13
  <2> QED
    BY <1>16, <1>18, <2>1 DEF PoKnown
<1> HIDE DEF q
<1>20. poReq' = [poReq EXCEPT ![u] = r] /\ poRank' = poRank /\ poEdit' = poEdit
  BY <1>12, <1>17
<1>21. PoTypes'
  BY <1>18, <1>20 DEF PoInv, PoTypes
<1>22. ASSUME NEW v \in PoUsers PROVE PoKnown(poReq[v])'
  <2>1. poReq'[v] = IF v = u THEN r ELSE poReq[v]
    BY <1>20 DEF PoInv, PoTypes
  <2>2. PoKnown(poReq'[v])
    BY <1>19, <2>1 DEF PoInv
  <2> QED
    BY <1>20, <2>2 DEF PoKnown, PoBefore
<1> QED
  BY <1>21, <1>22 DEF PoInv

\* Other requests, and what is created, moved or deleted, change no number.
LEMMA PoOthersKeep ==
  ASSUME PoInv, UNCHANGED poRank, poEdit' \in [PoUsers -> [item : Nat, rank : Nat]],
         \/ UNCHANGED poReq
         \/ \E u \in PoUsers : \/ poReq' = [poReq EXCEPT ![u] = PoIdle]
                               \/ /\ poReq[u].phase = "rows"
                                  /\ poReq' = [poReq EXCEPT ![u].phase = "save"]
  PROVE  PoInv'
<1> DEFINE Requests == [phase : {"idle", "rows", "save"}, number : [PoItems -> Nat],
                        page : SUBSET PoItems]
<1>1. ASSUME NEW v \in PoUsers
      PROVE  /\ poReq'[v] \in Requests
             /\ \/ poReq'[v] = poReq[v] \/ poReq'[v] = PoIdle
                \/ /\ poReq[v].phase = "rows" /\ poReq'[v].page = poReq[v].page
                   /\ poReq'[v].number = poReq[v].number
  <2>1. PoIdle \in Requests /\ poReq[v] \in Requests
    BY DEF PoIdle, PoInv, PoTypes
  <2>2. CASE UNCHANGED poReq
    BY <2>1, <2>2
  <2>3. ASSUME NEW u \in PoUsers, poReq' = [poReq EXCEPT ![u] = PoIdle]
        PROVE  poReq'[v] = poReq[v] \/ poReq'[v] = PoIdle
    BY <2>3 DEF PoInv, PoTypes
  <2>4. ASSUME NEW u \in PoUsers, poReq[u].phase = "rows",
               poReq' = [poReq EXCEPT ![u].phase = "save"]
        PROVE  \/ poReq'[v] = poReq[v]
               \/ /\ poReq[v].phase = "rows" /\ poReq'[v].page = poReq[v].page
                  /\ poReq'[v].number = poReq[v].number /\ poReq'[v] \in Requests
    BY <2>1, <2>4 DEF PoInv, PoTypes
  <2> QED
    BY <2>1, <2>2, <2>3, <2>4
<1>2. poReq' \in [PoUsers -> Requests]
  <2>1. poReq' = [v \in PoUsers |-> poReq'[v]]
    BY DEF PoInv, PoTypes
  <2> HIDE DEF Requests
  <2> QED
    BY <1>1, <2>1
<1>3. PoTypes'
  BY <1>2 DEF PoInv, PoTypes
<1>4. ASSUME NEW v \in PoUsers PROVE PoKnown(poReq[v])'
  <2>1. PoKnown(poReq[v])
    BY DEF PoInv
  <2>2. PoIdle.page = {}
    BY DEF PoIdle
  <2>3. PoKnown(poReq'[v])
    BY <1>1, <2>1, <2>2 DEF PoKnown
  <2> QED
    BY <2>3 DEF PoKnown, PoBefore
<1> QED
  BY <1>3, <1>4 DEF PoInv

\* Whoever writes numbers, the other requests no longer know their page.
LEMMA PoOutdatedKeep ==
  ASSUME PoInv, NEW done, PoOutdates(done), poRank' \in [PoItems -> Nat],
         poEdit' \in [PoUsers -> [item : Nat, rank : Nat]]
  PROVE  PoInv'
<1> DEFINE Requests == [phase : {"idle", "rows", "save"}, number : [PoItems -> Nat],
                        page : SUBSET PoItems]
<1>1. poReq' = [v \in PoUsers |-> IF v \in done THEN PoIdle ELSE [poReq[v] EXCEPT !.page = {}]]
  BY DEF PoOutdates
<1>2. ASSUME NEW v \in PoUsers PROVE poReq'[v] \in Requests /\ poReq'[v].page = {}
  <2>1. PoIdle \in Requests /\ PoIdle.page = {}
    BY DEF PoIdle
  <2>2. /\ [poReq[v] EXCEPT !.page = {}] \in Requests
        /\ [poReq[v] EXCEPT !.page = {}].page = {}
    BY DEF PoInv, PoTypes
  <2> HIDE DEF Requests
  <2> QED
    BY <1>1, <2>1, <2>2
<1>3. poReq' \in [PoUsers -> Requests]
  <2> HIDE DEF Requests
  <2> QED
    BY <1>1, <1>2
<1>4. \A v \in PoUsers : PoKnown(poReq[v])'
  BY <1>2 DEF PoKnown
<1> QED
  BY <1>3, <1>4 DEF PoInv, PoTypes

LEMMA PoWritesKeep ==
  ASSUME PoInv, NEW done, NEW number \in [PoItems -> Nat], PoWrites(done, number)
  PROVE  PoInv'
<1>1. /\ poRank' = [x \in PoItems |-> IF number[x] > 0 /\ x \in PoExist THEN number[x] ELSE poRank[x]]
      /\ PoOutdates(done) /\ poEdit' = poEdit
  BY DEF PoWrites
<1>2. poRank' \in [PoItems -> Nat] /\ poEdit' \in [PoUsers -> [item : Nat, rank : Nat]]
  BY <1>1 DEF PoInv, PoTypes
<1> QED
  BY <1>1, <1>2, PoOutdatedKeep

\* An edit leaves the number as it is, or the requests no longer know their page.
LEMMA PoEditsKeep ==
  ASSUME PoInv, NEW u \in PoUsers, BeginEdit(u) \/ SaveEdit(u)
  PROVE  PoInv'
<1> DEFINE Edits == [item : Nat, rank : Nat]
<1>1. poRank \in [PoItems -> Nat] /\ poEdit \in [PoUsers -> Edits] /\ PoItems \subseteq Nat
  BY DEF PoInv, PoTypes, PoItems
<1>2. CASE BeginEdit(u)
  <2>1. PICK x \in PoExist \cap PoEdited : poEdit' = [poEdit EXCEPT ![u] = [item |-> x, rank |-> poRank[x]]]
    BY <1>2 DEF BeginEdit
  <2>2. x \in PoItems
    BY DEF PoExist
  <2>3. [item |-> x, rank |-> poRank[x]] \in Edits
    BY <1>1, <2>2
  <2>4. poEdit' \in [PoUsers -> Edits]
    <3> HIDE DEF Edits
    <3> QED
      BY <1>1, <2>1, <2>3
  <2> QED
    BY <1>2, <2>4, PoOthersKeep DEF BeginEdit
<1>3. CASE SaveEdit(u)
  <2>1. PICK x \in PoItems : /\ poRank' = [poRank EXCEPT ![x] = poEdit[u].rank]
                             /\ IF poEdit[u].rank = poRank[x] THEN UNCHANGED poReq ELSE PoOutdates({})
                             /\ poEdit' = [poEdit EXCEPT ![u] = PoNoEdit]
    BY <1>3, Zenon DEF SaveEdit
  <2>2. poEdit[u].rank \in Nat /\ PoNoEdit \in Edits
    BY <1>1 DEF PoNoEdit
  <2>3. poRank' \in [PoItems -> Nat]
    BY <1>1, <2>1, <2>2
  <2>4. poEdit' \in [PoUsers -> Edits]
    <3> HIDE DEF Edits
    <3> QED
      BY <1>1, <2>1, <2>2
  <2>5. CASE poEdit[u].rank = poRank[x]
    <3>1. poRank' = poRank
      BY <1>1, <2>1, <2>5
    <3> QED
      BY <2>1, <2>4, <2>5, <3>1, PoOthersKeep
  <2>6. CASE poEdit[u].rank # poRank[x]
    BY <2>1, <2>3, <2>4, <2>6, PoOutdatedKeep
  <2> QED
    BY <2>5, <2>6
<1> QED
  BY <1>2, <1>3

LEMMA PoInductive ==
  ASSUME PoInv, [PoNext]_poVars
  PROVE  PoInv'
<1>1. CASE ReorderListed
  <2>1. PICK xs \in SUBSET PoExist : \E f \in PoNumberings(xs, 0) :
               PoWrites({}, [x \in PoItems |-> IF x \in xs THEN f[x] ELSE 0])
    BY <1>1 DEF ReorderListed
  <2>2. PICK f \in PoNumberings(xs, 0) :
               PoWrites({}, [x \in PoItems |-> IF x \in xs THEN f[x] ELSE 0])
    BY <2>1
  <2>3. xs \subseteq PoItems /\ Cardinality(xs) \in Nat
    BY PoFinite DEF PoExist
  <2>4. f \in [xs -> 0 + 1 .. 0 + Cardinality(xs)]
    BY DEF PoNumberings
  <2>5. \A x \in xs : f[x] \in Nat
    <3>1. \A x \in xs : f[x] \in 0 + 1 .. 0 + Cardinality(xs)
      BY <2>4
    <3> QED
      BY <2>3, <3>1
  <2> QED
    BY <2>2, <2>5, PoWritesKeep
<1>2. ASSUME NEW u \in PoUsers, ReadRows(u) PROVE PoInv'
  BY <1>2, PoOthersKeep DEF ReadRows, PoInv, PoTypes
<1>3. ASSUME NEW u \in PoUsers, BulkUpdate(u) PROVE PoInv'
  <2>1. poReq[u].number \in [PoItems -> Nat]
    BY DEF PoInv, PoTypes
  <2> QED
    BY <1>3, <2>1, PoWritesKeep DEF BulkUpdate
<1>4. ASSUME NEW x \in PoItems, PoCreate(x) \/ PoMove(x) \/ PoDelete(x) PROVE PoInv'
  BY <1>4, PoOthersKeep DEF PoCreate, PoMove, PoDelete, PoPlaced, PoInv, PoTypes
<1>5. CASE UNCHANGED poVars
  BY <1>5, PoOthersKeep DEF poVars, PoInv, PoTypes
<1> QED
  BY <1>1, <1>2, <1>3, <1>4, <1>5, PoAsks, PoEditsKeep DEF PoNext

(* What PageOnly says of one step.                                         *)
PoPageKept ==
  \A u \in PoUsers :
    LET q == poReq[u] IN
    q.phase = "save" /\ poReq'[u] = PoIdle /\ q.page # {} =>
      \A x, y \in {z \in PoShown : q.number[z] > 0} :
        PoBefore(x, y)' <=> IF x \in q.page /\ y \in q.page
                            THEN q.number[x] < q.number[y]
                            ELSE PoBefore(x, y)

LEMMA PoSaves ==
  ASSUME PoInv, NEW u \in PoUsers, NEW w \in PoUsers, BulkUpdate(w),
         poReq'[u] = PoIdle, poReq[u].phase = "save", poReq[u].page # {},
         NEW x \in PoShown, NEW y \in PoShown, poReq[u].number[x] > 0, poReq[u].number[y] > 0
  PROVE  PoBefore(x, y)' <=> IF x \in poReq[u].page /\ y \in poReq[u].page
                             THEN poReq[u].number[x] < poReq[u].number[y]
                             ELSE PoBefore(x, y)
<1> DEFINE number == poReq[u].number
<1>1. u = w
  <2>1. u # w => poReq'[u] = [poReq[u] EXCEPT !.page = {}]
    BY DEF BulkUpdate, PoWrites, PoOutdates
  <2>2. poReq[u] \in [phase : {"idle", "rows", "save"}, number : [PoItems -> Nat], page : SUBSET PoItems]
    BY DEF PoInv, PoTypes
  <2>3. PoIdle.phase = "idle" /\ [poReq[u] EXCEPT !.page = {}].phase = poReq[u].phase
    BY <2>2 DEF PoIdle
  <2> QED
    BY <2>1, <2>3
<1>2. x \in PoItems /\ y \in PoItems /\ x \in PoExist /\ y \in PoExist
  BY DEF PoShown, PoExist
<1>3. poRank'[x] = number[x] /\ poRank'[y] = number[y]
  BY <1>1, <1>2 DEF BulkUpdate, PoWrites
<1>4. number[x] \in Nat /\ number[y] \in Nat /\ x \in Int /\ y \in Int
  <2>1. number \in [PoItems -> Nat]
    BY DEF PoInv, PoTypes
  <2> QED
    BY <1>2, <2>1, OrderAssumption DEF PoItems
<1>5. /\ x # y => number[x] # number[y]
      /\ ~(x \in poReq[u].page /\ y \in poReq[u].page) =>
           (number[x] < number[y] <=> PoBefore(x, y))
  BY <1>2 DEF PoInv, PoKnown
<1>6. PoBefore(x, y)' <=> number[x] < number[y]
  BY <1>3, <1>4, <1>5 DEF PoBefore
<1> QED
  BY <1>5, <1>6

LEMMA PoStepKeeps ==
  ASSUME PoInv, [PoNext]_poVars
  PROVE  PoPageKept
<1> SUFFICES ASSUME NEW u \in PoUsers, poReq[u].phase = "save", poReq'[u] = PoIdle,
                    poReq[u].page # {},
                    NEW x \in {z \in PoShown : poReq[u].number[z] > 0},
                    NEW y \in {z \in PoShown : poReq[u].number[z] > 0}
             PROVE  PoBefore(x, y)' <=> IF x \in poReq[u].page /\ y \in poReq[u].page
                                        THEN poReq[u].number[x] < poReq[u].number[y]
                                        ELSE PoBefore(x, y)
  BY Zenon DEF PoPageKept
<1>1. /\ poReq[u] # PoIdle /\ PoIdle.phase = "idle"
      /\ poReq[u] \in [phase : {"idle", "rows", "save"}, number : [PoItems -> Nat], page : SUBSET PoItems]
  BY DEF PoInv, PoTypes, PoIdle
<1>2. ASSUME NEW w \in PoUsers, BulkUpdate(w)
      PROVE  PoBefore(x, y)' <=> IF x \in poReq[u].page /\ y \in poReq[u].page
                                 THEN poReq[u].number[x] < poReq[u].number[y]
                                 ELSE PoBefore(x, y)
  BY <1>2, PoSaves
<1>3. ~ PoOutdates({})
  <2> SUFFICES ASSUME PoOutdates({}) PROVE FALSE
    OBVIOUS
  <2>1. poReq'[u] = [poReq[u] EXCEPT !.page = {}]
    BY DEF PoOutdates
  <2>2. poReq'[u].phase = "save"
    BY <1>1, <2>1
  <2> QED
    BY <1>1, <2>2
<1>4. ASSUME NEW w \in PoUsers, AskReorder(w) \/ ReadRows(w) PROVE FALSE
  <2>1. CASE w = u
    BY <1>1, <1>4, <2>1 DEF AskReorder, ReadRows
  <2>2. CASE w # u
    <3>1. poReq'[u] = poReq[u]
      BY <1>4, <2>2 DEF AskReorder, ReadRows, PoInv, PoTypes
    <3> QED
      BY <1>1, <3>1
  <2> QED
    BY <2>1, <2>2
<1>5. ~ UNCHANGED poReq
  BY <1>1
<1>6. ASSUME NEW w \in PoUsers, BeginEdit(w) \/ SaveEdit(w) PROVE FALSE
  <2>1. UNCHANGED poReq \/ PoOutdates({})
    BY <1>6, Zenon DEF BeginEdit, SaveEdit
  <2> QED
    BY <1>3, <1>5, <2>1
<1>7. ~ ReorderListed
  BY <1>3, Zenon DEF ReorderListed, PoWrites
<1> QED
  BY <1>2, <1>4, <1>5, <1>6, <1>7 DEF PoNext, poVars, PoCreate, PoMove, PoDelete, PoPlaced

(* A reorder of a page permutes this page alone, for any resources, page   *)
(* sizes and users, whatever was created, edited, moved or deleted since   *)
(* the order was read, unless another reorder or an edit changed a number  *)
(* meanwhile (reorder in sensors/views.py, devices/views.py,               *)
(* automation/views.py; the update of their serializers).                  *)
THEOREM OrderPageOnly == PoSpec => PageOnly
<1>1. ASSUME PoInit PROVE PoInv
  BY <1>1 DEF PoInit, PoInv, PoTypes, PoKnown, PoIdle, PoNoEdit
<1>2. PoInv /\ [PoNext]_poVars => PoInv' /\ [PoPageKept]_poVars
  BY PoInductive, PoStepKeeps
<1> QED
  BY <1>1, <1>2, PTL DEF PoSpec, PageOnly, PoPageKept

-----------------------------------------------------------------------------
(* The live view.  The last frame on the wire about a row has its newest   *)
(* value, and if there is none the page shows it.                          *)

LvFrames == [snap : BOOLEAN, sensor : 0 .. LvMaxRows, device : 0 .. LvMaxRows]

LvAbout(f, e) == f.snap \/ f[e] > 0

(* The last frame on the wire about the entity, if any, has that row.      *)
LvCurrent(wire, e, row) ==
  \A i \in 1 .. Len(wire) :
    LvAbout(wire[i], e) /\ (\A j \in 1 .. Len(wire) : i < j => ~LvAbout(wire[j], e))
      => wire[i][e] = row

LvBare(wire, e) == \A i \in 1 .. Len(wire) : ~LvAbout(wire[i], e)

LvIdle(e) == \A w \in LvWriters : Sending(w) => lvSend[w].entity # e

(* The consumer gets what is sent about the entity, and got the last of it. *)
LvHears(e) ==
  /\ lvSocket.state # "closed" /\ e \notin lvLost /\ LvIdle(e)
  /\ (lvSocket.state = "live" /\ e = "device") => lvMember

LvSeen(e) ==
  LvHears(e) =>
    /\ LvCurrent(lvWire, e, lvRows[e])
    /\ (lvSocket.state = "live" /\ LvBare(lvWire, e) /\ e \notin lvLate) =>
         lvShown[e] = lvRows[e]

LvBounded ==
  /\ \A w \in LvWriters : lvSend[w].row <= lvRows[lvSend[w].entity]
  /\ \A g \in lvGets : g.sensor <= lvRows["sensor"] /\ g.device <= lvRows["device"]

LvDeaf == (lvSocket.state = "live" /\ ~lvSocket.bound /\ lvMember) => "device" \in lvLost

LvInv == LvTypeOK /\ LvBounded /\ LvDeaf /\ \A e \in LvEntities : LvSeen(e)

-----------------------------------------------------------------------------
LEMMA LvAppended ==
  ASSUME NEW wire \in Seq(LvFrames), NEW f \in LvFrames, NEW e \in LvEntities, NEW row \in Nat
  PROVE  /\ LvAbout(f, e) /\ f[e] = row => LvCurrent(Append(wire, f), e, row)
         /\ LvAbout(f, e) => ~LvBare(Append(wire, f), e)
         /\ ~LvAbout(f, e) /\ LvCurrent(wire, e, row) => LvCurrent(Append(wire, f), e, row)
         /\ ~LvAbout(f, e) => (LvBare(Append(wire, f), e) <=> LvBare(wire, e))
<1> DEFINE n == Len(wire)
           more == Append(wire, f)
<1>1. /\ n \in Nat /\ Len(more) = n + 1 /\ more[n + 1] = f
      /\ \A i \in 1 .. n : more[i] = wire[i]
  BY AppendProperties, LenProperties
<1>2. \A i \in 1 .. n + 1 : i \in 1 .. n \/ i = n + 1
  BY <1>1
<1>3. n + 1 \in 1 .. n + 1 /\ \A i \in 1 .. n : i < n + 1 /\ i \in 1 .. n + 1
  BY <1>1
<1> HIDE DEF n, more
<1>4. LvAbout(f, e) /\ f[e] = row => LvCurrent(more, e, row)
  BY <1>1, <1>2, <1>3 DEF LvCurrent
<1>5. LvAbout(f, e) => ~LvBare(more, e)
  BY <1>1, <1>3 DEF LvBare
<1>6. ~LvAbout(f, e) /\ LvCurrent(wire, e, row) => LvCurrent(more, e, row)
  BY <1>1, <1>2, <1>3 DEF LvCurrent, n
<1>7. ~LvAbout(f, e) => (LvBare(more, e) <=> LvBare(wire, e))
  BY <1>1, <1>2, <1>3 DEF LvBare, n
<1> QED
  BY <1>4, <1>5, <1>6, <1>7 DEF more

LEMMA LvPrepended ==
  ASSUME NEW wire \in Seq(LvFrames), NEW f \in LvFrames, NEW e \in LvEntities, NEW row \in Nat,
         f.snap, f[e] = row, LvCurrent(wire, e, row)
  PROVE  LvCurrent(<<f>> \o wire, e, row) /\ ~LvBare(<<f>> \o wire, e)
<1> DEFINE n == Len(wire)
           more == <<f>> \o wire
<1>1. <<f>> \in Seq(LvFrames) /\ Len(<<f>>) = 1 /\ <<f>>[1] = f
  OBVIOUS
<1>2. n \in Nat
  BY LenProperties
<1>3. /\ Len(more) = n + 1
      /\ \A i \in 1 .. n + 1 : more[i] = IF i <= 1 THEN f ELSE wire[i - 1]
  <2>1. /\ Len(more) = Len(<<f>>) + Len(wire)
        /\ \A i \in 1 .. Len(<<f>>) + Len(wire) :
             more[i] = IF i <= Len(<<f>>) THEN <<f>>[i] ELSE wire[i - Len(<<f>>)]
    BY <1>1, ConcatProperties
  <2>2. Len(<<f>>) + Len(wire) = n + 1
    BY <1>1, <1>2
  <2>3. \A i \in 1 .. n + 1 : i <= 1 => i = 1
    BY <1>2
  <2> QED
    BY <1>1, <2>1, <2>2, <2>3
<1>4. more[1] = f /\ 1 \in 1 .. n + 1
  BY <1>2, <1>3
<1>5. \A i \in 1 .. n : more[i + 1] = wire[i] /\ i + 1 \in 1 .. n + 1
  BY <1>2, <1>3
<1> HIDE DEF more, n
<1>6. ~LvBare(more, e)
  BY <1>3, <1>4 DEF LvBare, LvAbout
<1>7. ASSUME NEW i \in 1 .. n + 1, LvAbout(more[i], e),
             \A j \in 1 .. n + 1 : i < j => ~LvAbout(more[j], e)
      PROVE  more[i][e] = row
  <2>1. CASE i = 1
    BY <1>4, <2>1
  <2>2. CASE i # 1
    <3>1. i - 1 \in 1 .. n /\ more[i] = wire[i - 1]
      BY <1>2, <1>3, <2>2
    <3>2. \A j \in 1 .. n : i - 1 < j => ~LvAbout(wire[j], e)
      <4>1. ASSUME NEW j \in 1 .. n, i - 1 < j PROVE i < j + 1
        BY <1>2, <4>1
      <4> QED
        BY <1>5, <1>7, <4>1
    <3> QED
      BY <1>7, <3>1, <3>2 DEF LvCurrent, n
  <2> QED
    BY <2>1, <2>2
<1> QED
  BY <1>3, <1>6, <1>7 DEF LvCurrent, more

LEMMA LvTaken ==
  ASSUME NEW wire \in Seq(LvFrames), wire # <<>>, NEW e \in LvEntities, NEW row \in Nat,
         LvCurrent(wire, e, row)
  PROVE  /\ LvCurrent(Tail(wire), e, row)
         /\ LvBare(Tail(wire), e) /\ LvAbout(Head(wire), e) => Head(wire)[e] = row
         /\ LvBare(Tail(wire), e) /\ ~LvAbout(Head(wire), e) => LvBare(wire, e)
<1> DEFINE n == Len(wire)
           rest == Tail(wire)
<1>1. n \in Nat \ {0} /\ Len(rest) = n - 1 /\ Head(wire) = wire[1]
  BY EmptySeq, HeadTailProperties, LenProperties
<1>2. \A i \in 1 .. n - 1 : rest[i] = wire[i + 1] /\ i + 1 \in 1 .. n
  BY <1>1, HeadTailProperties
<1>3. \A i \in 1 .. n : i = 1 \/ (i - 1 \in 1 .. n - 1 /\ rest[i - 1] = wire[i])
  <2>1. ASSUME NEW i \in 1 .. n, i # 1 PROVE i - 1 \in 1 .. n - 1 /\ (i - 1) + 1 = i
    BY <1>1, <2>1
  <2> QED
    BY <1>2, <2>1
<1> HIDE DEF n, rest
<1>4. LvCurrent(rest, e, row)
  <2> SUFFICES ASSUME NEW i \in 1 .. n - 1, LvAbout(rest[i], e),
                      \A j \in 1 .. n - 1 : i < j => ~LvAbout(rest[j], e)
               PROVE  rest[i][e] = row
    BY <1>1 DEF LvCurrent
  <2>1. \A j \in 1 .. n : i + 1 < j => ~LvAbout(wire[j], e)
    <3>1. ASSUME NEW j \in 1 .. n, i + 1 < j PROVE j # 1 /\ i < j - 1
      BY <1>1, <3>1
    <3> QED
      BY <1>3, <3>1
  <2>2. i + 1 \in 1 .. n /\ wire[i + 1] = rest[i]
    BY <1>2
  <2> QED
    BY <2>1, <2>2 DEF LvCurrent, n
<1>5. ASSUME LvBare(rest, e), LvAbout(wire[1], e) PROVE wire[1][e] = row
  <2>1. 1 \in 1 .. n /\ \A j \in 1 .. n : 1 < j => ~LvAbout(wire[j], e)
    BY <1>1, <1>3, <1>5 DEF LvBare
  <2> QED
    BY <1>5, <2>1 DEF LvCurrent, n
<1>6. ASSUME LvBare(rest, e), ~LvAbout(wire[1], e) PROVE LvBare(wire, e)
  BY <1>1, <1>3, <1>6 DEF LvBare, n
<1> QED
  BY <1>1, <1>4, <1>5, <1>6 DEF rest

-----------------------------------------------------------------------------
LEMMA LvStates ==
  ASSUME LvTypeOK
  PROVE  /\ LvMaxRows \in Nat /\ lvWire \in Seq(LvFrames)
         /\ \A e \in LvEntities : lvRows[e] \in 0 .. LvMaxRows /\ lvRows[e] \in Nat
                                  /\ lvShown[e] \in Nat
         /\ \A w \in LvWriters : /\ lvSend[w] \in [entity : LvEntities, row : 0 .. LvMaxRows]
                                 /\ lvSend[w].entity \in LvEntities
                                 /\ lvSend[w].row \in 0 .. LvMaxRows /\ lvSend[w].row \in Nat
         /\ lvSocket \in [state : {"closed", "joined", "live"}, bound : BOOLEAN,
                          drops : 0 .. LvMaxDrops]
         /\ NoSend \in [entity : LvEntities, row : 0 .. LvMaxRows] /\ NoSend.row = 0
BY LiveViewAssumption DEF LvTypeOK, LvFrames, LvEntities, NoSend

(* The notification is sent, or lost, and the writer is free again.        *)
LvFreed(w) == lvSend' = [lvSend EXCEPT ![w] = NoSend]

LEMMA LvFreedIs ==
  ASSUME LvTypeOK, NEW w \in LvWriters, LvFreed(w), UNCHANGED lvRows,
         \A v \in LvWriters : lvSend[v].row <= lvRows[lvSend[v].entity]
  PROVE  /\ lvSend' \in [LvWriters -> [entity : LvEntities, row : 0 .. LvMaxRows]]
         /\ \A v \in LvWriters : lvSend'[v].row <= lvRows'[lvSend'[v].entity]
         /\ \A e \in LvEntities : e # lvSend[w].entity /\ LvIdle(e)' => LvIdle(e)
<1>1. /\ \A v \in LvWriters : lvSend'[v] = IF v = w THEN NoSend ELSE lvSend[v]
      /\ lvSend' \in [LvWriters -> [entity : LvEntities, row : 0 .. LvMaxRows]]
  BY LvStates DEF LvTypeOK, LvFreed
<1>2. NoSend.row = 0 /\ NoSend.entity = "sensor" /\ lvRows["sensor"] \in Nat
  BY LvStates DEF NoSend, LvEntities
<1>3. \A v \in LvWriters : lvSend'[v].row <= lvRows'[lvSend'[v].entity]
  BY <1>1, <1>2
<1>4. ASSUME NEW e \in LvEntities, e # lvSend[w].entity, LvIdle(e)' PROVE LvIdle(e)
  BY <1>1, <1>4 DEF LvIdle, Sending
<1> QED
  BY <1>1, <1>3, <1>4

(* Where the notification is lost, or the writer dies.                     *)
LEMMA LvUnsent ==
  ASSUME LvInv, NEW w \in LvWriters, LvFreed(w),
         lvLost' = lvLost \cup {lvSend[w].entity},
         UNCHANGED <<lvRows, lvMember, lvSocket, lvWire, lvGets, lvPage, lvShown, lvLate>>
  PROVE  LvInv'
<1>1. LvTypeOK /\ LvBounded
  BY DEF LvInv
<1>2. /\ lvSend' \in [LvWriters -> [entity : LvEntities, row : 0 .. LvMaxRows]]
      /\ \A v \in LvWriters : lvSend'[v].row <= lvRows'[lvSend'[v].entity]
      /\ \A e \in LvEntities : e # lvSend[w].entity /\ LvIdle(e)' => LvIdle(e)
  BY <1>1, LvFreedIs DEF LvBounded
<1>3. LvTypeOK' /\ LvBounded' /\ LvDeaf'
  BY <1>1, <1>2, LvStates DEF LvInv, LvTypeOK, LvBounded, LvDeaf
<1>4. ASSUME NEW e \in LvEntities PROVE LvSeen(e)'
  <2>1. LvHears(e)' => LvHears(e)
    BY <1>2 DEF LvHears
  <2>2. LvSeen(e)
    BY DEF LvInv
  <2> QED
    BY <2>1, <2>2 DEF LvSeen
<1> QED
  BY <1>3, <1>4 DEF LvInv

LEMMA LvSent ==
  ASSUME LvInv, NEW w \in LvWriters, Sending(w), NEW f \in LvFrames, SafeSend(w, f),
         lvSend[w].entity = "device" => ~(lvSocket.state = "live" /\ ~lvSocket.bound),
         ~f.snap, f[lvSend[w].entity] = lvSend[w].row,
         \A e \in LvEntities : e # lvSend[w].entity => f[e] = 0
  PROVE  LvInv'
<1>0. PICK x \in LvEntities : x = lvSend[w].entity
  BY LvStates DEF LvInv
<1>1. /\ LvFreed(w)
      /\ UNCHANGED <<lvRows, lvMember, lvSocket, lvGets, lvPage, lvShown, lvLate>>
      /\ \/ lvSocket.state = "closed" /\ UNCHANGED <<lvWire, lvLost>>
         \/ /\ lvSocket.state # "closed"
            /\ lvWire' = Append(lvWire, f)
            /\ lvLost' = IF lvSend[w].row < lvRows[x] THEN lvLost \cup {x} ELSE lvLost \ {x}
         \/ lvLost' = lvLost \cup {x} /\ UNCHANGED lvWire
  BY <1>0 DEF SafeSend, LvFreed
<1>2. LvTypeOK /\ LvBounded /\ x \in LvEntities /\ lvSend[w].row > 0 /\ lvSend[w].row \in Nat
      /\ lvRows[x] \in Nat /\ lvWire \in Seq(LvFrames)
  BY <1>0, LvStates DEF LvInv, Sending
<1>3. /\ lvSend' \in [LvWriters -> [entity : LvEntities, row : 0 .. LvMaxRows]]
      /\ \A v \in LvWriters : lvSend'[v].row <= lvRows'[lvSend'[v].entity]
      /\ \A e \in LvEntities : e # x /\ LvIdle(e)' => LvIdle(e)
  BY <1>0, <1>1, <1>2, LvFreedIs DEF LvBounded
<1>4. CASE lvSocket.state = "closed" /\ UNCHANGED <<lvWire, lvLost>>
  <2>1. LvTypeOK' /\ LvBounded' /\ LvDeaf'
    BY <1>1, <1>2, <1>3, <1>4 DEF LvInv, LvTypeOK, LvBounded, LvDeaf
  <2>2. \A e \in LvEntities : LvSeen(e)'
    BY <1>1, <1>4 DEF LvSeen, LvHears
  <2> QED
    BY <2>1, <2>2 DEF LvInv
<1>5. CASE lvLost' = lvLost \cup {x} /\ UNCHANGED lvWire
  BY <1>0, <1>1, <1>5, LvUnsent
<1>6. CASE /\ lvSocket.state # "closed" /\ lvWire' = Append(lvWire, f)
           /\ lvLost' = IF lvSend[w].row < lvRows[x] THEN lvLost \cup {x} ELSE lvLost \ {x}
  <2>1. lvWire' \in Seq(LvFrames)
    BY <1>2, <1>6, AppendProperties
  <2>2. lvLost' \subseteq LvEntities
    BY <1>2, <1>6 DEF LvTypeOK
  <2>3. LvTypeOK' /\ LvBounded'
    BY <1>1, <1>2, <1>3, <2>1, <2>2 DEF LvTypeOK, LvBounded, LvFrames
  <2>4. LvDeaf'
    BY <1>0, <1>1, <1>6 DEF LvInv, LvDeaf
  <2>5. LvSeen(x)'
    <3>1. ASSUME LvHears(x)' PROVE f[x] = lvRows[x] /\ LvAbout(f, x)
      <4>1. lvSend[w].row <= lvRows[x]
        BY <1>0, <1>2 DEF LvBounded
      <4>2. ~(lvSend[w].row < lvRows[x])
        BY <1>6, <3>1 DEF LvHears
      <4> QED
        BY <1>0, <1>2, <4>1, <4>2 DEF LvAbout
    <3>2. LvHears(x)' => LvCurrent(lvWire', x, lvRows[x]) /\ ~LvBare(lvWire', x)
      BY <1>2, <1>6, <3>1, LvAppended
    <3> QED
      BY <1>1, <3>2 DEF LvSeen
  <2>6. ASSUME NEW e \in LvEntities, e # x PROVE LvSeen(e)'
    <3>1. LvHears(e)' => LvHears(e)
      BY <1>1, <1>3, <1>6, <2>6 DEF LvHears
    <3>2. ~LvAbout(f, e)
      BY <1>0, <2>6, <1>2 DEF LvAbout
    <3>3. LvSeen(e) /\ lvRows[e] \in Nat
      BY <1>2, LvStates DEF LvInv
    <3>4. LvCurrent(lvWire, e, lvRows[e]) => LvCurrent(lvWire', e, lvRows[e])
      BY <1>2, <1>6, <3>2, <3>3, LvAppended
    <3>5. LvBare(lvWire', e) => LvBare(lvWire, e)
      BY <1>2, <1>6, <3>2, <3>3, LvAppended
    <3> QED
      BY <1>1, <3>1, <3>3, <3>4, <3>5 DEF LvSeen
  <2> QED
    BY <2>3, <2>4, <2>5, <2>6 DEF LvInv
<1> QED
  BY <1>1, <1>4, <1>5, <1>6

LEMMA LvCommitKeeps ==
  ASSUME LvInv, NEW w \in LvWriters, NEW x \in LvEntities, Commit(w, x)
  PROVE  LvInv'
<1>1. /\ ~Sending(w) /\ lvRows[x] < LvMaxRows
      /\ lvRows' = [lvRows EXCEPT ![x] = @ + 1]
      /\ lvSend' = [lvSend EXCEPT ![w] = [entity |-> x, row |-> lvRows[x] + 1]]
      /\ UNCHANGED <<lvMember, lvSocket, lvWire, lvGets, lvPage, lvShown, lvLost, lvLate>>
  BY DEF Commit
<1>2. /\ LvTypeOK /\ LvMaxRows \in Nat /\ lvRows \in [LvEntities -> 0 .. LvMaxRows]
      /\ \A e \in LvEntities : lvRows[e] \in Nat
      /\ \A v \in LvWriters : lvSend[v].entity \in LvEntities /\ lvSend[v].row \in Nat
  BY LvStates DEF LvInv, LvTypeOK
<1>3. /\ lvRows' \in [LvEntities -> 0 .. LvMaxRows] /\ lvRows[x] + 1 \in 0 .. LvMaxRows
      /\ \A e \in LvEntities : lvRows[e] <= lvRows'[e] /\ lvRows'[e] \in Nat
      /\ \A e \in LvEntities : e # x => lvRows'[e] = lvRows[e]
      /\ lvRows'[x] = lvRows[x] + 1
  BY <1>1, <1>2
<1>4. \A v \in LvWriters : lvSend'[v] = IF v = w THEN [entity |-> x, row |-> lvRows[x] + 1]
                                                 ELSE lvSend[v]
  BY <1>1 DEF LvInv, LvTypeOK
<1>5. LvTypeOK'
  BY <1>1, <1>2, <1>3 DEF LvTypeOK
<1>6. LvBounded'
  <2>1. ASSUME NEW v \in LvWriters PROVE lvSend'[v].row <= lvRows'[lvSend'[v].entity]
    <3>1. CASE v = w
      BY <1>2, <1>3, <1>4, <3>1
    <3>2. CASE v # w
      <4>1. lvSend'[v] = lvSend[v] /\ lvSend[v].row <= lvRows[lvSend[v].entity]
        BY <1>4, <3>2 DEF LvInv, LvBounded
      <4> QED
        BY <1>2, <1>3, <4>1
    <3> QED
      BY <3>1, <3>2
  <2>2. ASSUME NEW g \in lvGets PROVE g.sensor <= lvRows'["sensor"] /\ g.device <= lvRows'["device"]
    <3>1. g.sensor <= lvRows["sensor"] /\ g.device <= lvRows["device"]
      BY DEF LvInv, LvBounded
    <3>2. g.sensor \in Nat /\ g.device \in Nat
      BY <1>2 DEF LvTypeOK
    <3> QED
      BY <1>2, <1>3, <3>1, <3>2 DEF LvEntities
  <2> QED
    BY <1>1, <2>1, <2>2 DEF LvBounded
<1>7. LvDeaf'
  BY <1>1 DEF LvInv, LvDeaf
<1>8. ASSUME NEW e \in LvEntities PROVE LvSeen(e)'
  <2>1. CASE e = x
    <3>1. ~LvIdle(x)'
      <4>1. lvSend'[w].entity = x /\ lvSend'[w].row > 0
        BY <1>2, <1>4
      <4> QED
        BY <4>1 DEF LvIdle, Sending
    <3> QED
      BY <2>1, <3>1 DEF LvSeen, LvHears
  <2>2. CASE e # x
    <3>1. LvIdle(e)' => LvIdle(e)
      BY <1>1, <1>4, <2>2 DEF LvIdle, Sending
    <3>2. LvHears(e)' => LvHears(e)
      BY <1>1, <3>1 DEF LvHears
    <3>3. LvSeen(e)
      BY DEF LvInv
    <3> QED
      BY <1>1, <1>3, <2>2, <3>2, <3>3 DEF LvSeen
  <2> QED
    BY <2>1, <2>2
<1> QED
  BY <1>5, <1>6, <1>7, <1>8 DEF LvInv

LEMMA LvSendInitialKeeps ==
  ASSUME LvInv, SendInitial
  PROVE  LvInv'
<1>1. /\ lvSocket.state = "joined"
      /\ lvSocket' = [lvSocket EXCEPT !.state = "live", !.bound = lvMember]
      /\ lvWire' = <<Snapshot>> \o lvWire
      /\ UNCHANGED <<lvRows, lvSend, lvMember, lvGets, lvPage, lvShown, lvLost, lvLate>>
  BY DEF SendInitial
<1>2. LvTypeOK /\ lvWire \in Seq(LvFrames)
  BY LvStates DEF LvInv
<1>3. /\ Snapshot = [snap |-> TRUE, sensor |-> lvRows["sensor"],
                     device |-> IF lvMember THEN lvRows["device"] ELSE 0]
      /\ Snapshot \in LvFrames
  <2>1. \A e \in LvEntities : lvRows[e] \in 0 .. LvMaxRows /\ 0 \in 0 .. LvMaxRows
    BY <1>2, LvStates
  <2> QED
    BY <2>1 DEF Snapshot, Frame, LvFrames, LvEntities
<1>4. /\ lvSocket' \in [state : {"closed", "joined", "live"}, bound : BOOLEAN, drops : 0 .. LvMaxDrops]
      /\ lvSocket'.state = "live" /\ lvSocket'.bound = lvMember
  BY <1>1, <1>2 DEF LvTypeOK
<1>5. LvTypeOK' /\ LvBounded' /\ LvDeaf'
  <2>1. lvWire' \in Seq(LvFrames)
    BY <1>1, <1>2, <1>3, ConcatProperties
  <2> QED
    BY <1>1, <1>2, <1>4, <2>1 DEF LvInv, LvTypeOK, LvBounded, LvDeaf, LvFrames
<1>6. ASSUME NEW e \in LvEntities PROVE LvSeen(e)'
  <2> SUFFICES ASSUME LvHears(e)' PROVE LvCurrent(lvWire', e, lvRows[e]) /\ ~LvBare(lvWire', e)
    BY <1>1 DEF LvSeen
  <2>1. LvHears(e) /\ (e = "device" => lvMember)
    BY <1>1, <1>4 DEF LvHears, LvIdle, Sending
  <2>2. Snapshot.snap /\ Snapshot[e] = lvRows[e] /\ lvRows[e] \in Nat
    BY <1>2, <1>3, <2>1, LvStates DEF LvEntities
  <2>3. LvCurrent(lvWire, e, lvRows[e])
    BY <2>1 DEF LvInv, LvSeen
  <2> QED
    BY <1>1, <1>2, <1>3, <2>2, <2>3, LvPrepended
<1> QED
  BY <1>5, <1>6 DEF LvInv

LEMMA LvReceiveKeeps ==
  ASSUME LvInv, Receive
  PROVE  LvInv'
<1> DEFINE f == Head(lvWire)
<1>1. /\ lvSocket.state = "live" /\ lvWire # <<>> /\ lvWire' = Tail(lvWire)
      /\ lvShown' = [e \in LvEntities |-> IF Replaces(f, e) THEN f[e] ELSE lvShown[e]]
      /\ lvLate' = {e \in lvLate : ~Replaces(f, e)}
      /\ UNCHANGED <<lvRows, lvSend, lvMember, lvSocket, lvGets, lvPage, lvLost>>
  BY DEF Receive, ApplyFrame
<1>2. LvTypeOK /\ lvWire \in Seq(LvFrames)
  BY LvStates DEF LvInv
<1>3. f \in LvFrames /\ Tail(lvWire) \in Seq(LvFrames)
  BY <1>1, <1>2, HeadTailProperties
<1> HIDE DEF f
<1>4. \A e \in LvEntities : f[e] \in 0 .. LvMaxRows
  BY <1>3 DEF LvFrames, LvEntities
<1>5. LvTypeOK' /\ LvBounded' /\ LvDeaf'
  BY <1>1, <1>2, <1>3, <1>4 DEF LvInv, LvTypeOK, LvBounded, LvDeaf, LvFrames
<1>6. ASSUME NEW e \in LvEntities, LvHears(e)'
      PROVE  /\ LvCurrent(lvWire', e, lvRows[e])
             /\ LvBare(lvWire', e) /\ e \notin lvLate' => lvShown'[e] = lvRows[e]
  <2>1. LvHears(e)
    BY <1>1, <1>6 DEF LvHears, LvIdle, Sending
  <2>2. /\ LvCurrent(lvWire, e, lvRows[e]) /\ lvRows[e] \in Nat
        /\ LvBare(lvWire, e) /\ e \notin lvLate => lvShown[e] = lvRows[e]
    BY <1>1, <1>2, <2>1, LvStates DEF LvInv, LvSeen
  <2>3. /\ LvCurrent(Tail(lvWire), e, lvRows[e])
        /\ LvBare(Tail(lvWire), e) /\ LvAbout(f, e) => f[e] = lvRows[e]
        /\ LvBare(Tail(lvWire), e) /\ ~LvAbout(f, e) => LvBare(lvWire, e)
    BY <1>1, <1>2, <2>2, LvTaken DEF f
  <2>4. Replaces(f, e) <=> LvAbout(f, e)
    BY <1>1, <1>2, <2>1 DEF Replaces, LvAbout, LvInv, LvDeaf, LvHears
  <2>5. lvShown'[e] = IF LvAbout(f, e) THEN f[e] ELSE lvShown[e]
    BY <1>1, <2>4
  <2>6. ~LvAbout(f, e) /\ e \notin lvLate' => e \notin lvLate
    BY <1>1, <2>4
  <2> QED
    BY <1>1, <2>2, <2>3, <2>5, <2>6
<1>7. \A e \in LvEntities : LvSeen(e)'
  BY <1>1, <1>6 DEF LvSeen
<1> QED
  BY <1>5, <1>7 DEF LvInv

LEMMA LvLoadKeeps ==
  ASSUME LvInv, LoadSnapshot
  PROVE  LvInv'
<1>1. PICK g \in lvGets :
        LET row == [e \in LvEntities |-> IF g.page = lvPage.number THEN g[e] ELSE 0] IN
        /\ lvGets' = lvGets \ {g}
        /\ lvShown' = row
        /\ lvLate' = lvLate \cup {e \in LvEntities : row[e] < lvShown[e]}
        /\ UNCHANGED <<lvRows, lvSend, lvMember, lvSocket, lvWire, lvPage, lvLost>>
  BY DEF LoadSnapshot
<1> DEFINE row == [e \in LvEntities |-> IF g.page = lvPage.number THEN g[e] ELSE 0]
<1>2. /\ lvGets' = lvGets \ {g} /\ lvShown' = row
      /\ lvLate' = lvLate \cup {e \in LvEntities : row[e] < lvShown[e]}
      /\ UNCHANGED <<lvRows, lvSend, lvMember, lvSocket, lvWire, lvPage, lvLost>>
  BY <1>1
<1>3. LvTypeOK /\ g \in [page : 1 .. LvMaxPages, sensor : 0 .. LvMaxRows, device : 0 .. LvMaxRows]
      /\ LvMaxRows \in Nat
  BY LvStates DEF LvInv, LvTypeOK
<1>4. \A e \in LvEntities : g[e] \in 0 .. LvMaxRows /\ g[e] <= lvRows[e]
  BY <1>3 DEF LvInv, LvBounded, LvEntities
<1>5. \A e \in LvEntities :
        /\ row[e] \in 0 .. LvMaxRows /\ row[e] \in Nat /\ row[e] <= lvRows[e]
        /\ lvRows[e] \in Nat
  BY <1>3, <1>4, LvStates
<1>6. row \in [LvEntities -> 0 .. LvMaxRows]
  BY <1>5
<1> HIDE DEF row
<1>7. LvTypeOK' /\ LvBounded' /\ LvDeaf'
  BY <1>2, <1>3, <1>6 DEF LvInv, LvTypeOK, LvBounded, LvDeaf
<1>8. ASSUME NEW e \in LvEntities PROVE LvSeen(e)'
  <2>1. LvHears(e)' => LvHears(e)
    BY <1>2 DEF LvHears, LvIdle, Sending
  <2>2. LvSeen(e)
    BY DEF LvInv
  <2>3. e \notin lvLate' => e \notin lvLate /\ ~(row[e] < lvShown[e])
    BY <1>2
  <2>4. lvShown'[e] = row[e]
    BY <1>2
  <2> QED
    BY <1>2, <1>5, <2>1, <2>2, <2>3, <2>4 DEF LvSeen
<1> QED
  BY <1>7, <1>8 DEF LvInv

LEMMA LvSocketKeeps ==
  ASSUME LvInv, ConsumerConnect \/ Drop \/ OpenPage \/ AddMember \/ GetSnapshot
  PROVE  LvInv'
<1>1. LvTypeOK /\ lvWire \in Seq(LvFrames) /\ <<>> \in Seq(LvFrames)
  BY LvStates DEF LvInv
<1>2. CASE ConsumerConnect
  <2>1. /\ lvSocket' = [lvSocket EXCEPT !.state = "joined"] /\ lvWire' = <<>> /\ lvLost' = {}
        /\ UNCHANGED <<lvRows, lvSend, lvMember, lvGets, lvPage, lvShown, lvLate>>
    BY <1>2 DEF ConsumerConnect
  <2>2. /\ lvSocket' \in [state : {"closed", "joined", "live"}, bound : BOOLEAN, drops : 0 .. LvMaxDrops]
        /\ lvSocket'.state = "joined"
    BY <1>1, <2>1 DEF LvTypeOK
  <2>3. LvTypeOK' /\ LvBounded' /\ LvDeaf'
    BY <1>1, <2>1, <2>2 DEF LvInv, LvTypeOK, LvBounded, LvDeaf, LvFrames
  <2>4. \A e \in LvEntities : LvSeen(e)'
    BY <2>1, <2>2 DEF LvSeen, LvCurrent
  <2> QED
    BY <2>3, <2>4 DEF LvInv
<1>3. CASE Drop \/ OpenPage
  <2>1. /\ \E n \in 0 .. LvMaxDrops : lvSocket' = [Closed EXCEPT !.drops = n]
        /\ lvWire' = <<>> /\ lvLost' = {} /\ lvLate' \in SUBSET LvEntities
        /\ lvPage' \in [number : 1 .. LvMaxPages, asked : BOOLEAN]
        /\ lvShown' \in [LvEntities -> 0 .. LvMaxRows]
        /\ UNCHANGED <<lvRows, lvSend, lvMember, lvGets>>
    <3>1. CASE Drop
      <4>1. lvSocket.drops + 1 \in 0 .. LvMaxDrops
        BY <1>1, <3>1, LiveViewAssumption DEF Drop, LvTypeOK
      <4> QED
        BY <1>1, <3>1, <4>1 DEF Drop, LvTypeOK
    <3>2. CASE OpenPage
      <4>1. lvPage.number + 1 \in 1 .. LvMaxPages /\ 0 \in 0 .. LvMaxRows
        BY <1>1, <3>2, LiveViewAssumption DEF OpenPage, LvTypeOK
      <4>2. lvSocket.drops \in 0 .. LvMaxDrops
        BY <1>1 DEF LvTypeOK
      <4> QED
        BY <3>2, <4>1, <4>2 DEF OpenPage
    <3> QED
      BY <1>3, <3>1, <3>2
  <2>2. /\ lvSocket' \in [state : {"closed", "joined", "live"}, bound : BOOLEAN, drops : 0 .. LvMaxDrops]
        /\ lvSocket'.state = "closed"
    BY <2>1 DEF Closed
  <2>3. LvTypeOK' /\ LvBounded' /\ LvDeaf'
    BY <1>1, <2>1, <2>2 DEF LvInv, LvTypeOK, LvBounded, LvDeaf, LvFrames
  <2>4. \A e \in LvEntities : LvSeen(e)'
    BY <2>2 DEF LvSeen, LvHears
  <2> QED
    BY <2>3, <2>4 DEF LvInv
<1>4. CASE AddMember
  <2>1. /\ ~lvMember /\ lvMember' = TRUE
        /\ lvLost' = IF lvSocket.state = "live" THEN lvLost \cup {"device"} ELSE lvLost
        /\ UNCHANGED <<lvRows, lvSend, lvSocket, lvWire, lvGets, lvPage, lvShown, lvLate>>
    BY <1>4 DEF AddMember
  <2>2. LvTypeOK' /\ LvBounded' /\ LvDeaf'
    BY <1>1, <2>1 DEF LvInv, LvTypeOK, LvBounded, LvDeaf, LvEntities
  <2>3. ASSUME NEW e \in LvEntities PROVE LvSeen(e)'
    <3>1. LvHears(e)' => LvHears(e)
      BY <2>1 DEF LvHears, LvIdle, Sending
    <3> QED
      BY <2>1, <3>1 DEF LvInv, LvSeen
  <2> QED
    BY <2>2, <2>3 DEF LvInv
<1>5. CASE GetSnapshot
  <2> DEFINE g == [page |-> lvPage.number, sensor |-> Snapshot.sensor, device |-> Snapshot.device]
  <2>1. /\ lvPage' = [lvPage EXCEPT !.asked = TRUE] /\ lvGets' = lvGets \cup {g}
        /\ UNCHANGED <<lvRows, lvSend, lvMember, lvSocket, lvWire, lvShown, lvLost, lvLate>>
    BY <1>5 DEF GetSnapshot
  <2>2. \A e \in LvEntities : lvRows[e] \in 0 .. LvMaxRows /\ lvRows[e] \in Nat /\ 0 \in 0 .. LvMaxRows
    BY <1>1, LvStates
  <2>3. /\ Snapshot.sensor = lvRows["sensor"]
        /\ Snapshot.device = IF lvMember THEN lvRows["device"] ELSE 0
    BY DEF Snapshot, Frame
  <2>4. /\ Snapshot.sensor \in 0 .. LvMaxRows /\ Snapshot.device \in 0 .. LvMaxRows
        /\ Snapshot.sensor <= lvRows["sensor"] /\ Snapshot.device <= lvRows["device"]
    BY <2>2, <2>3 DEF LvEntities
  <2>5. LvTypeOK' /\ LvBounded' /\ LvDeaf'
    <3>1. lvPage.number \in 1 .. LvMaxPages /\ lvPage' \in [number : 1 .. LvMaxPages, asked : BOOLEAN]
      BY <1>1, <2>1 DEF LvTypeOK
    <3>2. /\ g \in [page : 1 .. LvMaxPages, sensor : 0 .. LvMaxRows, device : 0 .. LvMaxRows]
          /\ g.sensor <= lvRows["sensor"] /\ g.device <= lvRows["device"]
      BY <2>4, <3>1
    <3> HIDE DEF g
    <3>3. LvTypeOK' /\ LvDeaf'
      BY <1>1, <2>1, <3>1, <3>2 DEF LvInv, LvTypeOK, LvDeaf
    <3>4. LvBounded'
      BY <2>1, <3>2 DEF LvInv, LvBounded
    <3> QED
      BY <3>3, <3>4
  <2>6. \A e \in LvEntities : LvSeen(e)'
    BY <2>1 DEF LvInv, LvSeen, LvHears, LvIdle, Sending
  <2> QED
    BY <2>5, <2>6 DEF LvInv
<1> QED
  BY <1>2, <1>3, <1>4, <1>5

LEMMA LvInductive ==
  ASSUME LvInv, [LvNext]_lvVars
  PROVE  LvInv'
<1>1. CASE UNCHANGED lvVars
  BY <1>1 DEF lvVars, LvInv, LvTypeOK, LvBounded, LvDeaf, LvSeen, LvHears, LvIdle, Sending
<1>2. ASSUME NEW w \in LvWriters, WriterDies(w) PROVE LvInv'
  BY <1>2, LvUnsent DEF WriterDies, LvFreed
<1>3. ASSUME NEW w \in LvWriters, OnSensorDataSaved(w) PROVE LvInv'
  <2> DEFINE f == [snap |-> FALSE, sensor |-> lvSend[w].row, device |-> 0]
  <2>1. Sending(w) /\ lvSend[w].entity = "sensor" /\ SafeSend(w, f)
    BY <1>3 DEF OnSensorDataSaved, Frame
  <2>2. f \in LvFrames
    BY LvStates DEF LvInv, LvFrames
  <2>3. \A e \in LvEntities : e # "sensor" => f[e] = 0
    BY DEF LvEntities
  <2>4. ~f.snap /\ f[lvSend[w].entity] = lvSend[w].row
    BY <2>1
  <2> HIDE DEF f
  <2> QED
    BY <2>1, <2>2, <2>3, <2>4, LvSent
<1>4. ASSUME NEW w \in LvWriters, OnDeviceStatus(w) PROVE LvInv'
  <2> DEFINE f == [snap |-> FALSE, sensor |-> 0, device |-> lvSend[w].row]
  <2>1. CASE lvSocket.state = "live" /\ ~lvSocket.bound
    <3>1. LvFreed(w) /\ lvLost' = lvLost \cup {lvSend[w].entity}
          /\ UNCHANGED <<lvRows, lvMember, lvSocket, lvWire, lvGets, lvPage, lvShown, lvLate>>
      BY <1>4, <2>1 DEF OnDeviceStatus, LvFreed
    <3> QED
      BY <3>1, LvUnsent
  <2>2. CASE ~(lvSocket.state = "live" /\ ~lvSocket.bound)
    <3>1. Sending(w) /\ lvSend[w].entity = "device" /\ SafeSend(w, f)
      BY <1>4, <2>2 DEF OnDeviceStatus, Frame
    <3>2. f \in LvFrames
      BY LvStates DEF LvInv, LvFrames
    <3>3. \A e \in LvEntities : e # "device" => f[e] = 0
      BY DEF LvEntities
    <3>4. ~f.snap /\ f[lvSend[w].entity] = lvSend[w].row
      BY <3>1
    <3> HIDE DEF f
    <3> QED
      BY <2>2, <3>1, <3>2, <3>3, <3>4, LvSent
  <2> QED
    BY <2>1, <2>2
<1> QED
  BY <1>1, <1>2, <1>3, <1>4, LvCommitKeeps, LvSendInitialKeeps, LvReceiveKeeps, LvLoadKeeps,
     LvSocketKeeps DEF LvNext, WriterStep

(* A connected page shows the latest row, for any number of writers and    *)
(* rows, but for what NoGap names: a lost or overtaken notification, a     *)
(* late member, a late snapshot of the page (consumers.py: connect,        *)
(* _send_initial; stores/project.js).                                      *)
THEOREM LiveViewHasNoGap == LvSpec => []NoGap
<1>1. ASSUME LvInit PROVE LvInv
  <2>1. lvSocket.state = "closed"
    BY <1>1 DEF LvInit, Closed
  <2>2. LvTypeOK
    <3>1. 0 \in 0 .. LvMaxRows /\ 0 \in 0 .. LvMaxDrops /\ 1 \in 1 .. LvMaxPages
      BY LiveViewAssumption
    <3>2. /\ lvWire = <<>>
          /\ lvWire \in Seq([snap : BOOLEAN, sensor : 0 .. LvMaxRows, device : 0 .. LvMaxRows])
      BY <1>1 DEF LvInit
    <3>3. /\ lvSend \in [LvWriters -> [entity : LvEntities, row : 0 .. LvMaxRows]]
          /\ lvSocket \in [state : {"closed", "joined", "live"}, bound : BOOLEAN,
                            drops : 0 .. LvMaxDrops]
      BY <1>1, <3>1 DEF LvInit, NoSend, Closed, LvEntities
    <3> QED
      BY <1>1, <3>1, <3>2, <3>3 DEF LvInit, LvTypeOK
  <2>3. LvBounded
    BY <1>1 DEF LvInit, LvBounded, NoSend, LvEntities
  <2>4. LvDeaf /\ \A e \in LvEntities : LvSeen(e)
    BY <2>1 DEF LvDeaf, LvSeen, LvHears
  <2> QED
    BY <2>2, <2>3, <2>4 DEF LvInv
<1>2. LvInv /\ [LvNext]_lvVars => LvInv'
  BY LvInductive
<1>3. ASSUME LvInv PROVE NoGap
  <2> SUFFICES ASSUME NEW e \in LvEntities, Quiet(e), e \notin lvLost \cup lvLate
               PROVE  lvShown[e] = lvRows[e]
    BY DEF NoGap
  <2>1. lvWire = <<>> /\ lvSocket.state = "live" /\ LvHears(e)
    BY DEF Quiet, LvHears, LvIdle
  <2>2. LvBare(lvWire, e)
    BY <2>1 DEF LvBare
  <2> QED
    BY <1>3, <2>1, <2>2 DEF LvInv, LvSeen
<1> QED
  BY <1>1, <1>2, <1>3, PTL DEF LvSpec

=============================================================================
