------------------------- MODULE EphemeralStoreProof -------------------------
(***************************************************************************)
(* The safety of the ephemeral weights, proved for any number of drivers,  *)
(* training processes and layers, and any number of kills and signals.     *)
(* The invariant has one part about who may write to the staging tree, one *)
(* about who is going to remove it, and one about the training process     *)
(* that holds the ready tree.                                              *)
(***************************************************************************)
EXTENDS EphemeralStore, Integers, TLAPS

-----------------------------------------------------------------------------
(* The trees *)

\* A path has a directory, with an inode of its own, or nothing.
TreeInv ==
    /\ staging.exists <=> staging.inode # 0
    /\ ready.exists <=> ready.inode # 0
    /\ staging.exists /\ ready.exists => staging.inode # ready.inode
    /\ ~staging.tmp

-----------------------------------------------------------------------------
(* The staging tree *)

Early == {"absent", "start", "probe", "reclaim", "reclaim walk", "check", "mkdir", "lease", "spawn"}
Late == {"discover", "unlease", "scan", "manifest", "rename"}

ChildInv ==
    \A d \in Drivers :
        /\ pc[d] \in Early => child[d] = None /\ wrote[d] = 0
        /\ child[d] = "ok" => wrote[d] = 2 * NumLayers
        /\ pc[d] \in Late => child[d] = "reaped" /\ wrote[d] = 2 * NumLayers

\* What a converter has written after n half layers.
Progress(n) ==
    [l \in Layers |-> IF 2 * l <= n THEN "full" ELSE IF 2 * l = n + 1 THEN "part" ELSE None]

\* One producer at a time, and the tree holds what it has written.
Produced(d) ==
    /\ staging.exists
    /\ \A e \in Drivers : Producing(e) => e = d
    /\ staging.layer = Progress(wrote[d])
    /\ pc[d] \in Works \cup {"dead"}
    /\ pc[d] = "dead" => kills > 0
    /\ pc[d] \in {"unlease", "scan", "manifest", "rename"} => plan[d] = Layers
    /\ pc[d] \in {"scan", "manifest", "rename"} => staging.lease = NoProcess
    /\ pc[d] = "rename" => staging.manifest = [l \in Layers |-> "ready"]

ProducerInv == trespass = {} => \A d \in Drivers : Producing(d) => Produced(d)

\* d is going to remove the staging tree: it has listed, or will list, all of it.
Cleans(d) ==
    \/ pc[d] \in {"cleanup", "atexit"}
    \/ /\ pc[d] \in {"cleanup walk", "atexit walk"} /\ listed[d] = Entries
       /\ \A l \in (Entries \cap Layers) \ unwalked[d] : staging.layer[l] = "empty"

LeftInv ==
    kills = 0 /\ ~interrupted /\ trespass = {} /\ staging.exists =>
        \E d \in Drivers : Producing(d) \/ Cleans(d)

-----------------------------------------------------------------------------
(* The ready tree and the training process *)

Active(t) == tpc[t] \notin TrainerEnded \cup {"start"}

PhaseOf(t) ==
    /\ tpc[t] \in {"absent", "start", "validate"} =>
         ~closed[t] /\ ~armed[t] /\ cleaning[t] = "off" /\ at[t] = 1
    /\ cleaning[t] # "off" /\ tpc[t] # "dead" => closed[t] /\ armed[t] /\ Holds(t)
    /\ tpc[t] = "failing" => closed[t] /\ cleaning[t] # "off"
    /\ tpc[t] = "validate" =>
         ready.exists /\ mem[t] = ready.manifest /\ source[t] = ready.inode
    /\ Holds(t) /\ ~closed[t] => armed[t]

PhaseInv ==
    /\ \A t \in Trainers : PhaseOf(t)
    /\ \A t, u \in Trainers : Active(t) /\ Active(u) => t = u

\* The layer that an open store is at, in the tree, in its memory and in the
\* manifest on disk, by the position of the process.
Stands(t, layer, state, disk) ==
    /\ ready.layer[at[t]] = layer
    /\ mem[t][at[t]] = state
    /\ ready.manifest[at[t]] = disk

HoldsTree(t) ==
    /\ ready.exists /\ source[t] = ready.inode /\ ready.lease = NoProcess
    /\ ready.tmp <=> tpc[t] = "replace"
    /\ \A l \in Layers :
         /\ l < at[t] => ready.layer[l] = None /\ mem[t][l] = "consumed"
         /\ l > at[t] => ready.layer[l] = "full" /\ mem[t][l] = "ready"
         /\ l # at[t] /\ tpc[t] # "rmroot" => ready.manifest[l] = mem[t][l]
    /\ tpc[t] \in {"load", "loading", "consume"} => Stands(t, "full", "ready", "ready")
    /\ tpc[t] \in {"write", "replace"} =>
         Stands(t, "full", "consuming", "ready") \/ Stands(t, None, "consumed", "consuming")
    /\ tpc[t] = "unlink" => Stands(t, "full", "consuming", "consuming")
    /\ tpc[t] = "rmdir" => Stands(t, "part", "consuming", "consuming")
    /\ tpc[t] = "finish" => at[t] = NumLayers /\ Stands(t, None, "consumed", "consumed")
    /\ tpc[t] = "rmroot" =>
         /\ at[t] = NumLayers /\ ready.layer[at[t]] = None /\ mem[t][at[t]] = "consumed"
         /\ ready.manifest = NoManifest

HoldInv == \A t \in Trainers : Holds(t) /\ ~closed[t] => HoldsTree(t)

\* A store that is closed cleans its tree up, or its tree is gone for good.
Gone(t) == source[t] # 0 /\ source[t] # ready.inode /\ source[t] # staging.inode
CleanOf(t) ==
    /\ cleaning[t] = "off" => Gone(t)
    /\ cleaning[t] # "off" =>
         /\ ready.exists /\ source[t] = ready.inode /\ ready.lease = NoProcess
         /\ \A l \in Layers : mem[t][l] = "consumed" => ready.layer[l] = None
    /\ cleaning[t] \in {"manifest", "root"} => \A l \in Layers : ready.layer[l] = None
    /\ cleaning[t] = "root" => ready.manifest = NoManifest /\ ~ready.tmp

CleanInv ==
    ~interrupted => \A t \in Trainers : closed[t] /\ tpc[t] # "dead" => CleanOf(t)

ManifestInv ==
    (\A t \in Trainers : ~closed[t]) /\ trespass = {} =>
        \A l \in Layers : ready.manifest[l] = "ready" => ready.layer[l] = "full"

IInv ==
    /\ TypeOK /\ TreeInv
    /\ ChildInv /\ ProducerInv /\ LeftInv
    /\ PhaseInv /\ HoldInv /\ CleanInv
    /\ PublishedComplete /\ ManifestInv

-----------------------------------------------------------------------------
(* Trees and their types *)

\* The parts of TypeOK.
TreeType ==
    /\ staging \in Trees /\ ready \in Trees /\ inodes \in Nat
    /\ ~staging.exists => staging = NoTree
    /\ ~ready.exists => ready = NoTree

DriverPlaces == Ended \cup Cleanups \cup Walks \cup Works \cup {"start", "probe", "check", "mkdir"}
DriverType ==
    /\ pc \in [Drivers -> DriverPlaces]
    /\ probed \in [Drivers -> Processes \cup {NoProcess}]
    /\ listed \in [Drivers -> SUBSET (0 .. NumLayers + 1)]
    /\ unwalked \in [Drivers -> SUBSET Layers]
    /\ plan \in [Drivers -> SUBSET Layers]
    /\ received \in [Drivers -> BOOLEAN]
    /\ wrote \in [Drivers -> 0 .. 2 * NumLayers]
    /\ child \in [Drivers -> {None, "running", "ok", "error", "reaped"}]

TrainerPlaces ==
    TrainerEnded \cup {"start", "validate", "load", "loading", "consume", "write", "replace",
                       "unlink", "rmdir", "finish", "rmroot", "failing"}
TrainerType ==
    /\ tpc \in [Trainers -> TrainerPlaces]
    /\ at \in [Trainers -> Layers]
    /\ mem \in [Trainers -> [Layers -> LayerStates]]
    /\ source \in [Trainers -> 0 .. inodes]
    /\ closed \in [Trainers -> BOOLEAN] /\ armed \in [Trainers -> BOOLEAN]
    /\ cleaning \in [Trainers -> {"off", "layers", "manifest", "root"}]
    /\ ignores \in [Trainers -> BOOLEAN]

HistoryType ==
    /\ kills \in 0 .. MaxKills /\ signals \in 0 .. MaxSignals /\ interrupted \in BOOLEAN
    /\ trespass \subseteq {"reclaim", "cleanup", "atexit", "overlap"}

\* TypeOK is the conjunction of its parts.
LEMMA TypeParts == TypeOK <=> TreeType /\ DriverType /\ TrainerType /\ HistoryType
BY DEF TypeOK, TreeType, DriverType, DriverPlaces, TrainerType, TrainerPlaces, HistoryType

\* The fields of a tree.
TreeOf(n) ==
    [exists : BOOLEAN, layer : [Layers -> {None, "empty", "part", "full"}],
     lease : Processes \cup {NoProcess}, manifest : [Layers -> LayerStates],
     tmp : BOOLEAN, inode : 0 .. n]

\* Two trees with the same fields are the same tree.
LEMMA TreeEqual ==
    ASSUME NEW n, NEW T \in TreeOf(n), NEW U \in TreeOf(n),
           T.exists = U.exists, T.layer = U.layer, T.lease = U.lease,
           T.manifest = U.manifest, T.tmp = U.tmp, T.inode = U.inode
    PROVE  T = U
BY DEF TreeOf

\* A tree of few directories is one of many.
LEMMA TreeGrows ==
    ASSUME NEW n \in Nat, NEW m \in Nat, n <= m, NEW T \in TreeOf(n)
    PROVE  T \in TreeOf(m)
BY DEF TreeOf

\* The empty trees.
LEMMA EmptyFields ==
    ASSUME NEW n \in Nat, NEW m \in Nat, m <= n
    PROVE  /\ EmptyTree(m) \in TreeOf(n)
           /\ EmptyTree(m).exists /\ EmptyTree(m).layer = [l \in Layers |-> None]
           /\ EmptyTree(m).lease = NoProcess /\ EmptyTree(m).manifest = NoManifest
           /\ ~EmptyTree(m).tmp /\ EmptyTree(m).inode = m
           /\ NoTree \in TreeOf(n)
           /\ ~NoTree.exists /\ NoTree.layer = [l \in Layers |-> None]
           /\ NoTree.lease = NoProcess /\ NoTree.manifest = NoManifest
           /\ ~NoTree.tmp /\ NoTree.inode = 0
<1>1. NoManifest \in [Layers -> LayerStates] BY DEF NoManifest, LayerStates, None
<1>2. /\ EmptyTree(0) \in TreeOf(n)
      /\ EmptyTree(0).layer = [l \in Layers |-> None] /\ EmptyTree(0).lease = NoProcess
      /\ EmptyTree(0).manifest = NoManifest /\ ~EmptyTree(0).tmp /\ EmptyTree(0).inode = 0
  BY <1>1 DEF EmptyTree, TreeOf
<1>3. ASSUME NEW T \in TreeOf(n)
      PROVE  LET U == [T EXCEPT !.exists = FALSE] IN
             /\ U \in TreeOf(n) /\ ~U.exists /\ U.layer = T.layer /\ U.lease = T.lease
             /\ U.manifest = T.manifest /\ U.tmp = T.tmp /\ U.inode = T.inode
  BY DEF TreeOf
<1>4. /\ NoTree \in TreeOf(n) /\ ~NoTree.exists
      /\ NoTree.layer = EmptyTree(0).layer /\ NoTree.lease = EmptyTree(0).lease
      /\ NoTree.manifest = EmptyTree(0).manifest /\ NoTree.tmp = EmptyTree(0).tmp
      /\ NoTree.inode = EmptyTree(0).inode
  BY <1>2, <1>3 DEF NoTree
<1>5. /\ EmptyTree(m) \in TreeOf(n) /\ EmptyTree(m).exists
      /\ EmptyTree(m).layer = [l \in Layers |-> None]
      /\ EmptyTree(m).lease = NoProcess /\ EmptyTree(m).manifest = NoManifest
      /\ ~EmptyTree(m).tmp /\ EmptyTree(m).inode = m
  BY <1>1 DEF EmptyTree, TreeOf
<1> QED BY <1>2, <1>4, <1>5

\* A tree with nothing in it is empty.
LEMMA EmptyWhen ==
    ASSUME NEW n \in Nat, NEW T \in TreeOf(n), T.exists, \A l \in Layers : T.layer[l] = None,
           T.lease = NoProcess, T.manifest = NoManifest, ~T.tmp
    PROVE  Empty(T)
<1>1. T.inode \in Nat /\ T.inode <= n BY DEF TreeOf
<1>2. T.exists = TRUE /\ T.tmp = FALSE
  <2>1. T.exists \in BOOLEAN /\ T.tmp \in BOOLEAN BY DEF TreeOf
  <2> QED BY <2>1
<1>3. T.layer = [l \in Layers |-> None] BY DEF TreeOf
<1>4. /\ EmptyTree(T.inode) \in TreeOf(n)
      /\ EmptyTree(T.inode).exists = TRUE
      /\ EmptyTree(T.inode).layer = [l \in Layers |-> None]
      /\ EmptyTree(T.inode).lease = NoProcess /\ EmptyTree(T.inode).manifest = NoManifest
      /\ EmptyTree(T.inode).tmp = FALSE /\ EmptyTree(T.inode).inode = T.inode
  BY <1>1, EmptyFields DEF EmptyTree
<1>5. T = EmptyTree(T.inode) BY <1>2, <1>3, <1>4, TreeEqual
<1> QED BY <1>5 DEF Empty

-----------------------------------------------------------------------------
(* What a step does to the trees *)

\* The trees are trees, and a path without a directory has the empty tree.
LEMMA TreeFacts ==
    ASSUME TypeOK
    PROVE  /\ inodes \in Nat /\ Trees = TreeOf(inodes)
           /\ staging \in TreeOf(inodes) /\ ready \in TreeOf(inodes)
           /\ ~staging.exists => staging = NoTree
           /\ ~ready.exists => ready = NoTree
           /\ NoTree \in TreeOf(inodes) /\ ~NoTree.exists /\ ~NoTree.tmp /\ NoTree.inode = 0
           /\ NoTree.lease = NoProcess /\ NoTree.manifest = NoManifest
           /\ \A l \in Layers : NoTree.layer[l] = None
<1>1. inodes \in Nat BY DEF TypeOK
<1>2. Trees = TreeOf(inodes) BY DEF Trees, TreeOf
<1>3. /\ NoTree \in TreeOf(inodes) /\ ~NoTree.exists /\ ~NoTree.tmp /\ NoTree.inode = 0
      /\ NoTree.lease = NoProcess /\ NoTree.manifest = NoManifest
      /\ NoTree.layer = [l \in Layers |-> None]
  BY <1>1, EmptyFields
<1>4. staging \in Trees /\ ready \in Trees
      /\ (~staging.exists => staging = NoTree) /\ (~ready.exists => ready = NoTree)
  BY DEF TypeOK
<1> QED BY <1>1, <1>2, <1>3, <1>4

\* How a driver changes the two paths: not at all, or it makes the directory,
\* edits the tree, removes it or renames it.
Makes ==
    /\ ~staging.exists /\ staging'.exists /\ ~staging'.tmp
    /\ inodes' = inodes + 1 /\ staging'.inode = inodes' /\ UNCHANGED ready
Edits ==
    /\ staging.exists /\ staging'.exists /\ staging'.tmp = staging.tmp
    /\ staging'.inode = staging.inode /\ UNCHANGED <<ready, inodes>>
Removes == staging' = NoTree /\ UNCHANGED <<ready, inodes>>
Renames ==
    /\ staging.exists /\ ~ready.exists
    /\ ready' = staging /\ staging' = NoTree /\ UNCHANGED inodes
PathStep ==
    \/ UNCHANGED <<staging, ready, inodes>>
    \/ (Makes \/ Edits \/ Removes) /\ staging' \in TreeOf(inodes')
    \/ Renames

\* A layer of a walk
LEMMA WalkLayerPath ==
    ASSUME TypeOK, TreeInv, NEW d \in Drivers, NEW l \in Layers, WalkLayer(d, l)
    PROVE  PathStep
<1>1. CASE UNCHANGED staging
  <2>1. UNCHANGED <<ready, inodes>> BY DEF WalkLayer
  <2> QED BY <1>1, <2>1 DEF PathStep
<1>2. CASE \E s \in {"empty", "part"} :
              staging.layer[l] # None /\ staging' = [staging EXCEPT !.layer[l] = s]
  <2>1. UNCHANGED <<ready, inodes>> BY DEF WalkLayer
  <2>2. PICK s \in {"empty", "part"} :
              staging.layer[l] # None /\ staging' = [staging EXCEPT !.layer[l] = s]
    BY <1>2
  <2>3. staging.exists BY <2>2, TreeFacts
  <2>4. staging' \in TreeOf(inodes) /\ Edits BY <2>1, <2>2, <2>3, TreeFacts DEF Edits, TreeOf
  <2> QED BY <2>1, <2>4 DEF PathStep
<1>3. UNCHANGED staging \/ \E s \in {"empty", "part"} :
              staging.layer[l] # None /\ staging' = [staging EXCEPT !.layer[l] = s]
  BY DEF WalkLayer
<1> QED BY <1>1, <1>2, <1>3

\* What WalkRoot leaves if it does not remove the root.
LEMMA WithoutFields ==
    ASSUME TypeOK, NEW S
    PROVE  /\ Without(S) \in TreeOf(inodes) /\ Without(S).exists = staging.exists
           /\ Without(S).tmp = staging.tmp /\ Without(S).inode = staging.inode
           /\ Without(S).layer = [l \in Layers |-> IF l \in S THEN None ELSE staging.layer[l]]
           /\ Without(S).lease = IF 0 \in S THEN NoProcess ELSE staging.lease
           /\ Without(S).manifest = IF NumLayers + 1 \in S THEN NoManifest ELSE staging.manifest
<1> DEFINE lease == IF 0 \in S THEN NoProcess ELSE staging.lease
           manifest == IF NumLayers + 1 \in S THEN NoManifest ELSE staging.manifest
           layer == [l \in Layers |-> IF l \in S THEN None ELSE staging.layer[l]]
           left == [staging EXCEPT !.lease = lease, !.manifest = manifest, !.layer = layer]
<1>1. staging \in TreeOf(inodes) BY TreeFacts
<1>2. lease \in Processes \cup {NoProcess} BY <1>1 DEF TreeOf
<1>3. manifest \in [Layers -> LayerStates]
  <2>1. NoManifest \in [Layers -> LayerStates] BY DEF NoManifest, LayerStates, None
  <2> QED BY <1>1, <2>1 DEF TreeOf
<1>4. layer \in [Layers -> {None, "empty", "part", "full"}] BY <1>1 DEF TreeOf
<1>5. Without(S) = left BY <1>1 DEF Without, TreeOf
<1> HIDE DEF lease, manifest, layer
<1>6. /\ left \in TreeOf(inodes) /\ left.exists = staging.exists
      /\ left.tmp = staging.tmp /\ left.inode = staging.inode
      /\ left.layer = layer /\ left.lease = lease /\ left.manifest = manifest
  BY <1>1, <1>2, <1>3, <1>4 DEF TreeOf
<1> HIDE DEF left
<1> QED BY <1>5, <1>6 DEF lease, manifest, layer

\* The root of a walk
LEMMA WalkRootPath ==
    ASSUME TypeOK, TreeInv, NEW d \in Drivers, WalkRoot(d)
    PROVE  PathStep
<1>1. UNCHANGED <<ready, inodes>> BY DEF WalkRoot
<1>2. staging' = NoTree \/ \E S : staging' = Without(S) BY DEF WalkRoot
<1>3. CASE staging' = NoTree BY <1>1, <1>3, TreeFacts DEF PathStep, Removes
<1>4. ASSUME NEW S, staging' = Without(S) PROVE PathStep
  <2>1. /\ Without(S) \in TreeOf(inodes) /\ Without(S).exists = staging.exists
        /\ Without(S).tmp = staging.tmp /\ Without(S).inode = staging.inode
    BY WithoutFields
  <2>2. CASE staging.exists BY <1>1, <1>4, <2>1, <2>2 DEF PathStep, Edits
  <2>3. CASE ~staging.exists
    <3>1. staging = NoTree BY <2>3, TreeFacts
    <3>2. /\ Without(S).lease = NoTree.lease /\ Without(S).manifest = NoTree.manifest
          /\ Without(S).layer = NoTree.layer
      <4>1. Without(S).layer = [l \in Layers |-> IF l \in S THEN None ELSE staging.layer[l]]
        BY WithoutFields
      <4>2. NoTree.layer \in [Layers -> {None, "empty", "part", "full"}] BY TreeFacts DEF TreeOf
      <4>3. \A l \in Layers : NoTree.layer[l] = None BY TreeFacts
      <4>4. Without(S).layer = NoTree.layer BY <3>1, <4>1, <4>2, <4>3
      <4> QED BY <3>1, <4>4, WithoutFields, TreeFacts
    <3>3. Without(S) = NoTree BY <2>1, <3>1, <3>2, TreeFacts, TreeEqual
    <3> QED BY <1>1, <1>4, <3>1, <3>3 DEF PathStep
  <2> QED BY <2>2, <2>3
<1> QED BY <1>2, <1>3, <1>4

\* Quotient and remainder of two
LEMMA Halves ==
    ASSUME NEW w \in Nat
    PROVE  w = 2 * (w \div 2) + (w % 2) /\ w % 2 \in 0 .. 1 /\ w \div 2 \in Nat
<1>1. w = 2 * (w \div 2) + (w % 2) OBVIOUS
<1>2. w % 2 \in 0 .. 1 OBVIOUS
<1>3. w \div 2 \in Nat OBVIOUS
<1> QED BY <1>1, <1>2, <1>3

\* A file of the converter
LEMMA ConvertPath ==
    ASSUME TypeOK, TreeInv, NEW d \in Drivers, Convert(d)
    PROVE  /\ PathStep
           /\ staging'.lease = staging.lease /\ staging'.manifest = staging.manifest
           /\ staging.exists => staging'.exists
           /\ wrote[d] < 2 * NumLayers
           /\ \E l \in Layers :
                \/ /\ wrote[d] = 2 * l - 2 /\ staging'.exists
                   /\ staging'.layer = [staging.layer EXCEPT ![l] = "part"]
                \/ /\ wrote[d] = 2 * l - 1 /\ staging.layer[l] = "part"
                   /\ staging'.layer = [staging.layer EXCEPT ![l] = "full"]
                \/ wrote[d] = 2 * l - 1 /\ staging.layer[l] # "part" /\ UNCHANGED <<staging, inodes>>
<1> DEFINE l == wrote[d] \div 2 + 1
           begins == wrote[d] % 2 = 0
<1>1. wrote[d] \in Nat BY DEF TypeOK
<1>2. /\ l \in Layers /\ wrote[d] < 2 * NumLayers
      /\ begins => wrote[d] = 2 * l - 2
      /\ ~begins => wrote[d] = 2 * l - 1
  <2>1. l \in Nat /\ l >= 1 /\ l <= NumLayers BY <1>1 DEF Convert
  <2>2. wrote[d] = 2 * (l - 1) + (wrote[d] % 2) /\ wrote[d] % 2 \in 0 .. 1 
    <3>1. /\ wrote[d] = 2 * (wrote[d] \div 2) + (wrote[d] % 2) /\ wrote[d] % 2 \in 0 .. 1
          /\ wrote[d] \div 2 \in Nat
      BY <1>1, Halves, Zenon
    <3> QED BY <3>1
  <2> QED BY <1>1, <2>1, <2>2, SizeAssumption DEF Layers
<1>3. UNCHANGED ready BY DEF Convert
<1>4. CASE begins
  <2>1. /\ staging' = [staging EXCEPT !.exists = TRUE, !.layer[l] = "part",
                                      !.inode = IF @ = 0 THEN inodes' ELSE @]
        /\ inodes' = IF ~staging.exists THEN inodes + 1 ELSE inodes
    BY <1>4 DEF Convert
  <2>2. /\ inodes \in Nat /\ inodes' \in Nat /\ inodes <= inodes'
        /\ staging \in TreeOf(inodes')
    BY <2>1, TreeFacts, TreeGrows
  <2>3. (IF staging.inode = 0 THEN inodes' ELSE staging.inode) \in 0 .. inodes'
    BY <2>2 DEF TreeOf
  <2>4. /\ staging' \in TreeOf(inodes') /\ staging'.exists
        /\ staging'.layer = [staging.layer EXCEPT ![l] = "part"]
        /\ staging'.lease = staging.lease /\ staging'.manifest = staging.manifest
        /\ staging'.tmp = staging.tmp
        /\ staging'.inode = IF staging.inode = 0 THEN inodes' ELSE staging.inode
    <3> DEFINE n == IF staging.inode = 0 THEN inodes' ELSE staging.inode
               U == [staging EXCEPT !.exists = TRUE, !.layer[l] = "part", !.inode = n]
    <3>1. staging' = U BY <2>1
    <3>2. n \in 0 .. inodes' BY <2>3
    <3> HIDE DEF n, l
    <3>3. /\ U \in TreeOf(inodes') /\ U.exists
          /\ U.layer = [staging.layer EXCEPT ![l] = "part"]
          /\ U.lease = staging.lease /\ U.manifest = staging.manifest
          /\ U.tmp = staging.tmp /\ U.inode = n
      BY <2>2, <3>2 DEF TreeOf
    <3> QED BY <3>1, <3>3 DEF n
  <2>5. PathStep BY <1>3, <2>1, <2>4 DEF PathStep, Makes, Edits, TreeInv
  <2> QED BY <1>2, <1>4, <2>4, <2>5
<1>5. CASE ~begins /\ staging.layer[l] = "part"
  <2>1. staging' = [staging EXCEPT !.layer[l] = "full"] /\ inodes' = inodes
    BY <1>5 DEF Convert
  <2>2. staging.exists BY <1>2, <1>5, TreeFacts DEF None
  <2>3. /\ staging' \in TreeOf(inodes) /\ staging'.exists = staging.exists
        /\ staging'.layer = [staging.layer EXCEPT ![l] = "full"]
        /\ staging'.lease = staging.lease /\ staging'.manifest = staging.manifest
        /\ staging'.tmp = staging.tmp /\ staging'.inode = staging.inode
    BY <2>1, TreeFacts DEF TreeOf
  <2>4. PathStep BY <1>3, <2>1, <2>2, <2>3 DEF PathStep, Edits
  <2> QED BY <1>2, <1>5, <2>2, <2>3, <2>4
<1>6. CASE ~begins /\ staging.layer[l] # "part"
  <2>1. staging' = staging /\ inodes' = inodes BY <1>6 DEF Convert
  <2> QED BY <1>2, <1>3, <1>6, <2>1 DEF PathStep
<1> QED BY <1>4, <1>5, <1>6

\* Every step of a driver is one of these.
LEMMA DriverPath == ASSUME TypeOK, TreeInv, NEW d \in Drivers, DriverNext(d) PROVE PathStep
<1>1. CASE \/ Start(d) \/ Probe(d) \/ ListRoot(d) \/ Check(d) \/ Spawn(d) \/ WaitChild(d)
           \/ Discover(d) \/ Scan(d) \/ DriverSignal(d) \/ DriverKilled(d)
           \/ \E result \in {"ok", "error"} : ConverterExit(d, result)
  BY <1>1 DEF Start, Probe, ListRoot, Check, Spawn, WaitChild, Discover, Scan, DriverSignal,
              DriverKilled, ConverterExit, PathStep
<1>2. CASE Mkdir(d)
  <2>1. CASE staging.exists BY <1>2, <2>1 DEF Mkdir, PathStep
  <2>2. CASE ~staging.exists
    <3>1. staging' = EmptyTree(inodes') /\ inodes' = inodes + 1 /\ UNCHANGED ready
      BY <1>2, <2>2 DEF Mkdir
    <3>2. inodes' \in Nat BY <3>1, TreeFacts
    <3>3. /\ EmptyTree(inodes') \in TreeOf(inodes') /\ EmptyTree(inodes').exists
          /\ ~EmptyTree(inodes').tmp /\ EmptyTree(inodes').inode = inodes'
      BY <3>2, EmptyFields
    <3> QED BY <2>2, <3>1, <3>3 DEF PathStep, Makes
  <2> QED BY <2>1, <2>2
<1>3. CASE WriteLease(d)
  <2>1. CASE ~staging.exists BY <1>3, <2>1 DEF WriteLease, PathStep
  <2>2. CASE staging.exists
    <3> DEFINE v == Process(d, IF pc[d] = "lease" THEN "driver" ELSE "child")
    <3>1. v \in Processes BY DEF Processes
    <3>2. staging' = [staging EXCEPT !.lease = v] /\ UNCHANGED <<ready, inodes>>
      BY <1>3, <2>2 DEF WriteLease
    <3> HIDE DEF v
    <3>3. staging' \in TreeOf(inodes) /\ Edits BY <2>2, <3>1, <3>2, TreeFacts DEF Edits, TreeOf
    <3> QED BY <3>2, <3>3 DEF PathStep
  <2> QED BY <2>1, <2>2
<1>4. CASE Unlease(d)
  <2>1. staging' = [staging EXCEPT !.lease = NoProcess] /\ UNCHANGED <<ready, inodes>>
    BY <1>4 DEF Unlease
  <2>2. /\ staging' \in TreeOf(inodes) /\ staging'.exists = staging.exists
        /\ staging'.layer = staging.layer /\ staging'.lease = NoProcess
        /\ staging'.manifest = staging.manifest
        /\ staging'.tmp = staging.tmp /\ staging'.inode = staging.inode
    BY <2>1, TreeFacts DEF TreeOf
  <2>3. CASE staging.exists BY <2>1, <2>2, <2>3 DEF PathStep, Edits
  <2>4. CASE ~staging.exists
    <3>1. staging' = staging BY <2>2, <2>4, TreeFacts, TreeEqual
    <3> QED BY <2>1, <3>1 DEF PathStep
  <2> QED BY <2>3, <2>4
<1>5. CASE WriteManifest(d)
  <2>1. CASE ~staging.exists BY <1>5, <2>1 DEF WriteManifest, PathStep
  <2>2. CASE staging.exists
    <3> DEFINE v == [l \in Layers |-> IF l \in plan[d] THEN "ready" ELSE None]
    <3>1. v \in [Layers -> LayerStates] BY DEF LayerStates
    <3>2. staging' = [staging EXCEPT !.manifest = v] /\ UNCHANGED <<ready, inodes>>
      BY <1>5, <2>2 DEF WriteManifest
    <3> HIDE DEF v
    <3>3. staging' \in TreeOf(inodes) /\ Edits BY <2>2, <3>1, <3>2, TreeFacts DEF Edits, TreeOf
    <3> QED BY <3>2, <3>3 DEF PathStep
  <2> QED BY <2>1, <2>2
<1>6. CASE Rename(d) BY <1>6 DEF Rename, PathStep, Renames
<1>7. CASE WalkRoot(d) BY <1>7, WalkRootPath
<1>8. CASE \E l \in Layers : WalkLayer(d, l) BY <1>8, WalkLayerPath
<1>9. CASE Convert(d) BY <1>9, ConvertPath
<1> QED BY <1>1, <1>2, <1>3, <1>4, <1>5, <1>6, <1>7, <1>8, <1>9 DEF DriverNext

\* ... which keeps the trees what they are.
LEMMA PathTypes ==
    ASSUME TypeOK, TreeInv, PathStep
    PROVE  TreeType' /\ TreeInv' /\ inodes' >= inodes
<1>1. /\ inodes \in Nat /\ staging.inode \in 0 .. inodes /\ ready.inode \in 0 .. inodes
  BY TreeFacts DEF TreeOf
<1>2. inodes' \in Nat /\ inodes' >= inodes
  BY <1>1 DEF PathStep, Makes, Edits, Removes, Renames
<1>3. Trees' = TreeOf(inodes') BY DEF Trees, TreeOf
<1>4. staging' \in TreeOf(inodes') /\ ready' \in TreeOf(inodes')
  <2>1. CASE UNCHANGED <<staging, ready, inodes>> BY <2>1, TreeFacts
  <2>2. CASE (Makes \/ Edits \/ Removes) /\ staging' \in TreeOf(inodes')
    <3>1. ready' = ready BY <2>2 DEF Makes, Edits, Removes
    <3> QED BY <1>1, <1>2, <2>2, <3>1, TreeFacts, TreeGrows
  <2>3. CASE Renames BY <2>3, TreeFacts DEF Renames
  <2> QED BY <2>1, <2>2, <2>3 DEF PathStep
<1>5. /\ ~staging'.exists => staging' = NoTree
      /\ ~ready'.exists => ready' = NoTree
  BY TreeFacts DEF PathStep, Makes, Edits, Removes, Renames
<1>6. /\ staging'.exists <=> staging'.inode # 0
      /\ ready'.exists <=> ready'.inode # 0
  BY <1>1, TreeFacts DEF TreeInv, PathStep, Makes, Edits, Removes, Renames
<1>7. staging'.exists /\ ready'.exists => staging'.inode # ready'.inode
  BY <1>1, TreeFacts DEF TreeInv, PathStep, Makes, Edits, Removes, Renames
<1>8. ~staging'.tmp
  BY TreeFacts DEF TreeInv, PathStep, Makes, Edits, Removes, Renames
<1> QED BY <1>2, <1>3, <1>4, <1>5, <1>6, <1>7, <1>8 DEF TreeType, TreeInv

-----------------------------------------------------------------------------
(* Drivers: types *)

\* Where a cleanup goes on.
LEMMA AfterFacts ==
    ASSUME TypeOK, NEW d \in Drivers, NEW raises, After(d, raises)
    PROVE  \E p \in {"atexit", "check", "failed"} :
             /\ pc' = [pc EXCEPT ![d] = p]
             /\ pc[d] \in {"cleanup", "cleanup walk"} => p = "atexit"
             /\ pc[d] \notin {"cleanup", "cleanup walk"} => p # "atexit"
             /\ p = "check" => pc[d] = "reclaim walk" /\ ~raises
<1>1. pc \in [Drivers -> DriverPlaces] BY TypeParts DEF DriverType
<1>2. CASE pc[d] \in {"cleanup", "cleanup walk"}
  <2>1. pc' = [pc EXCEPT ![d] = "atexit"] BY <1>1, <1>2 DEF After
  <2> QED BY <1>2, <2>1
<1>3. CASE pc[d] = "reclaim walk" /\ ~raises
  <2>1. pc' = [pc EXCEPT ![d] = "check"] BY <1>1, <1>3 DEF After
  <2> QED BY <1>3, <2>1
<1>4. CASE pc[d] \notin {"cleanup", "cleanup walk"} /\ ~(pc[d] = "reclaim walk" /\ ~raises)
  <2>1. pc' = [pc EXCEPT ![d] = "failed"] BY <1>1, <1>4 DEF After
  <2> QED BY <1>4, <2>1
<1> QED BY <1>2, <1>3, <1>4

\* Where ListRoot goes.
LEMMA ListRootFacts ==
    ASSUME TypeOK, NEW d \in Drivers, ListRoot(d)
    PROVE  \/ /\ staging.exists /\ listed' = [listed EXCEPT ![d] = Entries]
              /\ unwalked' = [unwalked EXCEPT ![d] = Entries \cap Layers]
              /\ \/ pc[d] = "reclaim" /\ pc' = [pc EXCEPT ![d] = "reclaim walk"]
                 \/ pc[d] = "cleanup" /\ pc' = [pc EXCEPT ![d] = "cleanup walk"]
                 \/ pc[d] = "atexit" /\ pc' = [pc EXCEPT ![d] = "atexit walk"]
           \/ /\ ~staging.exists /\ UNCHANGED <<listed, unwalked>>
              /\ \/ pc[d] = "cleanup" /\ pc' = [pc EXCEPT ![d] = "atexit"]
                 \/ pc[d] \in {"reclaim", "atexit"} /\ pc' = [pc EXCEPT ![d] = "failed"]
<1>1. pc \in [Drivers -> DriverPlaces] /\ pc[d] \in {"reclaim", "cleanup", "atexit"}
  BY TypeParts DEF DriverType, ListRoot, Cleanups
<1>2. CASE staging.exists
  <2>1. /\ listed' = [listed EXCEPT ![d] = Entries]
        /\ unwalked' = [unwalked EXCEPT ![d] = Entries \cap Layers]
        /\ pc' = [pc EXCEPT ![d] = CASE @ = "reclaim" -> "reclaim walk"
                                     [] @ = "cleanup" -> "cleanup walk"
                                     [] @ = "atexit"  -> "atexit walk"]
    BY <1>2 DEF ListRoot
  <2>2. CASE pc[d] = "reclaim" BY <1>1, <1>2, <2>1, <2>2
  <2>3. CASE pc[d] = "cleanup" BY <1>1, <1>2, <2>1, <2>3
  <2>4. CASE pc[d] = "atexit" BY <1>1, <1>2, <2>1, <2>4
  <2> QED BY <1>1, <2>2, <2>3, <2>4
<1>3. CASE ~staging.exists
  <2>1. After(d, pc[d] = "reclaim") /\ UNCHANGED <<listed, unwalked>> BY <1>3 DEF ListRoot
  <2>2. PICK p \in {"atexit", "check", "failed"} :
             /\ pc' = [pc EXCEPT ![d] = p]
             /\ pc[d] \in {"cleanup", "cleanup walk"} => p = "atexit"
             /\ pc[d] \notin {"cleanup", "cleanup walk"} => p # "atexit"
             /\ p = "check" => pc[d] = "reclaim walk" /\ ~(pc[d] = "reclaim")
    BY <2>1, AfterFacts
  <2> QED BY <1>1, <1>3, <2>1, <2>2
<1> QED BY <1>2, <1>3

\* The entries of a directory are layers, the lease and the manifest.
LEMMA EntriesType == Entries \subseteq 0 .. NumLayers + 1
BY SizeAssumption DEF Entries, Layers

\* What a deletion may add to the history.
LEMMA DeletesFacts ==
    ASSUME TypeOK, NEW d \in Drivers, Deletes(d), pc[d] \in Cleanups \cup Walks
    PROVE  /\ trespass' \subseteq {"reclaim", "cleanup", "atexit", "overlap"}
           /\ trespass \subseteq trespass'
           /\ trespass' = {} =>
                \A e \in Drivers \ {d} : ~Producing(e) /\ pc[e] \notin Cleanups \cup Walks
<1>1. PICK purpose \in {"reclaim", "cleanup", "atexit"} :
          trespass' = trespass
              \cup (IF \E e \in Drivers \ {d} : Producing(e) THEN {purpose} ELSE {})
              \cup (IF \E e \in Drivers \ {d} : pc[e] \in Cleanups \cup Walks THEN {"overlap"}
                    ELSE {})
  <2>1. CASE pc[d] \in {"reclaim", "reclaim walk"} BY <2>1 DEF Deletes
  <2>2. CASE pc[d] \in {"cleanup", "cleanup walk"} BY <2>2 DEF Deletes
  <2>3. CASE pc[d] \in {"atexit", "atexit walk"} BY <2>3 DEF Deletes
  <2> QED BY <2>1, <2>2, <2>3 DEF Cleanups, Walks
<1>2. trespass \subseteq {"reclaim", "cleanup", "atexit", "overlap"} BY TypeParts DEF HistoryType
<1> QED BY <1>1, <1>2

\* A driver's step concerns itself, and leaves the training processes alone.
Alone(d) ==
    /\ UNCHANGED trainer
    /\ \A e \in Drivers \ {d} :
         /\ pc'[e] = pc[e] /\ child'[e] = child[e] /\ wrote'[e] = wrote[e]
         /\ listed'[e] = listed[e] /\ unwalked'[e] = unwalked[e] /\ plan'[e] = plan[e]
    /\ trespass \subseteq trespass'

\* Every step of a driver keeps the types of the drivers and of the history.
LEMMA DriverTypes ==
    ASSUME TypeOK, TreeInv, NEW d \in Drivers, DriverNext(d)
    PROVE  DriverType' /\ HistoryType' /\ Alone(d)
<1> USE DEF Alone
<1>t. DriverType /\ HistoryType BY TypeParts
<1>1. CASE Start(d)
  <2>1. \E p \in {"check", "failed", "probe"} : pc' = [pc EXCEPT ![d] = p]
    BY <1>1 DEF Start, DriverStep
  <2>2. staging.lease \in Processes \cup {NoProcess} BY TreeFacts DEF TreeOf
  <2> QED BY <1>1, <1>t, <2>1, <2>2
          DEF Start, DriverType, HistoryType, DriverPlaces, Ended, converter, faults
<1>2. CASE Probe(d)
  <2>1. \E p \in {"reclaim", "failed"} : pc' = [pc EXCEPT ![d] = p]
    BY <1>2 DEF Probe, DriverStep
  <2> QED BY <1>2, <1>t, <2>1
          DEF Probe, DriverType, HistoryType, DriverPlaces, Ended, Cleanups, converter, faults
<1>3. CASE ListRoot(d)
  <2>1. \E p \in {"reclaim walk", "cleanup walk", "atexit walk", "atexit", "failed"} :
           pc' = [pc EXCEPT ![d] = p]
    BY <1>3, ListRootFacts
  <2>2. /\ listed' = listed \/ listed' = [listed EXCEPT ![d] = Entries]
        /\ unwalked' = unwalked \/ unwalked' = [unwalked EXCEPT ![d] = Entries \cap Layers]
    BY <1>3, ListRootFacts
  <2>3. /\ listed' \in [Drivers -> SUBSET (0 .. NumLayers + 1)]
        /\ \A e \in Drivers \ {d} : listed'[e] = listed[e]
    BY <1>t, <2>2, EntriesType DEF DriverType
  <2>4. /\ unwalked' \in [Drivers -> SUBSET Layers]
        /\ \A e \in Drivers \ {d} : unwalked'[e] = unwalked[e]
    BY <1>t, <2>2 DEF DriverType
  <2>5. UNCHANGED <<probed, plan, received, converter, trainer, faults, trespass>>
    BY <1>3 DEF ListRoot
  <2>6. pc' \in [Drivers -> DriverPlaces] /\ \A e \in Drivers \ {d} : pc'[e] = pc[e]
    BY <1>t, <2>1 DEF DriverType, DriverPlaces, Ended, Cleanups, Walks
  <2> QED BY <1>t, <2>3, <2>4, <2>5, <2>6 DEF DriverType, HistoryType, converter, faults
<1>4. CASE WalkRoot(d)
  <2>1. \E p \in {"atexit", "check", "failed"} : pc' = [pc EXCEPT ![d] = p]
    BY <1>4, AfterFacts DEF WalkRoot
  <2>2. Deletes(d) /\ pc[d] \in Cleanups \cup Walks BY <1>4 DEF WalkRoot
  <2> QED BY <1>4, <1>t, <2>1, <2>2, DeletesFacts
          DEF WalkRoot, DriverType, HistoryType, DriverPlaces, Ended, Cleanups, converter, faults
<1>5. ASSUME NEW l \in Layers, WalkLayer(d, l) PROVE DriverType' /\ HistoryType' /\ Alone(d)
  <2>1. pc' = pc \/ \E p \in {"atexit", "check", "failed"} : pc' = [pc EXCEPT ![d] = p]
    BY <1>5, AfterFacts DEF WalkLayer
  <2>2. Deletes(d) /\ pc[d] \in Cleanups \cup Walks BY <1>5 DEF WalkLayer
  <2>3. /\ trespass' \subseteq {"reclaim", "cleanup", "atexit", "overlap"}
        /\ trespass \subseteq trespass'
    BY <2>2, DeletesFacts
  <2>4. /\ listed' = listed \/ listed' = [listed EXCEPT ![d] = {}]
        /\ \E W \in SUBSET Layers : unwalked' = [unwalked EXCEPT ![d] = W]
    <3>1. unwalked[d] \in SUBSET Layers BY <1>t DEF DriverType
    <3> QED BY <1>5, <3>1 DEF WalkLayer
  <2> QED BY <1>5, <1>t, <2>1, <2>3, <2>4
          DEF WalkLayer, DriverType, HistoryType, DriverPlaces, Ended, Cleanups, converter, faults
<1>6. CASE Check(d)
  <2>1. \E p \in {"mkdir", "failed"} : pc' = [pc EXCEPT ![d] = p]
    BY <1>6 DEF Check, DriverStep
  <2> QED BY <1>6, <1>t, <2>1
          DEF Check, DriverType, HistoryType, DriverPlaces, Ended, converter, faults
<1>7. CASE Mkdir(d)
  <2>1. \E p \in {"lease", "failed"} : pc' = [pc EXCEPT ![d] = p]
    BY <1>7 DEF Mkdir, DriverStep
  <2> QED BY <1>7, <1>t, <2>1
          DEF Mkdir, DriverType, HistoryType, DriverPlaces, Ended, Works, converter, faults
<1>8. CASE WriteLease(d)
  <2>1. \E p \in {"spawn", "wait", "cleanup", "failed"} : pc' = [pc EXCEPT ![d] = p]
    BY <1>8 DEF WriteLease, OnTree, DriverStep
  <2> QED BY <1>8, <1>t, <2>1
          DEF WriteLease, DriverType, HistoryType, DriverPlaces, Ended, Cleanups, Works, converter,
              faults
<1>9. CASE Spawn(d)
  BY <1>9, <1>t DEF Spawn, DriverStep, DriverType, HistoryType, DriverPlaces, Works, faults
<1>10. CASE WaitChild(d)
  <2>1. \E p \in {"cleanup", "discover"} : pc' = [pc EXCEPT ![d] = p]
    BY <1>10 DEF WaitChild, DriverStep
  <2> QED BY <1>10, <1>t, <2>1
          DEF WaitChild, DriverType, HistoryType, DriverPlaces, Cleanups, Works, faults
<1>11. CASE Discover(d)
  <2>1. \E p \in {"cleanup", "unlease"} : pc' = [pc EXCEPT ![d] = p]
    BY <1>11 DEF Discover, OnTree, DriverStep
  <2> QED BY <1>11, <1>t, <2>1
          DEF Discover, DriverType, HistoryType, DriverPlaces, Cleanups, Works, converter, faults
<1>12. CASE Unlease(d)
  <2>1. \E p \in {"cleanup", "scan"} : pc' = [pc EXCEPT ![d] = p]
    BY <1>12 DEF Unlease, OnTree, DriverStep
  <2> QED BY <1>12, <1>t, <2>1
          DEF Unlease, DriverType, HistoryType, DriverPlaces, Cleanups, Works, converter, faults
<1>13. CASE Scan(d)
  <2>1. \E p \in {"cleanup", "manifest"} : pc' = [pc EXCEPT ![d] = p]
    BY <1>13 DEF Scan, OnTree, DriverStep
  <2> QED BY <1>13, <1>t, <2>1
          DEF Scan, DriverType, HistoryType, DriverPlaces, Cleanups, Works, converter, faults
<1>14. CASE WriteManifest(d)
  <2>1. \E p \in {"cleanup", "rename"} : pc' = [pc EXCEPT ![d] = p]
    BY <1>14 DEF WriteManifest, OnTree, DriverStep
  <2> QED BY <1>14, <1>t, <2>1
          DEF WriteManifest, DriverType, HistoryType, DriverPlaces, Cleanups, Works, converter, faults
<1>15. CASE Rename(d)
  <2>1. \E p \in {"cleanup", "done"} : pc' = [pc EXCEPT ![d] = p]
    BY <1>15 DEF Rename, OnTree, DriverStep
  <2> QED BY <1>15, <1>t, <2>1
          DEF Rename, DriverType, HistoryType, DriverPlaces, Ended, Cleanups, converter, faults
<1>16. CASE DriverSignal(d)
  <2>1. pc' = pc \/ pc' = [pc EXCEPT ![d] = "dead"] BY <1>16 DEF DriverSignal
  <2>2. \/ child' = child \/ child' = [child EXCEPT ![d] = "error"]
    BY <1>16, <1>t DEF DriverSignal, DriverType
  <2>3. received' = received \/ received' = [received EXCEPT ![d] = TRUE]
    BY <1>16 DEF DriverSignal
  <2>4. signals' \in 0 .. MaxSignals BY <1>16, <1>t, BoundAssumption DEF DriverSignal, HistoryType
  <2>5. interrupted' \in BOOLEAN BY <1>16, <1>t, Zenon DEF DriverSignal, HistoryType
  <2> QED BY <1>16, <1>t, <2>1, <2>2, <2>3, <2>4, <2>5
          DEF DriverSignal, DriverType, HistoryType, DriverPlaces, Ended
<1>17. CASE DriverKilled(d)
  <2>1. pc' = [pc EXCEPT ![d] = "dead"] BY <1>17 DEF DriverKilled
  <2>2. child' = child \/ child' = [child EXCEPT ![d] = "reaped"]
    BY <1>17, <1>t DEF DriverKilled, DriverType
  <2>3. kills' \in 0 .. MaxKills BY <1>17, <1>t, BoundAssumption DEF DriverKilled, HistoryType
  <2> QED BY <1>17, <1>t, <2>1, <2>2, <2>3
          DEF DriverKilled, DriverType, HistoryType, DriverPlaces, Ended
<1>18. CASE Convert(d)
  <2>1. wrote[d] \in Nat /\ wrote' = [wrote EXCEPT ![d] = @ + 1] BY <1>18, <1>t DEF Convert, DriverType
  <2>3. wrote[d] < 2 * NumLayers BY <1>18, ConvertPath
  <2>2. wrote' \in [Drivers -> 0 .. 2 * NumLayers] BY <1>t, <2>1, <2>3, SizeAssumption DEF DriverType
  <2> QED BY <1>18, <1>t, <2>1, <2>2 DEF Convert, DriverType, HistoryType, driver, faults
<1>19. ASSUME NEW result \in {"ok", "error"}, ConverterExit(d, result)
       PROVE  DriverType' /\ HistoryType' /\ Alone(d)
  <2>1. \E c \in {"ok", "error", "reaped"} : child' = [child EXCEPT ![d] = c]
    BY <1>19 DEF ConverterExit
  <2> QED BY <1>19, <1>t, <2>1 DEF ConverterExit, DriverType, HistoryType, driver, faults
<1> QED BY <1>1, <1>2, <1>3, <1>4, <1>5, <1>6, <1>7, <1>8, <1>9, <1>10, <1>11, <1>12, <1>13, <1>14,
           <1>15, <1>16, <1>17, <1>18, <1>19 DEF DriverNext

-----------------------------------------------------------------------------
(* Training processes: types *)

\* How a training process changes the ready path.
ReadyStep ==
    \/ UNCHANGED ready
    \/ /\ ready.exists /\ ready'.exists /\ ready'.inode = ready.inode
       /\ ready'.lease = ready.lease /\ ready' \in TreeOf(inodes)
    \/ ready' = NoTree

\* Its steps concern itself, and leave the staging tree and the drivers alone.
Apart(t) ==
    /\ UNCHANGED <<staging, driver, converter, inodes, ignores, trespass>>
    /\ \A u \in Trainers \ {t} :
         /\ tpc'[u] = tpc[u] /\ at'[u] = at[u] /\ mem'[u] = mem[u] /\ source'[u] = source[u]
         /\ closed'[u] = closed[u] /\ armed'[u] = armed[u] /\ cleaning'[u] = cleaning[u]

\* An exception
LEMMA RaiseFacts ==
    ASSUME TypeOK, NEW t \in Trainers, Raise(t)
    PROVE  /\ UNCHANGED <<ready, at, mem, armed>>
           /\ \E p \in {"failed", "failing"} : tpc' = [tpc EXCEPT ![t] = p]
           /\ closed' = closed \/ closed' = [closed EXCEPT ![t] = TRUE]
           /\ cleaning' = cleaning \/ cleaning' = [cleaning EXCEPT ![t] = "layers"]
           /\ closed[t] => tpc'[t] = "failed" /\ UNCHANGED <<closed, cleaning>>
           /\ ~closed[t] => tpc'[t] = "failing" /\ closed'[t] /\ cleaning'[t] = "layers"
<1>1. TrainerType BY TypeParts
<1>2. UNCHANGED <<ready, at, mem, armed>> BY DEF Raise
<1>3. CASE closed[t]
  <2>1. tpc' = [tpc EXCEPT ![t] = "failed"] /\ UNCHANGED <<closed, cleaning>>
    BY <1>3 DEF Raise, Goto
  <2> QED BY <1>1, <1>2, <1>3, <2>1 DEF TrainerType
<1>4. CASE ~closed[t]
  <2>1. /\ tpc' = [tpc EXCEPT ![t] = "failing"] /\ closed' = [closed EXCEPT ![t] = TRUE]
        /\ cleaning' = [cleaning EXCEPT ![t] = "layers"]
    BY <1>4 DEF Raise, Goto
  <2> QED BY <1>1, <1>2, <1>4, <2>1 DEF TrainerType
<1> QED BY <1>3, <1>4

\* The inodes do not change when a training process moves.
LEMMA TrainerFrame ==
    ASSUME TypeOK, NEW t \in Trainers,
           \E p \in TrainerPlaces : tpc' = [tpc EXCEPT ![t] = p],
           UNCHANGED <<source, ignores, inodes>>,
           \E l \in Layers : at' = at \/ at' = [at EXCEPT ![t] = l],
           \E m \in [Layers -> LayerStates] : mem' = mem \/ mem' = [mem EXCEPT ![t] = m],
           \E b \in BOOLEAN : armed' = armed \/ armed' = [armed EXCEPT ![t] = b],
           \E b \in BOOLEAN : closed' = closed \/ closed' = [closed EXCEPT ![t] = b],
           \E c \in {"off", "layers", "manifest", "root"} :
              cleaning' = cleaning \/ cleaning' = [cleaning EXCEPT ![t] = c]
    PROVE  /\ TrainerType'
           /\ \A u \in Trainers \ {t} :
                /\ tpc'[u] = tpc[u] /\ at'[u] = at[u] /\ mem'[u] = mem[u] /\ source'[u] = source[u]
                /\ closed'[u] = closed[u] /\ armed'[u] = armed[u] /\ cleaning'[u] = cleaning[u]
<1>1. TrainerType BY TypeParts
<1>2. tpc' \in [Trainers -> TrainerPlaces] /\ \A u \in Trainers \ {t} : tpc'[u] = tpc[u]
  BY <1>1 DEF TrainerType
<1>3. at' \in [Trainers -> Layers] /\ \A u \in Trainers \ {t} : at'[u] = at[u]
  BY <1>1 DEF TrainerType
<1>4. mem' \in [Trainers -> [Layers -> LayerStates]] /\ \A u \in Trainers \ {t} : mem'[u] = mem[u]
  BY <1>1 DEF TrainerType
<1>5. armed' \in [Trainers -> BOOLEAN] /\ \A u \in Trainers \ {t} : armed'[u] = armed[u]
  BY <1>1 DEF TrainerType
<1>6. closed' \in [Trainers -> BOOLEAN] /\ \A u \in Trainers \ {t} : closed'[u] = closed[u]
  BY <1>1 DEF TrainerType
<1>7. /\ cleaning' \in [Trainers -> {"off", "layers", "manifest", "root"}]
      /\ \A u \in Trainers \ {t} : cleaning'[u] = cleaning[u]
  BY <1>1 DEF TrainerType
<1>8. source' \in [Trainers -> 0 .. inodes'] /\ ignores' \in [Trainers -> BOOLEAN]
  BY <1>1 DEF TrainerType
<1> QED BY <1>2, <1>3, <1>4, <1>5, <1>6, <1>7, <1>8 DEF TrainerType

\* The steps of an open store, one by one: what has to be true of the tree for
\* the step to succeed, and what it does then.
Loads(t) ==
    \/ tpc[t] = "load" /\ tpc'[t] = "loading" /\ UNCHANGED <<ready, at, mem>>
    \/ tpc[t] = "loading" /\ tpc'[t] = "consume" /\ UNCHANGED <<ready, at, mem>>
Marks(t) ==
    /\ tpc[t] = "consume" /\ tpc'[t] = "write" /\ ~closed[t] /\ UNCHANGED <<ready, at>>
    /\ mem' = [mem EXCEPT ![t][at[t]] = "consuming"]
Writes(t) ==
    /\ tpc[t] = "write" /\ tpc'[t] = "replace" /\ UNCHANGED <<at, mem>>
    /\ ready.exists /\ ready' = [ready EXCEPT !.tmp = TRUE]
Replaces(t) ==
    /\ tpc[t] = "replace" /\ UNCHANGED mem
    /\ ready.exists /\ ready' = [ready EXCEPT !.tmp = FALSE, !.manifest = mem[t]]
    /\ \/ mem[t][at[t]] = "consuming" /\ tpc'[t] = "unlink" /\ UNCHANGED at
       \/ mem[t][at[t]] # "consuming" /\ at[t] = NumLayers /\ tpc'[t] = "finish" /\ UNCHANGED at
       \/ /\ mem[t][at[t]] # "consuming" /\ at[t] # NumLayers /\ tpc'[t] = "load"
          /\ at' = [at EXCEPT ![t] = @ + 1]
Unlinks(t) ==
    /\ tpc[t] = "unlink" /\ tpc'[t] = "rmdir" /\ UNCHANGED <<at, mem>>
    /\ ready.exists /\ ready' = [ready EXCEPT !.layer[at[t]] = "part"]
RemovesLayer(t) ==
    /\ tpc[t] = "rmdir" /\ tpc'[t] = "write" /\ UNCHANGED at
    /\ ready.exists /\ ready' = [ready EXCEPT !.layer[at[t]] = None]
    /\ mem' = [mem EXCEPT ![t][at[t]] = "consumed"]
Finishes(t) ==
    /\ tpc[t] = "finish" /\ tpc'[t] = "rmroot" /\ UNCHANGED <<at, mem>>
    /\ ready.exists /\ ready' = [ready EXCEPT !.manifest = NoManifest]

StoreStep(t) ==
    /\ cleaning[t] = "off" /\ UNCHANGED <<closed, cleaning, armed>>
    /\ \/ Loads(t) \/ Marks(t) \/ Writes(t) \/ Replaces(t)
       \/ Unlinks(t) \/ RemovesLayer(t) \/ Finishes(t)

StoreActions(t) ==
    \/ LoadBegin(t) \/ LoadEnd(t) \/ Consume(t) \/ WriteTemporary(t) \/ Replace(t) \/ Unlink(t)
    \/ RemoveLayer(t) \/ Finish(t)

StorePlaces == {"load", "loading", "consume", "write", "replace", "unlink", "rmdir", "finish"}

\* Every such action is one of these, or an exception.
LEMMA StoreCases ==
    ASSUME TypeOK, NEW t \in Trainers, StoreActions(t)
    PROVE  /\ UNCHANGED <<staging, driver, converter, source, ignores, inodes, faults, trespass>>
           /\ cleaning[t] = "off" /\ tpc[t] \in StorePlaces
           /\ \/ /\ StoreStep(t)
                 /\ \E p \in {"loading", "consume", "write", "replace", "unlink", "finish", "load",
                              "rmdir", "rmroot"} : tpc' = [tpc EXCEPT ![t] = p]
              \/ Raise(t)
<1>1. TrainerType BY TypeParts
<1>2. CASE LoadBegin(t)
  BY <1>1, <1>2 DEF LoadBegin, Try, TrainerAt, Goto, StoreStep, Loads, StorePlaces, TrainerType
<1>3. CASE LoadEnd(t)
  BY <1>1, <1>3 DEF LoadEnd, Try, TrainerAt, Goto, StoreStep, Loads, StorePlaces, TrainerType
<1>4. CASE Consume(t)
  BY <1>1, <1>4 DEF Consume, Try, TrainerAt, Goto, StoreStep, Marks, StorePlaces, TrainerType
<1>5. CASE WriteTemporary(t)
  BY <1>1, <1>5 DEF WriteTemporary, Try, TrainerAt, Goto, StoreStep, Writes, StorePlaces, TrainerType
<1>6. CASE Replace(t)
  BY <1>1, <1>6 DEF Replace, Try, TrainerAt, Goto, StoreStep, Replaces, StorePlaces, TrainerType
<1>7. CASE Unlink(t)
  BY <1>1, <1>7 DEF Unlink, Try, TrainerAt, Goto, StoreStep, Unlinks, StorePlaces, TrainerType
<1>8. CASE RemoveLayer(t)
  BY <1>1, <1>8 DEF RemoveLayer, Try, TrainerAt, Goto, StoreStep, RemovesLayer, StorePlaces, TrainerType
<1>9. CASE Finish(t)
  BY <1>1, <1>9 DEF Finish, Try, TrainerAt, Goto, StoreStep, Finishes, StorePlaces, TrainerType
<1> QED BY <1>2, <1>3, <1>4, <1>5, <1>6, <1>7, <1>8, <1>9 DEF StoreActions

\* The fields of the ready tree after a step of the store.
LEMMA StoreTree ==
    ASSUME TypeOK, NEW t \in Trainers, StoreStep(t)
    PROVE  /\ ReadyStep /\ ready' \in TreeOf(inodes)
           /\ ready'.exists = ready.exists /\ ready'.inode = ready.inode /\ ready'.lease = ready.lease
           /\ ready'.layer = IF tpc[t] = "unlink" THEN [ready.layer EXCEPT ![at[t]] = "part"]
                             ELSE IF tpc[t] = "rmdir" THEN [ready.layer EXCEPT ![at[t]] = None]
                             ELSE ready.layer
           /\ ready'.manifest = IF tpc[t] = "replace" THEN mem[t]
                                ELSE IF tpc[t] = "finish" THEN NoManifest ELSE ready.manifest
           /\ ready'.tmp = IF tpc[t] = "write" THEN TRUE
                           ELSE IF tpc[t] = "replace" THEN FALSE ELSE ready.tmp
<1>1. ready \in TreeOf(inodes) BY TreeFacts
<1>2. mem[t] \in [Layers -> LayerStates] /\ NoManifest \in [Layers -> LayerStates]
  BY TypeParts DEF TrainerType, NoManifest, LayerStates, None
<1>3. CASE Loads(t) BY <1>1, <1>3 DEF Loads, ReadyStep
<1>4. CASE Marks(t) BY <1>1, <1>4 DEF Marks, ReadyStep
<1>5. CASE Writes(t) BY <1>1, <1>5 DEF Writes, ReadyStep, TreeOf
<1>6. CASE Replaces(t) BY <1>1, <1>2, <1>6 DEF Replaces, ReadyStep, TreeOf
<1>7. CASE Unlinks(t) BY <1>1, <1>7 DEF Unlinks, ReadyStep, TreeOf
<1>8. CASE RemovesLayer(t) BY <1>1, <1>8 DEF RemovesLayer, ReadyStep, TreeOf
<1>9. CASE Finishes(t) BY <1>1, <1>2, <1>9 DEF Finishes, ReadyStep, TreeOf
<1> QED BY <1>3, <1>4, <1>5, <1>6, <1>7, <1>8, <1>9 DEF StoreStep

\* A cleanup
LEMMA CleanTree ==
    ASSUME TypeOK, NEW t \in Trainers, CleanLayers(t) \/ CleanManifest(t)
    PROVE  /\ ReadyStep /\ ready' \in TreeOf(inodes)
           /\ ready'.exists = ready.exists /\ ready'.inode = ready.inode /\ ready'.lease = ready.lease
           /\ \A l \in Layers : ready.layer[l] = None => ready'.layer[l] = None
           /\ cleaning[t] = "manifest" => ready'.manifest = NoManifest /\ ~ready'.tmp
           /\ cleaning'[t] = "manifest" =>
                \A l \in Layers : mem[t][l] # "consumed" => ready.layer[l] = None
<1>1. ready \in TreeOf(inodes) /\ (~ready.exists => ready = NoTree)
      /\ \A l \in Layers : NoTree.layer[l] = None
  BY TreeFacts
<1>2. cleaning \in [Trainers -> {"off", "layers", "manifest", "root"}]
  BY TypeParts DEF TrainerType
<1>3. CASE CleanLayers(t) /\ Listed(t) = {}
  <2>1. ready' = ready /\ cleaning[t] = "layers" BY <1>3 DEF CleanLayers, CleanupStep
  <2> QED BY <1>1, <1>3, <2>1 DEF ReadyStep, Listed
<1>4. CASE CleanLayers(t) /\ Listed(t) # {}
  <2>1. PICK x : ready' = [ready EXCEPT !.layer[x] = IF @ = "full" THEN "part" ELSE None]
    BY <1>4 DEF CleanLayers
  <2>2. cleaning[t] = "layers" /\ cleaning' = [cleaning EXCEPT ![t] = "layers"]
    BY <1>4 DEF CleanLayers, CleanupStep
  <2>3. ready.exists BY <1>1, <1>4 DEF Listed
  <2>4. /\ ready' \in TreeOf(inodes) /\ ready'.exists = ready.exists
        /\ ready'.layer = [ready.layer EXCEPT ![x] = IF @ = "full" THEN "part" ELSE None]
        /\ ready'.inode = ready.inode /\ ready'.lease = ready.lease
    BY <1>1, <2>1 DEF TreeOf
  <2>5. \A l \in Layers : ready.layer[l] = None => ready'.layer[l] = None
    BY <1>1, <2>4 DEF TreeOf, None
  <2> QED BY <1>2, <2>2, <2>3, <2>4, <2>5 DEF ReadyStep
<1>5. CASE CleanManifest(t)
  <2>1. /\ ready' = [ready EXCEPT !.manifest = NoManifest, !.tmp = FALSE]
        /\ cleaning[t] = "manifest" /\ cleaning' = [cleaning EXCEPT ![t] = "root"]
    BY <1>5 DEF CleanManifest, CleanupStep
  <2>2. NoManifest \in [Layers -> LayerStates] BY DEF NoManifest, LayerStates, None
  <2>3. /\ ready' \in TreeOf(inodes) /\ ready'.exists = ready.exists
        /\ ready'.layer = ready.layer /\ ready'.manifest = NoManifest /\ ~ready'.tmp
        /\ ready'.inode = ready.inode /\ ready'.lease = ready.lease
    BY <1>1, <2>1, <2>2 DEF TreeOf
  <2>4. CASE ready.exists BY <1>2, <2>1, <2>3, <2>4 DEF ReadyStep
  <2>5. CASE ~ready.exists
    <3>1. ready'.tmp = ready.tmp /\ ready'.manifest = ready.manifest
      BY <1>1, <2>3, <2>5, TreeFacts DEF TreeOf
    <3>2. ready' = ready BY <1>1, <2>3, <3>1, TreeEqual
    <3> QED BY <1>2, <2>1, <2>3, <3>2 DEF ReadyStep
  <2> QED BY <2>4, <2>5
<1> QED BY <1>3, <1>4, <1>5

\* Every step of a training process keeps the types.
LEMMA TrainerTypes ==
    ASSUME TypeOK, TreeInv, NEW t \in Trainers, TrainerNext(t)
    PROVE  TrainerType' /\ HistoryType' /\ Apart(t) /\ ReadyStep
<1>t. TrainerType /\ HistoryType /\ inodes \in Nat BY TypeParts, TreeFacts
<1>b. TrainerEnded \subseteq TrainerPlaces BY DEF TrainerPlaces
<1>1. CASE StoreActions(t)
  <2>1. UNCHANGED <<staging, driver, converter, source, ignores, inodes, faults, trespass>>
    BY <1>1, StoreCases
  <2>2. CASE Raise(t)
    <3>1. UNCHANGED <<ready, at, mem, armed>> BY <2>2, RaiseFacts
    <3>2. /\ \E p \in TrainerPlaces : tpc' = [tpc EXCEPT ![t] = p]
          /\ \E b \in BOOLEAN : closed' = closed \/ closed' = [closed EXCEPT ![t] = b]
          /\ \E c \in {"off", "layers", "manifest", "root"} :
                cleaning' = cleaning \/ cleaning' = [cleaning EXCEPT ![t] = c]
      BY <2>2, RaiseFacts DEF TrainerPlaces, TrainerEnded
    <3>3. /\ at[t] \in Layers /\ mem[t] \in [Layers -> LayerStates] BY <1>t DEF TrainerType
    <3> QED BY <1>t, <2>1, <3>1, <3>2, <3>3, TrainerFrame DEF Apart, ReadyStep, HistoryType, faults
  <2>3. ASSUME StoreStep(t), NEW q \in {"loading", "consume", "write", "replace", "unlink", "finish",
                                        "load", "rmdir", "rmroot"},
               tpc' = [tpc EXCEPT ![t] = q]
        PROVE  TrainerType' /\ HistoryType' /\ Apart(t) /\ ReadyStep
    <3>1. ReadyStep BY <2>3, StoreTree
    <3>2. \E p \in TrainerPlaces : tpc' = [tpc EXCEPT ![t] = p] BY <2>3 DEF TrainerPlaces
    <3>3. UNCHANGED <<closed, cleaning, armed>> BY <2>3 DEF StoreStep
    <3>4. \E l \in Layers : at' = at \/ at' = [at EXCEPT ![t] = l]
      <4>1. at[t] \in Layers BY <1>t DEF TrainerType
      <4>2. at' = at \/ (at[t] # NumLayers /\ at' = [at EXCEPT ![t] = @ + 1])
        BY <2>3 DEF StoreStep, Loads, Marks, Writes, Replaces, Unlinks, RemovesLayer, Finishes
      <4>3. at[t] # NumLayers => at[t] + 1 \in Layers BY <4>1, SizeAssumption DEF Layers
      <4> QED BY <4>1, <4>2, <4>3
    <3>5. \E m \in [Layers -> LayerStates] : mem' = mem \/ mem' = [mem EXCEPT ![t] = m]
      <4>1. mem[t] \in [Layers -> LayerStates] BY <1>t DEF TrainerType
      <4>2. \/ mem' = mem
            \/ \E s \in {"consuming", "consumed"} : mem' = [mem EXCEPT ![t][at[t]] = s]
        BY <2>3 DEF StoreStep, Loads, Marks, Writes, Replaces, Unlinks, RemovesLayer, Finishes
      <4>3. ASSUME NEW s \in {"consuming", "consumed"}, mem' = [mem EXCEPT ![t][at[t]] = s]
            PROVE  /\ [mem[t] EXCEPT ![at[t]] = s] \in [Layers -> LayerStates]
                   /\ mem' = [mem EXCEPT ![t] = [mem[t] EXCEPT ![at[t]] = s]]
        BY <4>1, <4>3 DEF LayerStates
      <4> QED BY <4>1, <4>2, <4>3
    <3> QED BY <1>t, <2>1, <3>1, <3>2, <3>3, <3>4, <3>5, TrainerFrame DEF Apart, HistoryType, faults
  <2> QED BY <1>1, <2>2, <2>3, StoreCases
<1>2. CASE ReadManifest(t)
  <2>1. /\ UNCHANGED <<staging, ready, driver, converter, at, closed, armed, cleaning, ignores,
                       inodes, faults, trespass>>
        /\ mem' = [mem EXCEPT ![t] = ready.manifest]
        /\ source' = [source EXCEPT ![t] = ready.inode]
        /\ \E p \in TrainerPlaces : tpc' = [tpc EXCEPT ![t] = p]
    BY <1>2 DEF ReadManifest, Goto, TrainerPlaces, TrainerEnded
  <2>2. ready.manifest \in [Layers -> LayerStates] /\ ready.inode \in 0 .. inodes
    BY TreeFacts DEF TreeOf
  <2> QED BY <1>t, <2>1, <2>2 DEF TrainerType, HistoryType, Apart, ReadyStep, faults
<1>3. CASE Validate(t)
  <2>1. /\ UNCHANGED <<staging, ready, driver, converter, at, mem, source, closed, cleaning, ignores,
                       inodes, faults, trespass>>
        /\ \E p \in TrainerPlaces : tpc' = [tpc EXCEPT ![t] = p]
        /\ armed' = [armed EXCEPT ![t] = Intact(t)]
    BY <1>3 DEF Validate, Goto, TrainerPlaces, TrainerEnded
  <2>2. Intact(t) \in BOOLEAN
    <3>1. ready.exists \in BOOLEAN /\ ready.tmp \in BOOLEAN BY TreeFacts DEF TreeOf
    <3> QED BY <3>1, Zenon DEF Intact
  <2> QED BY <1>t, <2>1, <2>2 DEF TrainerType, HistoryType, Apart, ReadyStep, faults
<1>4. CASE RemoveRoot(t)
  <2>1. UNCHANGED <<staging, driver, converter, source, ignores, inodes, faults, trespass>>
    BY <1>4 DEF RemoveRoot
  <2>2. CASE Raise(t)
    <3>1. UNCHANGED <<ready, at, mem, armed>> BY <2>2, RaiseFacts
    <3>2. /\ \E p \in TrainerPlaces : tpc' = [tpc EXCEPT ![t] = p]
          /\ \E b \in BOOLEAN : closed' = closed \/ closed' = [closed EXCEPT ![t] = b]
          /\ \E c \in {"off", "layers", "manifest", "root"} :
                cleaning' = cleaning \/ cleaning' = [cleaning EXCEPT ![t] = c]
      BY <2>2, RaiseFacts DEF TrainerPlaces, TrainerEnded
    <3>3. /\ at[t] \in Layers /\ mem[t] \in [Layers -> LayerStates] BY <1>t DEF TrainerType
    <3> QED BY <1>t, <2>1, <3>1, <3>2, <3>3, TrainerFrame DEF Apart, ReadyStep, HistoryType, faults
  <2>3. CASE ~Raise(t)
    <3>1. /\ ready' = NoTree /\ closed' = [closed EXCEPT ![t] = TRUE]
          /\ armed' = [armed EXCEPT ![t] = FALSE] /\ UNCHANGED <<at, mem, cleaning>>
          /\ tpc' = [tpc EXCEPT ![t] = "success"]
      BY <1>4, <2>3 DEF RemoveRoot, Goto
    <3> QED BY <1>t, <1>b, <2>1, <3>1 DEF Apart, ReadyStep, TrainerType, TrainerEnded, HistoryType, faults
  <2> QED BY <2>2, <2>3
<1>5. CASE CleanLayers(t) \/ CleanManifest(t)
  <2>1. /\ UNCHANGED <<staging, driver, converter, at, mem, source, closed, ignores, inodes, faults,
                       trespass, tpc, armed>>
        /\ \E c \in {"off", "layers", "manifest", "root"} : cleaning' = [cleaning EXCEPT ![t] = c]
    BY <1>5 DEF CleanLayers, CleanManifest, CleanupStep
  <2>2. ReadyStep BY <1>5, CleanTree
  <2> QED BY <1>t, <2>1, <2>2 DEF TrainerType, HistoryType, Apart, faults
<1>6. CASE CleanRoot(t)
  <2>1. /\ UNCHANGED <<staging, driver, converter, at, mem, source, closed, ignores, inodes, faults,
                       trespass>>
        /\ cleaning' = [cleaning EXCEPT ![t] = "off"]
        /\ armed' = [armed EXCEPT ![t] = FALSE]
        /\ ready' = NoTree \/ ready' = ready
    BY <1>6 DEF CleanRoot, CleanupStep
  <2>2. tpc' = tpc \/ tpc' = [tpc EXCEPT ![t] = "failed"] BY <1>6, <1>t DEF CleanRoot, TrainerType
  <2> QED BY <1>t, <1>b, <2>1, <2>2 DEF TrainerType, TrainerEnded, HistoryType, Apart, ReadyStep, faults
<1>7. CASE TrainerSignal(t)
  <2>1. UNCHANGED <<staging, ready, driver, converter, at, mem, source, ignores, kills, inodes, trespass>>
    BY <1>7 DEF TrainerSignal
  <2>2. signals' \in 0 .. MaxSignals BY <1>7, <1>t, BoundAssumption DEF TrainerSignal, HistoryType
  <2>3. interrupted' \in BOOLEAN
    BY <1>7, <1>t, Zenon DEF TrainerSignal, SignalUnarmed, SignalCleanup, SignalAgain, HistoryType
  <2>4. /\ \E p \in TrainerPlaces : tpc' = [tpc EXCEPT ![t] = p]
        /\ \E b \in BOOLEAN : closed' = closed \/ closed' = [closed EXCEPT ![t] = b]
        /\ \E b \in BOOLEAN : armed' = armed \/ armed' = [armed EXCEPT ![t] = b]
        /\ \E c \in {"off", "layers", "manifest", "root"} :
              cleaning' = cleaning \/ cleaning' = [cleaning EXCEPT ![t] = c]
    BY <1>7, <1>t DEF TrainerSignal, SignalUnarmed, SignalCleanup, SignalAgain, Goto, TrainerType,
                      TrainerPlaces, TrainerEnded
  <2>5. at[t] \in Layers /\ mem[t] \in [Layers -> LayerStates] BY <1>t DEF TrainerType
  <2> QED BY <1>t, <2>1, <2>2, <2>3, <2>4, <2>5, TrainerFrame DEF Apart, ReadyStep, HistoryType
<1>8. CASE TrainerKilled(t)
  <2>1. /\ UNCHANGED <<staging, ready, driver, converter, at, mem, source, closed, armed, cleaning,
                       ignores, signals, interrupted, inodes, trespass>>
        /\ tpc' = [tpc EXCEPT ![t] = "dead"]
    BY <1>8 DEF TrainerKilled, Goto
  <2>2. kills' \in 0 .. MaxKills BY <1>8, <1>t, BoundAssumption DEF TrainerKilled, HistoryType
  <2> QED BY <1>t, <1>b, <2>1, <2>2 DEF TrainerType, TrainerEnded, HistoryType, Apart, ReadyStep
<1> QED BY <1>1, <1>2, <1>3, <1>4, <1>5, <1>6, <1>7, <1>8 DEF TrainerNext, StoreActions

-----------------------------------------------------------------------------
(* The trees and the types are kept *)

\* A step of a training process keeps the trees what they are.
LEMMA ReadyTypes ==
    ASSUME TypeOK, TreeInv, ReadyStep, UNCHANGED <<staging, inodes>>
    PROVE  TreeType' /\ TreeInv'
<1>1. Trees' = TreeOf(inodes) BY DEF Trees, TreeOf
<1>2. ready' \in TreeOf(inodes) /\ (~ready'.exists => ready' = NoTree)
  BY TreeFacts DEF ReadyStep
<1>3. (ready'.exists <=> ready'.inode # 0) /\ (staging'.exists /\ ready'.exists => staging'.inode # ready'.inode)
  BY TreeFacts DEF ReadyStep, TreeInv
<1> QED BY <1>1, <1>2, <1>3, TreeFacts DEF TreeType, TreeInv

\* Every step keeps TypeOK and the trees.
LEMMA TypeStep == ASSUME TypeOK, TreeInv, [Next]_vars PROVE (TypeOK /\ TreeInv)'
<1>1. ASSUME NEW d \in Drivers, DriverNext(d) PROVE (TypeOK /\ TreeInv)'
  <2>1. PathStep BY <1>1, DriverPath
  <2>2. TreeType' /\ TreeInv' /\ inodes' >= inodes BY <2>1, PathTypes
  <2>3. DriverType' /\ HistoryType' /\ UNCHANGED trainer BY <1>1, DriverTypes DEF Alone
  <2>4. TrainerType'
    <3>1. TrainerType /\ inodes \in Nat /\ inodes' \in Nat BY <2>2, TypeParts, TreeFacts DEF TreeType
    <3>2. 0 .. inodes \subseteq 0 .. inodes' BY <2>2, <3>1
    <3> QED BY <2>3, <3>1, <3>2 DEF TrainerType, trainer
  <2> QED BY <2>2, <2>3, <2>4
          DEF TypeOK, TreeType, DriverType, DriverPlaces, TrainerType, TrainerPlaces, HistoryType
<1>2. ASSUME NEW t \in Trainers, TrainerNext(t) PROVE (TypeOK /\ TreeInv)'
  <2>1. TrainerType' /\ HistoryType' /\ Apart(t) /\ ReadyStep BY <1>2, TrainerTypes
  <2>2. TreeType' /\ TreeInv' BY <2>1, ReadyTypes DEF Apart
  <2>3. DriverType' BY <2>1, TypeParts DEF Apart, DriverType, driver, converter
  <2> QED BY <2>1, <2>2, <2>3
          DEF TypeOK, TreeType, DriverType, DriverPlaces, TrainerType, TrainerPlaces, HistoryType
<1>3. CASE UNCHANGED vars
  BY <1>3 DEF vars, TypeOK, TreeInv, driver, converter, trainer, faults, Trees
<1> QED BY <1>1, <1>2, <1>3 DEF Next

-----------------------------------------------------------------------------
(* The staging tree *)

\* A converter runs only for a driver that has spawned it, and a driver that
\* publishes has had a converter that wrote everything.
LEMMA ChildStep == ASSUME TypeOK, TreeInv, ChildInv, [Next]_vars PROVE ChildInv'
<1>1. ASSUME NEW d \in Drivers, DriverNext(d) PROVE ChildInv'
  <2>t. /\ pc \in [Drivers -> DriverPlaces]
        /\ wrote \in [Drivers -> 0 .. 2 * NumLayers]
        /\ child \in [Drivers -> {None, "running", "ok", "error", "reaped"}]
    BY TypeParts DEF DriverType
  <2>o. \A e \in Drivers \ {d} : pc'[e] = pc[e] /\ child'[e] = child[e] /\ wrote'[e] = wrote[e]
    BY <1>1, DriverTypes DEF Alone
  <2> DEFINE Own == /\ pc'[d] \in Early => child'[d] = None /\ wrote'[d] = 0
                    /\ child'[d] = "ok" => wrote'[d] = 2 * NumLayers
                    /\ pc'[d] \in Late => child'[d] = "reaped" /\ wrote'[d] = 2 * NumLayers
  <2>i. /\ pc[d] \in Early => child[d] = None /\ wrote[d] = 0
        /\ child[d] = "ok" => wrote[d] = 2 * NumLayers
        /\ pc[d] \in Late => child[d] = "reaped" /\ wrote[d] = 2 * NumLayers
    BY DEF ChildInv
  <2>q. SUFFICES Own BY <2>o DEF ChildInv
  <2>1. CASE Start(d) \/ Probe(d) \/ Check(d) \/ Mkdir(d)
    <3>1. pc[d] \in Early /\ pc'[d] \in Early \cup {"failed"} /\ UNCHANGED converter
      BY <2>1, <2>t DEF Start, Probe, Check, Mkdir, DriverStep, Early
    <3> QED BY <2>i, <3>1 DEF converter, Early, Late, None
  <2>2. CASE ListRoot(d)
    <3>1. UNCHANGED converter BY <2>2 DEF ListRoot
    <3>2. \/ pc[d] = "reclaim" /\ pc'[d] \in {"reclaim walk", "failed"}
          \/ pc'[d] \notin Early \cup Late
      BY <2>2, <2>t, ListRootFacts DEF Early, Late
    <3> QED BY <2>i, <3>1, <3>2 DEF converter, Early, Late
  <2>3. CASE WalkRoot(d) \/ \E l \in Layers : WalkLayer(d, l)
    <3>1. UNCHANGED converter BY <2>3 DEF WalkRoot, WalkLayer
    <3>2. \/ pc' = pc
          \/ pc[d] = "reclaim walk" /\ pc'[d] = "check"
          \/ pc'[d] \in {"atexit", "failed"}
      <4>1. pc' = pc \/ After(d, TRUE) \/ After(d, FALSE) BY <2>3 DEF WalkRoot, WalkLayer
      <4>2. ASSUME NEW raises \in BOOLEAN, After(d, raises)
            PROVE  \E p \in {"atexit", "check", "failed"} :
                      pc' = [pc EXCEPT ![d] = p] /\ (p = "check" => pc[d] = "reclaim walk")
        BY <4>2, AfterFacts
      <4>3. pc' = pc \/ \E p \in {"atexit", "check", "failed"} :
                          pc' = [pc EXCEPT ![d] = p] /\ (p = "check" => pc[d] = "reclaim walk")
        BY <4>1, <4>2
      <4> QED BY <2>t, <4>3
    <3> QED BY <2>i, <3>1, <3>2 DEF converter, Early, Late
  <2>4. CASE WriteLease(d)
    <3>1. /\ UNCHANGED converter /\ pc[d] \in {"lease", "lease2"}
          /\ pc[d] = "lease" => pc'[d] \in {"spawn", "failed"}
          /\ pc[d] = "lease2" => pc'[d] \in {"wait", "cleanup"}
      BY <2>4, <2>t DEF WriteLease, OnTree, DriverStep
    <3> QED BY <2>i, <3>1 DEF converter, Early, Late
  <2>5. CASE Spawn(d)
    BY <2>5, <2>t, <2>i DEF Spawn, DriverStep, Early, Late
  <2>6. CASE WaitChild(d)
    <3>1. /\ child[d] \in {"ok", "error"} /\ child'[d] = "reaped" /\ wrote' = wrote
          /\ pc'[d] \in {"cleanup", "discover"} /\ (pc'[d] = "discover" => child[d] # "error")
      BY <2>6, <2>t DEF WaitChild, DriverStep
    <3> QED BY <2>i, <3>1 DEF Early, Late
  <2>7. CASE Discover(d) \/ Unlease(d) \/ Scan(d) \/ WriteManifest(d) \/ Rename(d)
    <3>1. pc[d] \in Late /\ pc'[d] \in Late \cup {"cleanup", "done"} /\ UNCHANGED converter
      BY <2>7, <2>t DEF Discover, Unlease, Scan, WriteManifest, Rename, OnTree, DriverStep, Late
    <3> QED BY <2>i, <3>1 DEF converter, Early, Late
  <2>8. CASE DriverSignal(d)
    <3>1. /\ pc'[d] = pc[d] \/ pc'[d] = "dead"
          /\ child'[d] = child[d] \/ (child[d] = "running" /\ child'[d] = "error")
          /\ wrote' = wrote
      <4>1. UNCHANGED wrote BY <2>8 DEF DriverSignal
      <4>2. CASE pc[d] \notin Handled BY <2>8, <2>t, <4>1, <4>2 DEF DriverSignal
      <4>3. CASE pc[d] \in Handled /\ child[d] = "running" BY <2>8, <2>t, <4>1, <4>3 DEF DriverSignal
      <4>4. CASE pc[d] \in Handled /\ child[d] # "running" BY <2>8, <2>t, <4>1, <4>4 DEF DriverSignal
      <4> QED BY <4>2, <4>3, <4>4
    <3> QED BY <2>i, <3>1 DEF Early, Late, None
  <2>9. CASE DriverKilled(d)
    <3>1. /\ pc'[d] = "dead" /\ wrote' = wrote
          /\ child'[d] = child[d] \/ child'[d] = "reaped"
      BY <2>9, <2>t DEF DriverKilled
    <3> QED BY <2>i, <3>1 DEF Early, Late
  <2>10. CASE Convert(d)
    <3>1. child[d] = "running" /\ UNCHANGED <<pc, child>> BY <2>10 DEF Convert, driver
    <3> QED BY <2>i, <3>1 DEF None
  <2>11. ASSUME NEW result \in {"ok", "error"}, ConverterExit(d, result) PROVE Own
    <3>1. /\ child[d] = "running" /\ UNCHANGED <<pc, wrote>>
          /\ child'[d] \in {result, "reaped"} /\ (result = "ok" => wrote[d] = 2 * NumLayers)
      BY <2>11, <2>t DEF ConverterExit, driver
    <3> QED BY <2>i, <3>1 DEF None
  <2> HIDE DEF Own
  <2> QED BY <1>1, <2>1, <2>2, <2>3, <2>4, <2>5, <2>6, <2>7, <2>8, <2>9, <2>10, <2>11 DEF DriverNext
<1>2. ASSUME NEW t \in Trainers, TrainerNext(t) PROVE ChildInv'
  <2>1. UNCHANGED <<driver, converter>> BY <1>2, TrainerTypes DEF Apart
  <2> QED BY <2>1 DEF ChildInv, driver, converter
<1>3. CASE UNCHANGED vars BY <1>3 DEF vars, ChildInv, driver, converter
<1> QED BY <1>1, <1>2, <1>3 DEF Next

\* While e produces, another driver neither produces nor touches the tree
\* unless it trespasses.
LEMMA Bystander ==
    ASSUME TypeOK, TreeInv, ProducerInv, NEW d \in Drivers, NEW e \in Drivers, e # d,
           DriverNext(d), trespass' = {}, Producing(e)
    PROVE  UNCHANGED staging /\ ~Producing(d)'
<1>t. /\ pc \in [Drivers -> DriverPlaces]
      /\ child \in [Drivers -> {None, "running", "ok", "error", "reaped"}]
  BY TypeParts DEF DriverType
<1>a. trespass = {} BY DriverTypes DEF Alone
<1>b. staging.exists /\ ~Producing(d) BY <1>a DEF ProducerInv, Produced
<1>c. pc[d] \notin Works /\ child[d] # "running" BY <1>b DEF Producing
<1>1. CASE Start(d) \/ Probe(d) \/ Check(d) \/ Mkdir(d)
  <2>1. UNCHANGED <<staging, child>> /\ pc'[d] \in {"check", "failed", "probe", "reclaim", "mkdir"}
    BY <1>1, <1>b, <1>t DEF Start, Probe, Check, Mkdir, DriverStep, converter
  <2> QED BY <1>c, <2>1 DEF Producing, Works
<1>2. CASE ListRoot(d)
  <2>1. UNCHANGED <<staging, child>> BY <1>2 DEF ListRoot, converter
  <2>2. pc'[d] \in {"reclaim walk", "cleanup walk", "atexit walk", "atexit", "failed"}
    BY <1>2, <1>t, ListRootFacts
  <2> QED BY <1>c, <2>1, <2>2 DEF Producing, Works
<1>3. CASE WalkRoot(d)
  <2>1. Deletes(d) /\ pc[d] \in Cleanups \cup Walks BY <1>3 DEF WalkRoot
  <2> QED BY <2>1, DeletesFacts
<1>4. ASSUME NEW l \in Layers, WalkLayer(d, l) PROVE FALSE
  <2>1. Deletes(d) /\ pc[d] \in Cleanups \cup Walks BY <1>4 DEF WalkLayer
  <2> QED BY <2>1, DeletesFacts
<1>5. CASE DriverKilled(d)
  <2>1. UNCHANGED staging /\ pc'[d] = "dead" /\ child'[d] \in {child[d], "reaped"}
    BY <1>5, <1>t DEF DriverKilled
  <2> QED BY <1>c, <2>1 DEF Producing, Works
<1>6. pc[d] \notin Works => /\ ~WriteLease(d) /\ ~Spawn(d) /\ ~WaitChild(d) /\ ~Discover(d)
                             /\ ~Unlease(d) /\ ~Scan(d) /\ ~WriteManifest(d) /\ ~Rename(d)
  BY DEF WriteLease, Spawn, WaitChild, Discover, Unlease, Scan, WriteManifest, Rename, OnTree,
         DriverStep, Works
<1>7. CASE DriverSignal(d)
  <2>1. pc[d] \notin Handled BY <1>c DEF Handled, Works
  <2>2. UNCHANGED <<staging, child>> /\ pc'[d] = "dead" BY <1>7, <1>t, <2>1 DEF DriverSignal
  <2> QED BY <1>c, <2>2 DEF Producing, Works
<1>8. ~Convert(d) /\ \A result \in {"ok", "error"} : ~ConverterExit(d, result)
  BY <1>c DEF Convert, ConverterExit
<1> QED BY <1>1, <1>2, <1>3, <1>4, <1>5, <1>6, <1>7, <1>8, <1>c DEF DriverNext

\* A converter that has not begun, and one that is through.
LEMMA ProgressEnds ==
    /\ Progress(0) = [l \in Layers |-> None]
    /\ \A l \in Layers : Progress(2 * NumLayers)[l] = "full"
BY SizeAssumption DEF Progress, Layers

\* The next half layer of a converter
LEMMA ProgressNext ==
    ASSUME NEW w \in Nat, NEW l \in Layers
    PROVE  /\ w = 2 * l - 2 => Progress(w + 1) = [Progress(w) EXCEPT ![l] = "part"]
           /\ w = 2 * l - 1 => /\ Progress(w)[l] = "part"
                               /\ Progress(w + 1) = [Progress(w) EXCEPT ![l] = "full"]
<1>1. l \in Nat /\ l > 0 /\ \A k \in Layers : k \in Nat BY SizeAssumption DEF Layers
<1>2. ASSUME w = 2 * l - 2, NEW k \in Layers
      PROVE  Progress(w + 1)[k] = [Progress(w) EXCEPT ![l] = "part"][k]
  <2>1. k \in Nat BY <1>1
  <2>2. 2 * k <= w + 1 <=> 2 * k <= w BY <1>1, <1>2, <2>1
  <2>3. 2 * k = w + 2 <=> k = l BY <1>1, <1>2, <2>1
  <2>4. 2 * k # w + 1 BY <1>1, <1>2, <2>1
  <2>5. k = l => ~(2 * k <= w + 1) BY <1>1, <1>2, <2>1
  <2> QED BY <2>2, <2>3, <2>4, <2>5 DEF Progress
<1>3. ASSUME w = 2 * l - 1, NEW k \in Layers
      PROVE  Progress(w + 1)[k] = [Progress(w) EXCEPT ![l] = "full"][k]
  <2>1. k \in Nat BY <1>1
  <2>2. k # l => (2 * k <= w + 1 <=> 2 * k <= w) BY <1>1, <1>3, <2>1
  <2>3. 2 * k = w + 1 <=> k = l BY <1>1, <1>3, <2>1
  <2>4. 2 * k # w + 2 BY <1>1, <1>3, <2>1
  <2>5. k = l => 2 * k <= w + 1 BY <1>1, <1>3, <2>1
  <2> QED BY <2>2, <2>3, <2>4, <2>5 DEF Progress
<1>4. w = 2 * l - 1 => Progress(w)[l] = "part" BY <1>1 DEF Progress
<1>5. \A n : Progress(n) = [k \in Layers |-> Progress(n)[k]] BY DEF Progress
<1>6. w = 2 * l - 2 => Progress(w + 1) = [Progress(w) EXCEPT ![l] = "part"] BY <1>2, <1>5
<1>7. w = 2 * l - 1 => Progress(w + 1) = [Progress(w) EXCEPT ![l] = "full"] BY <1>3, <1>5
<1> QED BY <1>4, <1>6, <1>7

\* The number of kills only grows, and a signal that interrupted stays one.
LEMMA KillsGrow ==
    ASSUME TypeOK, TreeInv, [Next]_vars
    PROVE  kills \in Nat /\ kills' \in Nat /\ kills' >= kills /\ (interrupted => interrupted')
<1>1. kills \in Nat BY TypeParts, BoundAssumption DEF HistoryType
<1>2. ASSUME NEW d \in Drivers, DriverNext(d)
      PROVE  (kills' = kills \/ kills' = kills + 1) /\ (interrupted => interrupted')
  <2>1. CASE DriverSignal(d)
    <3>1. kills' = kills BY <2>1 DEF DriverSignal
    <3>2. interrupted => interrupted' BY <2>1, Zenon DEF DriverSignal
    <3> QED BY <3>1, <3>2
  <2>2. CASE DriverKilled(d) BY <2>2 DEF DriverKilled
  <2>3. CASE \/ Start(d) \/ Probe(d) \/ ListRoot(d) \/ WalkRoot(d) \/ Check(d) \/ Mkdir(d)
             \/ WriteLease(d) \/ Spawn(d) \/ WaitChild(d) \/ Discover(d) \/ Unlease(d) \/ Scan(d)
             \/ WriteManifest(d) \/ Rename(d) \/ Convert(d)
    <3>1. UNCHANGED faults
      BY <2>3, Zenon DEF Start, Probe, ListRoot, WalkRoot, Check, Mkdir, WriteLease, Spawn, WaitChild,
                         Discover, Unlease, Scan, WriteManifest, Rename, Convert
    <3> QED BY <3>1 DEF faults
  <2>4. ASSUME NEW l \in Layers, WalkLayer(d, l) PROVE UNCHANGED faults BY <2>4 DEF WalkLayer
  <2>5. ASSUME NEW result \in {"ok", "error"}, ConverterExit(d, result) PROVE UNCHANGED faults
    BY <2>5 DEF ConverterExit
  <2>6. CASE UNCHANGED faults BY <2>6 DEF faults
  <2> QED BY <1>2, <2>1, <2>2, <2>3, <2>4, <2>5, <2>6 DEF DriverNext
<1>3. ASSUME NEW t \in Trainers, TrainerNext(t)
      PROVE  (kills' = kills \/ kills' = kills + 1) /\ (interrupted => interrupted')
  <2>1. CASE StoreActions(t) BY <2>1, StoreCases DEF faults
  <2>2. CASE ReadManifest(t) \/ Validate(t) \/ RemoveRoot(t) BY <2>2 DEF ReadManifest, Validate, RemoveRoot, faults
  <2>3. CASE CleanLayers(t) \/ CleanManifest(t) \/ CleanRoot(t)
    BY <2>3 DEF CleanLayers, CleanManifest, CleanRoot, CleanupStep, faults
  <2>4. CASE TrainerSignal(t)
    <3>1. kills' = kills BY <2>4 DEF TrainerSignal
    <3>2. interrupted => interrupted'
      BY <2>4, Zenon DEF TrainerSignal, SignalUnarmed, SignalCleanup, SignalAgain
    <3> QED BY <3>1, <3>2
  <2>5. CASE TrainerKilled(t) BY <2>5 DEF TrainerKilled
  <2> QED BY <1>3, <2>1, <2>2, <2>3, <2>4, <2>5 DEF TrainerNext, StoreActions
<1>4. CASE UNCHANGED vars BY <1>1, <1>4 DEF vars, faults
<1> QED BY <1>1, <1>2, <1>3, <1>4 DEF Next

\* A driver that produces, and whose step leaves it producing, keeps its tree.
OwnTree(d) ==
    /\ staging.exists /\ staging.layer = Progress(wrote[d])
    /\ pc[d] \in Works \cup {"dead"}
    /\ pc[d] = "dead" => kills > 0
    /\ pc[d] \in {"unlease", "scan", "manifest", "rename"} => plan[d] = Layers
    /\ pc[d] \in {"scan", "manifest", "rename"} => staging.lease = NoProcess
    /\ pc[d] = "rename" => staging.manifest = [l \in Layers |-> "ready"]

\* ... step by step.
LEMMA OwnStep ==
    ASSUME TypeOK, TreeInv, ChildInv, NEW d \in Drivers, DriverNext(d),
           Producing(d), OwnTree(d), Producing(d)'
    PROVE  OwnTree(d)'
<1>t. /\ pc \in [Drivers -> DriverPlaces]
      /\ wrote \in [Drivers -> 0 .. 2 * NumLayers]
      /\ plan \in [Drivers -> SUBSET Layers]
      /\ child \in [Drivers -> {None, "running", "ok", "error", "reaped"}]
      /\ kills \in Nat
  BY TypeParts, BoundAssumption DEF DriverType, HistoryType
<1>s. staging \in TreeOf(inodes) BY TreeFacts
<1>w. pc[d] \in Works \cup {"dead"} BY DEF OwnTree
<1>x. /\ ~Start(d) /\ ~Probe(d) /\ ~ListRoot(d) /\ ~WalkRoot(d) /\ ~Check(d) /\ ~Mkdir(d)
      /\ \A l \in Layers : ~WalkLayer(d, l)
  BY <1>w DEF Start, Probe, ListRoot, WalkRoot, Check, Mkdir, WalkLayer, DriverStep, Works, Cleanups,
              Walks
<1>1. CASE WriteLease(d)
  <2> DEFINE v == Process(d, IF pc[d] = "lease" THEN "driver" ELSE "child")
  <2>1. /\ pc'[d] \in {"spawn", "wait"} /\ UNCHANGED <<wrote, plan, kills>>
        /\ staging' = [staging EXCEPT !.lease = v]
    BY <1>1, <1>t DEF WriteLease, OnTree, DriverStep, OwnTree, converter, faults
  <2> HIDE DEF v
  <2>2. staging'.exists /\ staging'.layer = staging.layer BY <1>s, <2>1 DEF TreeOf, OwnTree
  <2> QED BY <2>1, <2>2 DEF OwnTree, Works
<1>2. CASE Spawn(d)
  <2>1. pc'[d] = "lease2" /\ UNCHANGED <<staging, wrote, plan, kills>>
    BY <1>2, <1>t DEF Spawn, DriverStep, faults
  <2> QED BY <2>1 DEF OwnTree, Works
<1>3. CASE WaitChild(d)
  <2>1. pc'[d] \in {"cleanup", "discover"} /\ child'[d] = "reaped" /\ UNCHANGED <<staging, wrote, plan, kills>>
    BY <1>3, <1>t DEF WaitChild, DriverStep, faults
  <2>2. pc'[d] = "discover" BY <2>1 DEF Producing, Works
  <2> QED BY <2>1, <2>2 DEF OwnTree, Works
<1>4. CASE Discover(d)
  <2>1. /\ pc'[d] \in {"cleanup", "unlease"} /\ UNCHANGED <<staging, child, wrote, kills>>
        /\ plan'[d] = Entries \cap Layers /\ pc[d] = "discover"
    BY <1>4, <1>t DEF Discover, OnTree, DriverStep, converter, faults
  <2>2. wrote[d] = 2 * NumLayers BY <2>1 DEF ChildInv, Late
  <2>3. \A l \in Layers : staging.layer[l] = "full" BY <2>2, ProgressEnds DEF OwnTree
  <2>4. Entries \cap Layers = Layers BY <2>3 DEF Entries, None
  <2>5. child[d] = "reaped" BY <2>1 DEF ChildInv, Late
  <2>6. pc'[d] = "unlease" BY <2>1, <2>5 DEF Producing, Works
  <2> QED BY <2>1, <2>4, <2>6 DEF OwnTree, Works
<1>5. CASE Unlease(d)
  <2>1. /\ pc'[d] = "scan" /\ pc[d] = "unlease" /\ UNCHANGED <<wrote, plan, kills>>
        /\ staging' = [staging EXCEPT !.lease = NoProcess]
    BY <1>5, <1>t DEF Unlease, OnTree, DriverStep, OwnTree, converter, faults
  <2>2. staging'.exists /\ staging'.layer = staging.layer /\ staging'.lease = NoProcess
    BY <1>s, <2>1 DEF TreeOf, OwnTree
  <2> QED BY <2>1, <2>2 DEF OwnTree, Works
<1>6. CASE Scan(d)
  <2>1. pc'[d] \in {"manifest", "cleanup"} /\ pc[d] = "scan" /\ UNCHANGED <<staging, child, wrote, plan, kills>>
    BY <1>6, <1>t DEF Scan, OnTree, DriverStep, converter, faults
  <2>2. child[d] = "reaped" BY <2>1 DEF ChildInv, Late
  <2>3. pc'[d] = "manifest" BY <2>1, <2>2 DEF Producing, Works
  <2> QED BY <2>1, <2>3 DEF OwnTree, Works
<1>7. CASE WriteManifest(d)
  <2> DEFINE v == [l \in Layers |-> IF l \in plan[d] THEN "ready" ELSE None]
  <2>1. /\ pc'[d] = "rename" /\ pc[d] = "manifest" /\ UNCHANGED <<wrote, plan, kills>>
        /\ staging' = [staging EXCEPT !.manifest = v]
    BY <1>7, <1>t DEF WriteManifest, OnTree, DriverStep, OwnTree, converter, faults
  <2>2. v = [l \in Layers |-> "ready"] BY <2>1 DEF OwnTree
  <2> HIDE DEF v
  <2>3. /\ staging'.exists /\ staging'.layer = staging.layer /\ staging'.lease = staging.lease
        /\ staging'.manifest = v
    BY <1>s, <2>1 DEF TreeOf, OwnTree
  <2> QED BY <2>1, <2>2, <2>3 DEF OwnTree, Works
<1>8. CASE Rename(d)
  <2>1. pc'[d] \in {"cleanup", "done"} /\ pc[d] = "rename" /\ UNCHANGED child
    BY <1>8, <1>t DEF Rename, OnTree, DriverStep, converter
  <2>2. child[d] = "reaped" BY <2>1 DEF ChildInv, Late
  <2> QED BY <2>1, <2>2 DEF Producing, Works
<1>9. CASE DriverSignal(d)
  <2>1. CASE pc[d] \notin Handled
    <3>1. pc'[d] = "dead" /\ UNCHANGED child BY <1>9, <1>t, <2>1 DEF DriverSignal
    <3>2. pc[d] = "lease" BY <1>9, <1>w, <2>1 DEF DriverSignal, Ended, Ignored
    <3>3. child[d] = None BY <3>2 DEF ChildInv, Early
    <3> QED BY <3>1, <3>3 DEF Producing, Works, None
  <2>2. CASE pc[d] \in Handled
    <3>1. UNCHANGED <<pc, staging, wrote, plan, kills>> BY <1>9, <2>2 DEF DriverSignal
    <3> QED BY <3>1 DEF OwnTree
  <2> QED BY <2>1, <2>2
<1>10. CASE DriverKilled(d)
  <2>1. pc'[d] = "dead" /\ kills' = kills + 1 /\ UNCHANGED <<staging, wrote, plan>>
    BY <1>10, <1>t DEF DriverKilled
  <2> QED BY <1>t, <2>1 DEF OwnTree, Works
<1>11. CASE Convert(d)
  <2>1. /\ child[d] = "running" /\ UNCHANGED <<pc, plan, kills>>
        /\ wrote'[d] = wrote[d] + 1
    BY <1>11, <1>t DEF Convert, driver, faults
  <2>2. PICK l \in Layers :
                \/ /\ wrote[d] = 2 * l - 2 /\ staging'.exists
                   /\ staging'.layer = [staging.layer EXCEPT ![l] = "part"]
                \/ /\ wrote[d] = 2 * l - 1 /\ staging.layer[l] = "part"
                   /\ staging'.layer = [staging.layer EXCEPT ![l] = "full"]
                \/ wrote[d] = 2 * l - 1 /\ staging.layer[l] # "part" /\ UNCHANGED <<staging, inodes>>
    BY <1>11, ConvertPath
  <2>3. /\ staging'.lease = staging.lease /\ staging'.manifest = staging.manifest /\ staging'.exists
    BY <1>11, ConvertPath DEF OwnTree
  <2>4. wrote[d] \in Nat BY <1>t
  <2>5. staging.layer = Progress(wrote[d]) BY DEF OwnTree
  <2>6. staging'.layer = Progress(wrote[d] + 1) BY <2>2, <2>4, <2>5, ProgressNext
  <2> QED BY <2>1, <2>3, <2>6 DEF OwnTree
<1>12. ASSUME NEW result \in {"ok", "error"}, ConverterExit(d, result) PROVE OwnTree(d)'
  <2>1. UNCHANGED <<pc, staging, wrote, plan, kills>> BY <1>12 DEF ConverterExit, driver, faults
  <2> QED BY <2>1 DEF OwnTree
<1> QED BY <1>x, <1>1, <1>2, <1>3, <1>4, <1>5, <1>6, <1>7, <1>8, <1>9, <1>10, <1>11, <1>12 DEF DriverNext

\* A driver begins to produce when it makes the directory.
LEMMA OwnBegin ==
    ASSUME TypeOK, TreeInv, ChildInv, NEW d \in Drivers, DriverNext(d), ~Producing(d), Producing(d)'
    PROVE  ~staging.exists /\ OwnTree(d)'
<1>t. /\ pc \in [Drivers -> DriverPlaces]
      /\ wrote \in [Drivers -> 0 .. 2 * NumLayers]
      /\ child \in [Drivers -> {None, "running", "ok", "error", "reaped"}]
  BY TypeParts DEF DriverType
<1>c. pc[d] \notin Works /\ child[d] # "running" BY DEF Producing
<1>1. Mkdir(d) /\ pc[d] = "mkdir" /\ ~staging.exists /\ pc'[d] = "lease"
  <2>1. pc'[d] \in Works \/ child'[d] = "running" BY DEF Producing
  <2>2. ~Spawn(d) BY <1>c DEF Spawn, DriverStep, Works
  <2>3. ~WriteLease(d) /\ ~WaitChild(d) /\ ~Discover(d) /\ ~Unlease(d) /\ ~Scan(d)
        /\ ~WriteManifest(d) /\ ~Rename(d)
    BY <1>c DEF WriteLease, WaitChild, Discover, Unlease, Scan, WriteManifest, Rename, OnTree,
                DriverStep, Works
  <2>4. ~DriverSignal(d)
    <3>1. pc[d] \notin Handled BY <1>c DEF Handled, Works
    <3> QED BY <1>c, <1>t, <2>1, <3>1 DEF DriverSignal, Works
  <2>5. ~Convert(d) /\ \A result \in {"ok", "error"} : ~ConverterExit(d, result)
    BY <1>c DEF Convert, ConverterExit
  <2>6. ~(Start(d) \/ Probe(d) \/ Check(d))
    BY <1>c, <1>t, <2>1 DEF Start, Probe, Check, DriverStep, Works, converter
  <2>7. ~ListRoot(d)
    <3> SUFFICES ASSUME ListRoot(d) PROVE FALSE OBVIOUS
    <3>1. UNCHANGED child BY DEF ListRoot, converter
    <3>2. pc'[d] \in {"reclaim walk", "cleanup walk", "atexit walk", "atexit", "failed"}
      BY <1>t, ListRootFacts
    <3> QED BY <1>c, <2>1, <3>1, <3>2 DEF Works
  <2>8. ~(WalkRoot(d) \/ \E l \in Layers : WalkLayer(d, l))
    <3> SUFFICES ASSUME WalkRoot(d) \/ \E l \in Layers : WalkLayer(d, l) PROVE FALSE OBVIOUS
    <3>1. UNCHANGED child BY DEF WalkRoot, WalkLayer, converter
    <3>2. pc' = pc \/ After(d, TRUE) \/ After(d, FALSE) BY DEF WalkRoot, WalkLayer
    <3>3. ASSUME NEW raises \in BOOLEAN, After(d, raises) PROVE pc'[d] \in {"atexit", "check", "failed"}
      BY <1>t, <3>3, AfterFacts
    <3> QED BY <1>c, <2>1, <3>1, <3>2, <3>3 DEF Works
  <2>9. ~DriverKilled(d) BY <1>c, <1>t, <2>1 DEF DriverKilled, Works
  <2>10. Mkdir(d) BY <2>2, <2>3, <2>4, <2>5, <2>6, <2>7, <2>8, <2>9 DEF DriverNext
  <2> QED BY <1>c, <1>t, <2>1, <2>10 DEF Mkdir, DriverStep, converter, Works
<1>2. staging' = EmptyTree(inodes') /\ inodes' = inodes + 1 /\ UNCHANGED wrote
  BY <1>1 DEF Mkdir, converter
<1>3. inodes' \in Nat BY <1>2, TreeFacts
<1>4. staging'.exists /\ staging'.layer = [l \in Layers |-> None] BY <1>2, <1>3, EmptyFields
<1>5. wrote[d] = 0 BY <1>1 DEF ChildInv, Early
<1> QED BY <1>1, <1>2, <1>4, <1>5, ProgressEnds DEF OwnTree, Works

\* Every step keeps the producer alone with its tree.
LEMMA ProducerStep ==
    ASSUME TypeOK, TreeInv, ChildInv, ProducerInv, [Next]_vars
    PROVE  ProducerInv'
<1>1. ASSUME NEW d \in Drivers, DriverNext(d), trespass' = {}, NEW e \in Drivers, Producing(e)'
      PROVE  Produced(e)'
  <2>1. trespass = {} BY <1>1, DriverTypes DEF Alone
  <2>2. \A f \in Drivers : Producing(f) => Produced(f) BY <2>1 DEF ProducerInv
  <2>3. \A f \in Drivers \ {d} :
           /\ pc'[f] = pc[f] /\ child'[f] = child[f] /\ wrote'[f] = wrote[f] /\ plan'[f] = plan[f]
           /\ Producing(f)' <=> Producing(f)
    BY <1>1, DriverTypes DEF Alone, Producing
  <2>4. CASE e # d
    <3>1. Producing(e) /\ Produced(e) BY <1>1, <2>2, <2>3, <2>4
    <3>2. UNCHANGED staging /\ ~Producing(d)' BY <1>1, <2>4, <3>1, Bystander
    <3>3. \A f \in Drivers : Producing(f)' => f = e BY <2>3, <3>1, <3>2 DEF Produced
    <3>4. kills > 0 => kills' > 0
      BY <1>1, KillsGrow DEF Next
    <3> QED BY <2>3, <2>4, <3>1, <3>2, <3>3, <3>4 DEF Produced
  <2>5. CASE e = d
    <3>1. OwnTree(d)'
      <4>1. CASE Producing(d)
        <5>1. OwnTree(d) BY <2>2, <4>1 DEF Produced, OwnTree
        <5> QED BY <1>1, <2>5, <4>1, <5>1, OwnStep
      <4>2. CASE ~Producing(d) BY <1>1, <2>5, <4>2, OwnBegin
      <4> QED BY <4>1, <4>2
    <3>2. \A f \in Drivers : Producing(f)' => f = d
      <4>1. SUFFICES ASSUME NEW f \in Drivers, Producing(f)', f # d PROVE FALSE OBVIOUS
      <4>2. Producing(f) BY <2>3, <4>1
      <4>3. ~Producing(d)' BY <1>1, <4>1, <4>2, Bystander
      <4> QED BY <1>1, <2>5, <4>3
    <3> QED BY <2>5, <3>1, <3>2 DEF Produced, OwnTree
  <2> QED BY <2>4, <2>5
<1>2. ASSUME NEW t \in Trainers, TrainerNext(t), trespass' = {}, NEW e \in Drivers, Producing(e)'
      PROVE  Produced(e)'
  <2>1. UNCHANGED <<staging, driver, converter, trespass>> BY <1>2, TrainerTypes DEF Apart
  <2>2. \A f \in Drivers : Producing(f)' <=> Producing(f) BY <2>1 DEF Producing, driver, converter
  <2>3. Produced(e) BY <1>2, <2>1, <2>2 DEF ProducerInv
  <2>4. kills > 0 => kills' > 0 BY <1>2, KillsGrow DEF Next
  <2> QED BY <2>1, <2>2, <2>3, <2>4 DEF Produced, driver, converter
<1>3. CASE UNCHANGED vars
  BY <1>3 DEF vars, ProducerInv, Produced, Producing, driver, converter, faults
<1> QED BY <1>1, <1>2, <1>3 DEF Next, ProducerInv

-----------------------------------------------------------------------------
(* The staging tree does not stay *)

\* A driver that produces goes on, or hands over to its cleanup.
LEMMA OwnEnds ==
    ASSUME TypeOK, TreeInv, NEW d \in Drivers, DriverNext(d), staging.exists, pc[d] \in Works
    PROVE  \/ pc'[d] \in Works \cup {"cleanup"}
           \/ ~staging'.exists \/ kills' # 0 \/ interrupted'
<1>t. pc \in [Drivers -> DriverPlaces] /\ kills \in Nat
  BY TypeParts, BoundAssumption DEF DriverType, HistoryType
<1>x. /\ ~Start(d) /\ ~Probe(d) /\ ~ListRoot(d) /\ ~WalkRoot(d) /\ ~Check(d) /\ ~Mkdir(d)
      /\ \A l \in Layers : ~WalkLayer(d, l)
  BY DEF Start, Probe, ListRoot, WalkRoot, Check, Mkdir, WalkLayer, DriverStep, Works, Cleanups, Walks
<1>1. CASE \/ WriteLease(d) \/ Spawn(d) \/ WaitChild(d) \/ Discover(d) \/ Unlease(d) \/ Scan(d)
           \/ WriteManifest(d)
  BY <1>1, <1>t DEF WriteLease, Spawn, WaitChild, Discover, Unlease, Scan, WriteManifest, OnTree,
                    DriverStep, Works
<1>2. CASE Rename(d)
  <2>1. CASE ready.exists BY <1>2, <1>t, <2>1 DEF Rename, OnTree, DriverStep
  <2>2. CASE ~ready.exists
    <3>1. staging' = NoTree BY <1>2, <2>2 DEF Rename
    <3> QED BY <3>1, TreeFacts
  <2> QED BY <2>1, <2>2
<1>3. CASE DriverSignal(d)
  <2>1. CASE pc[d] \notin Handled
    <3>1. interrupted' BY <1>3, <2>1, Zenon DEF DriverSignal
    <3> QED BY <3>1
  <2>2. CASE pc[d] \in Handled BY <1>3, <2>2 DEF DriverSignal
  <2> QED BY <2>1, <2>2
<1>4. CASE DriverKilled(d) BY <1>4, <1>t DEF DriverKilled
<1>5. CASE Convert(d) \/ \E result \in {"ok", "error"} : ConverterExit(d, result)
  BY <1>5 DEF Convert, ConverterExit, driver
<1> QED BY <1>x, <1>1, <1>2, <1>3, <1>4, <1>5 DEF DriverNext

\* A driver that does not produce makes the directory, deletes in the tree, or
\* leaves it alone.
LEMMA OthersStep ==
    ASSUME TypeOK, TreeInv, NEW d \in Drivers, DriverNext(d), ~Producing(d)
    PROVE  \/ UNCHANGED staging
           \/ Mkdir(d) /\ ~staging.exists
           \/ WalkRoot(d) /\ Deletes(d)
           \/ \E l \in Layers : WalkLayer(d, l) /\ Deletes(d) /\ staging.exists
<1>t. pc \in [Drivers -> DriverPlaces] BY TypeParts DEF DriverType
<1>c. pc[d] \notin Works /\ child[d] # "running" BY DEF Producing
<1>1. CASE Start(d) \/ Probe(d) \/ Check(d) \/ ListRoot(d) \/ DriverSignal(d) \/ DriverKilled(d)
  BY <1>1 DEF Start, Probe, Check, ListRoot, DriverSignal, DriverKilled
<1>2. CASE Mkdir(d) BY <1>2 DEF Mkdir
<1>3. CASE WalkRoot(d) BY <1>3 DEF WalkRoot
<1>4. ASSUME NEW l \in Layers, WalkLayer(d, l)
      PROVE  UNCHANGED staging \/ (WalkLayer(d, l) /\ Deletes(d) /\ staging.exists)
  <2>1. UNCHANGED staging \/ staging.layer[l] # None BY <1>4 DEF WalkLayer
  <2> QED BY <1>4, <2>1, TreeFacts DEF WalkLayer
<1>5. /\ ~WriteLease(d) /\ ~Spawn(d) /\ ~WaitChild(d) /\ ~Discover(d) /\ ~Unlease(d) /\ ~Scan(d)
      /\ ~WriteManifest(d) /\ ~Rename(d) /\ ~Convert(d)
      /\ \A result \in {"ok", "error"} : ~ConverterExit(d, result)
  BY <1>c DEF WriteLease, Spawn, WaitChild, Discover, Unlease, Scan, WriteManifest, Rename, Convert,
              ConverterExit, OnTree, DriverStep, Works
<1> QED BY <1>1, <1>2, <1>3, <1>4, <1>5 DEF DriverNext

\* A cleanup that nobody disturbs removes the tree.
LEMMA CleansStep ==
    ASSUME TypeOK, TreeInv, NEW d \in Drivers, DriverNext(d), staging.exists, Cleans(d),
           \A e \in Drivers : ~Producing(e), kills' = 0, ~interrupted', trespass' = {}
    PROVE  Cleans(d)' \/ ~staging'.exists
<1>t. /\ pc \in [Drivers -> DriverPlaces] /\ listed \in [Drivers -> SUBSET (0 .. NumLayers + 1)]
      /\ unwalked \in [Drivers -> SUBSET Layers] /\ kills \in Nat
  BY TypeParts, BoundAssumption DEF DriverType, HistoryType
<1>s. staging \in TreeOf(inodes) BY TreeFacts
<1>n. /\ 0 \notin Layers /\ NumLayers + 1 \notin Layers /\ Layers \subseteq Nat
  BY SizeAssumption DEF Layers
<1>p. pc[d] \in {"cleanup", "atexit", "cleanup walk", "atexit walk"} BY DEF Cleans
<1>1. CASE ListRoot(d)
  <2>1. /\ UNCHANGED staging /\ pc'[d] \in {"cleanup walk", "atexit walk"}
        /\ listed'[d] = Entries /\ unwalked'[d] = Entries \cap Layers
    BY <1>1, <1>t, <1>p, ListRootFacts DEF ListRoot
  <2>2. Entries' = Entries BY <2>1 DEF Entries
  <2> QED BY <2>1, <2>2 DEF Cleans
<1>2. ASSUME NEW l \in Layers, WalkLayer(d, l) PROVE Cleans(d)'
  <2>1. /\ pc[d] \in {"cleanup walk", "atexit walk"} /\ listed[d] = Entries
        /\ \A m \in (Entries \cap Layers) \ unwalked[d] : staging.layer[m] = "empty"
    BY <1>2 DEF Cleans, WalkLayer, Walks
  <2>2. \A e \in Drivers : child[e] # "running" BY DEF Producing
  <2>3. \A e \in Drivers \ {d} : pc[e] \notin Walks
    <3>1. Deletes(d) /\ pc[d] \in Cleanups \cup Walks BY <1>2 DEF WalkLayer
    <3> QED BY <3>1, DeletesFacts
  <2>4. /\ staging' = IF staging.layer[l] = None THEN staging
                      ELSE [staging EXCEPT !.layer[l] = "empty"]
        /\ unwalked' = [unwalked EXCEPT ![d] = @ \ {l}] /\ UNCHANGED <<pc, listed>>
    BY <1>2, <2>2, <2>3 DEF WalkLayer
  <2>5. /\ staging'.layer = IF staging.layer[l] = None THEN staging.layer
                            ELSE [staging.layer EXCEPT ![l] = "empty"]
        /\ staging'.lease = staging.lease /\ staging'.manifest = staging.manifest
    BY <1>s, <2>4 DEF TreeOf
  <2>6. staging.layer \in [Layers -> {None, "empty", "part", "full"}] BY <1>s DEF TreeOf
  <2>7. Entries' = Entries BY <1>n, <2>5, <2>6 DEF Entries, None
  <2>8. unwalked'[d] = unwalked[d] \ {l} BY <1>t, <2>4
  <2>9. \A m \in (Entries \cap Layers) \ unwalked'[d] : staging'.layer[m] = "empty"
    <3> SUFFICES ASSUME NEW m \in (Entries \cap Layers) \ unwalked'[d]
                 PROVE  staging'.layer[m] = "empty"
      OBVIOUS
    <3>1. staging.layer[m] # None BY <1>n DEF Entries
    <3>2. CASE m = l BY <2>5, <2>6, <3>1, <3>2
    <3>3. CASE m # l BY <2>1, <2>5, <2>6, <2>8, <3>3
    <3> QED BY <3>2, <3>3
  <2> QED BY <2>1, <2>4, <2>7, <2>9 DEF Cleans
<1>3. CASE WalkRoot(d)
  <2>1. /\ pc[d] \in Walks /\ listed[d] = Entries
        /\ \A l \in Entries \cap Layers : staging.layer[l] = "empty"
    BY <1>3 DEF Cleans, WalkRoot, Walks
  <2>2. /\ (listed[d] \ Layers) \ Entries = {}
        /\ {l \in listed[d] \cap Layers : staging.layer[l] # "empty"} = {}
    BY <2>1
  <2>3. Empty(Without(Entries)) => staging' = NoTree
    BY <1>3, <2>1, <2>2 DEF WalkRoot
  <2>4. \A l \in Layers : Without(Entries).layer[l] = None
    <3>1. Without(Entries).layer = [l \in Layers |-> IF l \in Entries THEN None ELSE staging.layer[l]]
      BY WithoutFields
    <3>2. \A l \in Layers : l \notin Entries => staging.layer[l] = None BY DEF Entries
    <3> QED BY <3>1, <3>2
  <2>5. staging.lease # NoProcess => 0 \in Entries BY DEF Entries
  <2>6. staging.manifest # NoManifest => NumLayers + 1 \in Entries BY DEF Entries
  <2>7. Without(Entries).lease = NoProcess /\ Without(Entries).manifest = NoManifest
    BY <2>5, <2>6, WithoutFields
  <2>8. /\ Without(Entries) \in TreeOf(inodes) /\ inodes \in Nat
        /\ Without(Entries).exists /\ ~Without(Entries).tmp
    BY WithoutFields, TreeFacts DEF TreeInv
  <2>9. Empty(Without(Entries)) BY <2>4, <2>7, <2>8, EmptyWhen
  <2> QED BY <2>3, <2>9, TreeFacts
<1>4. ~DriverKilled(d) BY <1>t DEF DriverKilled
<1>5. ~DriverSignal(d)
  <2> SUFFICES ASSUME DriverSignal(d) PROVE FALSE OBVIOUS
  <2>1. pc[d] \notin Handled BY <1>p DEF Handled
  <2> QED BY <2>1, Zenon DEF DriverSignal
<1>6. /\ ~Start(d) /\ ~Probe(d) /\ ~Check(d) /\ ~Mkdir(d)
      /\ ~WriteLease(d) /\ ~Spawn(d) /\ ~WaitChild(d) /\ ~Discover(d) /\ ~Unlease(d) /\ ~Scan(d)
      /\ ~WriteManifest(d) /\ ~Rename(d)
  BY <1>p DEF Start, Probe, Check, Mkdir, WriteLease, Spawn, WaitChild, Discover, Unlease, Scan,
              WriteManifest, Rename, OnTree, DriverStep
<1>7. ~Convert(d) /\ \A result \in {"ok", "error"} : ~ConverterExit(d, result)
  BY DEF Convert, ConverterExit, Producing
<1> QED BY <1>1, <1>2, <1>3, <1>4, <1>5, <1>6, <1>7 DEF DriverNext

\* Every step leaves somebody to remove the tree.
LEMMA LeftStep ==
    ASSUME TypeOK, TreeInv, ChildInv, ProducerInv, LeftInv, [Next]_vars
    PROVE  LeftInv'
<1>k. kills' = 0 => kills = 0 BY KillsGrow
<1>i. ~interrupted' => ~interrupted BY KillsGrow
<1>1. ASSUME NEW d \in Drivers, DriverNext(d), kills' = 0, ~interrupted', trespass' = {}, staging'.exists
      PROVE  \E e \in Drivers : Producing(e)' \/ Cleans(e)'
  <2>1. kills = 0 /\ ~interrupted BY <1>k, <1>i, <1>1
  <2>2. trespass = {} BY <1>1, DriverTypes DEF Alone
  <2>3. \A e \in Drivers \ {d} :
           /\ pc'[e] = pc[e] /\ listed'[e] = listed[e] /\ unwalked'[e] = unwalked[e]
           /\ Producing(e)' <=> Producing(e)
    BY <1>1, DriverTypes DEF Alone, Producing
  <2>4. CASE \E e \in Drivers \ {d} : Producing(e) BY <2>3, <2>4
  <2>5. CASE Producing(d)
    <3>1. Produced(d) BY <2>2, <2>5 DEF ProducerInv
    <3>2. staging.exists /\ pc[d] \in Works BY <2>1, <3>1 DEF Produced
    <3>3. pc'[d] \in Works \cup {"cleanup"} BY <1>1, <3>2, OwnEnds
    <3> QED BY <3>3 DEF Producing, Cleans
  <2>6. CASE ~Producing(d) /\ \A e \in Drivers \ {d} : ~Producing(e)
    <3>1. CASE staging.exists
      <4>1. PICK e \in Drivers : Cleans(e) BY <2>1, <2>2, <2>6, <3>1 DEF LeftInv
      <4>2. CASE e = d BY <1>1, <2>6, <3>1, <4>1, <4>2, CleansStep
      <4>3. CASE e # d
        <5>1. ~Deletes(d) \/ pc[d] \notin Cleanups \cup Walks
          <6>1. pc[e] \in Cleanups \cup Walks BY <4>1 DEF Cleans, Cleanups, Walks
          <6> QED BY <1>1, <4>3, <6>1, DeletesFacts
        <5>2. UNCHANGED staging BY <1>1, <2>6, <3>1, <5>1, OthersStep DEF WalkRoot, WalkLayer
        <5>3. Entries' = Entries BY <5>2 DEF Entries
        <5>4. Cleans(e)' BY <2>3, <4>1, <4>3, <5>2, <5>3 DEF Cleans
        <5> QED BY <5>4
      <4> QED BY <4>2, <4>3
    <3>2. CASE ~staging.exists
      <4>1. Mkdir(d) \/ WalkRoot(d) BY <1>1, <2>6, <3>2, OthersStep
      <4>2. CASE WalkRoot(d)
        <5>1. PICK S : staging' = Without(S) BY <3>2, <4>2 DEF WalkRoot
        <5>2. Without(S).exists = staging.exists BY WithoutFields
        <5> QED BY <1>1, <3>2, <5>1, <5>2
      <4>3. CASE Mkdir(d)
        <5>1. pc \in [Drivers -> DriverPlaces] BY TypeParts DEF DriverType
        <5>2. pc'[d] = "lease" BY <3>2, <4>3, <5>1 DEF Mkdir, DriverStep
        <5> QED BY <5>2 DEF Producing, Works
      <4> QED BY <4>1, <4>2, <4>3
    <3> QED BY <3>1, <3>2
  <2> QED BY <2>4, <2>5, <2>6
<1>2. CASE UNCHANGED <<staging, driver, converter, trespass>>
  BY <1>2, <1>k, <1>i DEF LeftInv, Producing, Cleans, Entries, driver, converter
<1>3. ASSUME NEW t \in Trainers, TrainerNext(t) PROVE UNCHANGED <<staging, driver, converter, trespass>>
  BY <1>3, TrainerTypes DEF Apart
<1>4. CASE UNCHANGED vars BY <1>2, <1>4 DEF vars
<1> QED BY <1>1, <1>2, <1>3, <1>4 DEF Next, LeftInv

-----------------------------------------------------------------------------
(* The ready tree: the drivers *)

\* Only Rename gives the ready path another tree.
LEMMA ReadyByDriver ==
    ASSUME TypeOK, TreeInv, NEW d \in Drivers, DriverNext(d)
    PROVE  /\ UNCHANGED trainer
           /\ interrupted => interrupted'
           /\ trespass \subseteq trespass'
           /\ \/ UNCHANGED ready
              \/ /\ pc[d] = "rename" /\ UNCHANGED trespass
                 /\ staging.exists /\ ~ready.exists /\ ready' = staging /\ staging' = NoTree
<1>1. UNCHANGED trainer /\ trespass \subseteq trespass' BY DriverTypes DEF Alone
<1>2. interrupted => interrupted' BY KillsGrow DEF Next
<1>3. CASE Rename(d) BY <1>1, <1>2, <1>3 DEF Rename, OnTree, DriverStep
<1>4. CASE ~Rename(d)
  <2>1. UNCHANGED ready
    BY <1>4, Zenon DEF DriverNext, Start, Probe, ListRoot, WalkRoot, Check, Mkdir, WalkLayer, WriteLease,
                       Spawn, WaitChild, Discover, Unlease, Scan, WriteManifest, DriverSignal,
                       DriverKilled, Convert, ConverterExit
  <2> QED BY <1>1, <1>2, <2>1
<1> QED BY <1>3, <1>4

\* A tree that is gone does not come back: a new directory has a new inode.
LEMMA GoneByDriver ==
    ASSUME TypeOK, TreeInv, NEW d \in Drivers, DriverNext(d), NEW t \in Trainers, Gone(t)
    PROVE  Gone(t)'
<1>1. source'[t] = source[t] BY DriverTypes DEF Alone, trainer
<1>2. source[t] \in 0 .. inodes /\ inodes \in Nat BY TypeParts, TreeFacts DEF TrainerType
<1>3. PathStep BY DriverPath
<1>4. ready'.inode \in {ready.inode, staging.inode}
  BY <1>3 DEF PathStep, Makes, Edits, Removes, Renames
<1>5. staging'.inode \in {staging.inode, 0, inodes + 1}
  BY <1>3, TreeFacts DEF PathStep, Makes, Edits, Removes, Renames
<1> QED BY <1>1, <1>2, <1>4, <1>5 DEF Gone

\* A driver that publishes a tree publishes a complete one.
LEMMA PublishComplete ==
    ASSUME TypeOK, TreeInv, ChildInv, ProducerInv, trespass = {}, NEW d \in Drivers, pc[d] = "rename"
    PROVE  /\ \A l \in Layers : staging.layer[l] = "full"
           /\ staging = [EmptyTree(staging.inode) EXCEPT !.layer = [l \in Layers |-> "full"],
                                                         !.manifest = [l \in Layers |-> "ready"]]
<1>1. Produced(d) BY DEF ProducerInv, Producing, Works
<1>2. wrote[d] = 2 * NumLayers BY DEF ChildInv, Late
<1>3. \A l \in Layers : staging.layer[l] = "full" BY <1>1, <1>2, ProgressEnds DEF Produced
<1>4. /\ staging.exists /\ staging.lease = NoProcess /\ ~staging.tmp
      /\ staging.manifest = [l \in Layers |-> "ready"]
  BY <1>1 DEF Produced, TreeInv
<1>5. staging \in TreeOf(inodes) /\ inodes \in Nat BY TreeFacts
<1>6. staging.layer = [l \in Layers |-> "full"] BY <1>3, <1>5 DEF TreeOf
<1>7. staging.exists = TRUE /\ staging.tmp = FALSE
  <2>1. staging.exists \in BOOLEAN /\ staging.tmp \in BOOLEAN BY <1>5 DEF TreeOf
  <2> QED BY <1>4, <2>1
<1> DEFINE full == [l \in Layers |-> "full"]
           marks == [l \in Layers |-> "ready"]
           U == [EmptyTree(staging.inode) EXCEPT !.layer = full, !.manifest = marks]
<1>8. full \in [Layers -> {None, "empty", "part", "full"}] /\ marks \in [Layers -> LayerStates]
  BY DEF LayerStates
<1>9. /\ EmptyTree(staging.inode) \in TreeOf(inodes)
      /\ EmptyTree(staging.inode).exists = TRUE /\ EmptyTree(staging.inode).lease = NoProcess
      /\ EmptyTree(staging.inode).tmp = FALSE /\ EmptyTree(staging.inode).inode = staging.inode
  <2>1. staging.inode \in Nat /\ staging.inode <= inodes BY <1>5 DEF TreeOf
  <2> QED BY <1>5, <2>1, EmptyFields DEF EmptyTree
<1>10. staging.layer = full /\ staging.manifest = marks BY <1>4, <1>6
<1> HIDE DEF full, marks
<1>11. /\ U \in TreeOf(inodes) /\ U.exists = TRUE /\ U.layer = full /\ U.lease = NoProcess
       /\ U.manifest = marks /\ U.tmp = FALSE /\ U.inode = staging.inode
  BY <1>8, <1>9 DEF TreeOf
<1>12. staging = U BY <1>4, <1>5, <1>7, <1>10, <1>11, TreeEqual
<1> QED BY <1>3, <1>12 DEF full, marks

\* What has to hold of one training process.
OwnReady(t) ==
    /\ PhaseOf(t)
    /\ Holds(t) /\ ~closed[t] => HoldsTree(t)
    /\ ~interrupted /\ closed[t] /\ tpc[t] # "dead" => CleanOf(t)

ReadyInv ==
    /\ \A t \in Trainers : OwnReady(t)
    /\ \A t, u \in Trainers : Active(t) /\ Active(u) => t = u
    /\ PublishedComplete /\ ManifestInv

\* The parts about the ready tree, taken together.
LEMMA ReadyParts ==
    ReadyInv <=> PhaseInv /\ HoldInv /\ CleanInv /\ PublishedComplete /\ ManifestInv
BY DEF ReadyInv, OwnReady, PhaseInv, HoldInv, CleanInv

\* The steps of the drivers keep them.
LEMMA DriverReady ==
    ASSUME TypeOK, TreeInv, ChildInv, ProducerInv, ReadyInv, NEW d \in Drivers, DriverNext(d)
    PROVE  ReadyInv'
<1>1. /\ UNCHANGED trainer /\ (interrupted => interrupted') /\ (trespass' = {} => trespass = {})
  BY ReadyByDriver
<1>2. \A t \in Trainers : Gone(t) => Gone(t)' BY GoneByDriver
<1>3. \A t, u \in Trainers : Active(t)' /\ Active(u)' => t = u
  BY <1>1 DEF ReadyInv, Active, trainer
<1>4. CASE UNCHANGED ready
  <2>1. ASSUME NEW t \in Trainers PROVE OwnReady(t)'
    <3>1. OwnReady(t) BY DEF ReadyInv
    <3>2. PhaseOf(t)' BY <1>1, <1>4, <3>1 DEF OwnReady, PhaseOf, Holds, trainer
    <3>3. Holds(t)' /\ ~closed'[t] => HoldsTree(t)'
      BY <1>1, <1>4, <3>1 DEF OwnReady, Holds, HoldsTree, Stands, trainer
    <3>4. ~interrupted' /\ closed'[t] /\ tpc'[t] # "dead" => CleanOf(t)'
      <4>1. SUFFICES ASSUME ~interrupted', closed'[t], tpc'[t] # "dead" PROVE CleanOf(t)' OBVIOUS
      <4>2. CleanOf(t) BY <1>1, <3>1, <4>1 DEF OwnReady, trainer
      <4> QED BY <1>1, <1>2, <1>4, <4>2 DEF CleanOf, trainer
    <3> QED BY <3>2, <3>3, <3>4 DEF OwnReady
  <2>2. PublishedComplete' BY <1>1, <1>4 DEF ReadyInv, PublishedComplete, Untouched, trainer
  <2>3. ManifestInv' BY <1>1, <1>4 DEF ReadyInv, ManifestInv, trainer
  <2> QED BY <1>3, <2>1, <2>2, <2>3 DEF ReadyInv
<1>5. CASE /\ pc[d] = "rename" /\ UNCHANGED trespass
           /\ staging.exists /\ ~ready.exists /\ ready' = staging /\ staging' = NoTree
  <2>1. ASSUME NEW t \in Trainers PROVE OwnReady(t)'
    <3>1. OwnReady(t) BY DEF ReadyInv
    <3>2. PhaseOf(t)' BY <1>1, <1>5, <3>1 DEF OwnReady, PhaseOf, Holds, trainer
    <3>3. ~(Holds(t)' /\ ~closed'[t])
      BY <1>1, <1>5, <3>1 DEF OwnReady, Holds, HoldsTree, trainer
    <3>4. ~interrupted' /\ closed'[t] /\ tpc'[t] # "dead" => CleanOf(t)'
      <4>1. SUFFICES ASSUME ~interrupted', closed'[t], tpc'[t] # "dead" PROVE CleanOf(t)' OBVIOUS
      <4>2. CleanOf(t) BY <1>1, <3>1, <4>1 DEF OwnReady, trainer
      <4>3. cleaning[t] = "off" /\ Gone(t) BY <1>5, <4>2 DEF CleanOf
      <4>4. cleaning'[t] = "off" /\ Gone(t)' BY <1>1, <1>2, <4>3 DEF trainer
      <4> QED BY <4>4 DEF CleanOf
    <3> QED BY <3>2, <3>3, <3>4 DEF OwnReady
  <2>2. trespass' = {} => /\ \A l \in Layers : staging.layer[l] = "full"
                          /\ staging = [EmptyTree(staging.inode) EXCEPT
                                          !.layer = [l \in Layers |-> "full"],
                                          !.manifest = [l \in Layers |-> "ready"]]
    BY <1>1, <1>5, PublishComplete
  <2>3. PublishedComplete' BY <1>5, <2>2 DEF PublishedComplete
  <2>4. ManifestInv' BY <1>5, <2>2 DEF ManifestInv
  <2> QED BY <1>3, <2>1, <2>3, <2>4 DEF ReadyInv
<1> QED BY <1>4, <1>5, ReadyByDriver

-----------------------------------------------------------------------------
(* The ready tree: the training processes *)

\* The tree of an open store after a step of the store.
LEMMA HoldsNext ==
    ASSUME TypeOK, NEW t \in Trainers, StoreStep(t), HoldsTree(t), UNCHANGED source,
           tpc[t] \in StorePlaces
    PROVE  HoldsTree(t)'
<1>t. /\ at \in [Trainers -> Layers] /\ mem \in [Trainers -> [Layers -> LayerStates]]
      /\ at[t] \in Layers /\ mem[t] \in [Layers -> LayerStates]
  BY TypeParts DEF TrainerType
<1>n. \A l \in Layers : l \in Int BY DEF Layers
<1>r. /\ ready.layer \in [Layers -> {None, "empty", "part", "full"}]
      /\ ready.manifest \in [Layers -> LayerStates]
      /\ ready.tmp \in BOOLEAN
  BY TreeFacts DEF TreeOf
<1>s. /\ ready'.exists = ready.exists /\ ready'.inode = ready.inode /\ ready'.lease = ready.lease
      /\ ready'.layer = IF tpc[t] = "unlink" THEN [ready.layer EXCEPT ![at[t]] = "part"]
                        ELSE IF tpc[t] = "rmdir" THEN [ready.layer EXCEPT ![at[t]] = None]
                        ELSE ready.layer
      /\ ready'.manifest = IF tpc[t] = "replace" THEN mem[t]
                           ELSE IF tpc[t] = "finish" THEN NoManifest ELSE ready.manifest
      /\ ready'.tmp = IF tpc[t] = "write" THEN TRUE
                      ELSE IF tpc[t] = "replace" THEN FALSE ELSE ready.tmp
  BY StoreTree
<1>e. ready'.exists /\ source'[t] = ready'.inode /\ ready'.lease = NoProcess
  BY <1>s DEF HoldsTree
<1>1. CASE Loads(t)
  <2>1. /\ tpc[t] \in {"load", "loading"} /\ tpc'[t] \in {"loading", "consume"}
        /\ UNCHANGED <<ready, at, mem>>
    BY <1>1 DEF Loads
  <2> QED BY <2>1 DEF HoldsTree, Stands
<1>2. CASE Marks(t)
  <2>1. tpc[t] = "consume" /\ tpc'[t] = "write" /\ UNCHANGED <<ready, at>> BY <1>2 DEF Marks
  <2>2. mem'[t] = [mem[t] EXCEPT ![at[t]] = "consuming"] BY <1>2, <1>t DEF Marks
  <2>3. mem'[t][at[t]] = "consuming" /\ \A l \in Layers : l # at[t] => mem'[t][l] = mem[t][l]
    BY <1>t, <2>2
  <2> QED BY <1>t, <1>n, <2>1, <2>3 DEF HoldsTree, Stands
<1>3. CASE Writes(t)
  <2>1. tpc[t] = "write" /\ tpc'[t] = "replace" /\ UNCHANGED <<at, mem>> BY <1>3 DEF Writes
  <2>2. ready'.layer = ready.layer /\ ready'.manifest = ready.manifest /\ ready'.tmp = TRUE
    BY <1>s, <2>1
  <2> QED BY <1>e, <2>1, <2>2 DEF HoldsTree, Stands
<1>4. CASE Replaces(t)
  <2>1. tpc[t] = "replace" /\ UNCHANGED mem BY <1>4 DEF Replaces
  <2>2. ready'.layer = ready.layer /\ ready'.manifest = mem[t] /\ ready'.tmp = FALSE
    BY <1>s, <2>1
  <2>3. CASE mem[t][at[t]] = "consuming" /\ tpc'[t] = "unlink" /\ UNCHANGED at
    <3>1. ready.layer[at[t]] = "full" BY <2>1, <2>3 DEF HoldsTree, Stands
    <3> QED BY <1>e, <2>1, <2>2, <2>3, <3>1 DEF HoldsTree, Stands
  <2>4. CASE mem[t][at[t]] # "consuming" /\ at[t] = NumLayers /\ tpc'[t] = "finish" /\ UNCHANGED at
    <3>1. ready.layer[at[t]] = None /\ mem[t][at[t]] = "consumed" BY <2>1, <2>4 DEF HoldsTree, Stands
    <3> QED BY <1>e, <2>1, <2>2, <2>4, <3>1 DEF HoldsTree, Stands
  <2>5. CASE /\ mem[t][at[t]] # "consuming" /\ at[t] # NumLayers /\ tpc'[t] = "load"
             /\ at' = [at EXCEPT ![t] = @ + 1]
    <3>1. ready.layer[at[t]] = None /\ mem[t][at[t]] = "consumed" BY <2>1, <2>5 DEF HoldsTree, Stands
    <3>2. at'[t] = at[t] + 1 /\ at'[t] \in Layers BY <1>t, <2>5, SizeAssumption DEF Layers
    <3>3. ready.layer[at'[t]] = "full" /\ mem[t][at'[t]] = "ready" BY <1>t, <1>n, <3>2 DEF HoldsTree
    <3>4. \A l \in Layers : /\ l < at'[t] => l < at[t] \/ l = at[t]
                            /\ l > at'[t] => l > at[t]
      <4>1. at[t] \in Int BY <1>t, <1>n
      <4> QED BY <1>n, <3>2, <4>1
    <3>5. \A l \in Layers : /\ l < at'[t] => ready.layer[l] = None /\ mem[t][l] = "consumed"
                            /\ l > at'[t] => ready.layer[l] = "full" /\ mem[t][l] = "ready"
      BY <3>1, <3>4 DEF HoldsTree
    <3> QED BY <1>e, <2>1, <2>2, <2>5, <3>3, <3>5 DEF HoldsTree, Stands
  <2> QED BY <1>4, <2>3, <2>4, <2>5 DEF Replaces
<1>5. CASE Unlinks(t)
  <2>1. tpc[t] = "unlink" /\ tpc'[t] = "rmdir" /\ UNCHANGED <<at, mem>> BY <1>5 DEF Unlinks
  <2>2. /\ ready'.layer = [ready.layer EXCEPT ![at[t]] = "part"]
        /\ ready'.manifest = ready.manifest /\ ready'.tmp = ready.tmp
    BY <1>s, <2>1
  <2>3. ready'.layer[at[t]] = "part" /\ \A l \in Layers : l # at[t] => ready'.layer[l] = ready.layer[l]
    BY <1>t, <1>r, <2>2
  <2> QED BY <1>e, <1>t, <1>n, <2>1, <2>2, <2>3 DEF HoldsTree, Stands
<1>6. CASE RemovesLayer(t)
  <2>1. tpc[t] = "rmdir" /\ tpc'[t] = "write" /\ UNCHANGED at BY <1>6 DEF RemovesLayer
  <2>2. /\ ready'.layer = [ready.layer EXCEPT ![at[t]] = None]
        /\ ready'.manifest = ready.manifest /\ ready'.tmp = ready.tmp
    BY <1>s, <2>1
  <2>3. ready'.layer[at[t]] = None /\ \A l \in Layers : l # at[t] => ready'.layer[l] = ready.layer[l]
    BY <1>t, <1>r, <2>2
  <2>4. mem'[t] = [mem[t] EXCEPT ![at[t]] = "consumed"] BY <1>6, <1>t DEF RemovesLayer
  <2>5. mem'[t][at[t]] = "consumed" /\ \A l \in Layers : l # at[t] => mem'[t][l] = mem[t][l]
    BY <1>t, <2>4
  <2> QED BY <1>e, <1>t, <1>n, <2>1, <2>2, <2>3, <2>5 DEF HoldsTree, Stands
<1>7. CASE Finishes(t)
  <2>1. tpc[t] = "finish" /\ tpc'[t] = "rmroot" /\ UNCHANGED <<at, mem>> BY <1>7 DEF Finishes
  <2>2. ready'.layer = ready.layer /\ ready'.manifest = NoManifest /\ ready'.tmp = ready.tmp
    BY <1>s, <2>1
  <2> QED BY <1>e, <2>1, <2>2 DEF HoldsTree, Stands
<1> QED BY <1>1, <1>2, <1>3, <1>4, <1>5, <1>6, <1>7 DEF StoreStep

\* A store that is closed begins its cleanup with a tree that it knows.
LEMMA CloseHeld ==
    ASSUME TypeOK, NEW t \in Trainers, HoldsTree(t), Holds(t), tpc[t] # "failing",
           UNCHANGED <<ready, mem, source>>, cleaning'[t] = "layers"
    PROVE  CleanOf(t)'
<1>1. at[t] \in Layers /\ \A l \in Layers : l \in Int BY TypeParts DEF TrainerType, Layers
<1>2. tpc[t] \in {"load", "loading", "consume", "write", "replace", "unlink", "rmdir", "finish", "rmroot"}
  <2>1. tpc[t] \in TrainerPlaces BY TypeParts DEF TrainerType
  <2> QED BY <2>1 DEF Holds, TrainerPlaces
<1>3. mem[t][at[t]] = "consumed" => ready.layer[at[t]] = None BY <1>2 DEF HoldsTree, Stands
<1>4. \A l \in Layers : mem[t][l] = "consumed" => ready.layer[l] = None
  <2>1. ASSUME NEW l \in Layers, mem[t][l] = "consumed" PROVE ready.layer[l] = None
    <3>1. l < at[t] \/ l = at[t] \/ l > at[t] BY <1>1
    <3> QED BY <1>3, <2>1, <3>1 DEF HoldsTree
  <2> QED BY <2>1
<1>5. ready.exists /\ source[t] = ready.inode /\ ready.lease = NoProcess BY DEF HoldsTree
<1> QED BY <1>4, <1>5 DEF CleanOf

\* A tree that is removed is gone.
LEMMA GoneNow ==
    ASSUME TypeOK, TreeInv, NEW t \in Trainers, ready.exists /\ source[t] = ready.inode,
           ready' = NoTree, UNCHANGED <<staging, source>>
    PROVE  Gone(t)'
<1>1. ready'.inode = 0 BY TreeFacts
<1>2. source[t] # 0 /\ source[t] # staging.inode BY DEF TreeInv
<1> QED BY <1>1, <1>2 DEF Gone

\* ... and stays gone.
LEMMA GoneByTrainer ==
    ASSUME TypeOK, TreeInv, NEW t \in Trainers, NEW u \in Trainers, TrainerNext(t), Gone(u),
           source'[u] = source[u]
    PROVE  Gone(u)'
<1>1. ReadyStep /\ UNCHANGED staging BY TrainerTypes DEF Apart
<1>2. ready'.inode \in {ready.inode, 0} BY <1>1, TreeFacts DEF ReadyStep
<1> QED BY <1>1, <1>2 DEF Gone

\* An exception in an open store starts the cleanup, in a closed one it ends
\* the process.
LEMMA RaiseReady ==
    ASSUME TypeOK, TreeInv, NEW t \in Trainers, OwnReady(t), Raise(t), cleaning[t] = "off",
           Holds(t), UNCHANGED <<staging, source, interrupted>>
    PROVE  OwnReady(t)'
<1>1. UNCHANGED <<ready, at, mem, armed>> BY RaiseFacts
<1>2. CASE closed[t]
  <2>1. tpc'[t] = "failed" /\ UNCHANGED <<closed, cleaning>> BY <1>2, RaiseFacts
  <2>2. PhaseOf(t)'
    <3>1. cleaning'[t] = "off" BY <2>1
    <3>2. ~Holds(t)' BY <2>1 DEF Holds, TrainerEnded
    <3> QED BY <2>1, <3>1, <3>2 DEF PhaseOf
  <2>3. ~Holds(t)' BY <2>1 DEF Holds, TrainerEnded
  <2>4. ~interrupted => Gone(t) BY <1>2 DEF OwnReady, CleanOf, Holds, TrainerEnded
  <2>5. ~interrupted' => CleanOf(t)' BY <1>1, <2>1, <2>4 DEF CleanOf, Gone
  <2> QED BY <2>2, <2>3, <2>5 DEF OwnReady
<1>3. CASE ~closed[t]
  <2>1. tpc'[t] = "failing" /\ closed'[t] /\ cleaning'[t] = "layers" BY <1>3, RaiseFacts
  <2>2. armed[t] /\ tpc[t] # "failing" BY <1>3 DEF OwnReady, PhaseOf
  <2>3. Holds(t)' BY <2>1 DEF Holds, TrainerEnded
  <2>4. PhaseOf(t)'
    <3>1. armed'[t] BY <1>1, <2>2
    <3> QED BY <2>1, <2>3, <3>1 DEF PhaseOf
  <2>5. CleanOf(t)' BY <1>1, <1>3, <2>1, <2>2, CloseHeld DEF OwnReady
  <2> QED BY <2>1, <2>4, <2>5 DEF OwnReady
<1> QED BY <1>2, <1>3

\* Every step of a training process keeps what it relies on.
LEMMA OwnReadyStep ==
    ASSUME TypeOK, TreeInv, NEW t \in Trainers, OwnReady(t), TrainerNext(t)
    PROVE  OwnReady(t)'
<1>t. TrainerType BY TypeParts
<1>i. interrupted => interrupted' BY KillsGrow DEF Next
<1>a. Apart(t) BY TrainerTypes
<1>p. PhaseOf(t) BY DEF OwnReady
<1>1. CASE StoreActions(t)
  <2>1. /\ UNCHANGED <<staging, source, interrupted>> /\ cleaning[t] = "off" /\ tpc[t] \in StorePlaces
    BY <1>1, StoreCases DEF faults
  <2>2. Holds(t) BY <2>1 DEF StorePlaces, Holds, TrainerEnded
  <2>3. CASE Raise(t) BY <2>1, <2>2, <2>3, RaiseReady
  <2>4. CASE StoreStep(t)
    <3>1. UNCHANGED <<closed, cleaning, armed>> BY <2>4 DEF StoreStep
    <3>2. tpc'[t] \in StorePlaces \cup {"rmroot"}
      BY <2>4 DEF StoreStep, Loads, Marks, Writes, Replaces, Unlinks, RemovesLayer, Finishes, StorePlaces
    <3>3. Holds(t)' /\ tpc'[t] \notin {"absent", "start", "validate", "failing"}
      BY <3>2 DEF StorePlaces, Holds, TrainerEnded
    <3>4. PhaseOf(t)'
      <4>1. cleaning'[t] = "off" BY <2>1, <3>1
      <4>2. ~closed'[t] => armed'[t] BY <1>p, <2>2, <3>1 DEF PhaseOf
      <4> QED BY <3>3, <4>1, <4>2 DEF PhaseOf
    <3>5. ~closed[t] => HoldsTree(t)' BY <2>1, <2>2, <2>4, HoldsNext DEF OwnReady
    <3>6. ~interrupted /\ closed[t] => Gone(t)
      BY <2>1, <2>2 DEF OwnReady, CleanOf, Holds, TrainerEnded
    <3>7. Gone(t) => Gone(t)' BY <2>1, GoneByTrainer
    <3>8. ~interrupted' /\ closed'[t] => CleanOf(t)'
      <4>1. cleaning'[t] = "off" BY <2>1, <3>1
      <4> QED BY <1>i, <3>1, <3>6, <3>7, <4>1 DEF CleanOf
    <3> QED BY <3>1, <3>4, <3>5, <3>8 DEF OwnReady
  <2> QED BY <1>1, <2>3, <2>4, StoreCases
<1>2. CASE ReadManifest(t)
  <2>1. /\ tpc[t] = "start" /\ tpc'[t] \in {"failed", "validate"} /\ ready.exists
        /\ mem'[t] = ready.manifest /\ source'[t] = ready.inode
        /\ UNCHANGED <<ready, at, closed, armed, cleaning>>
    BY <1>2, <1>t DEF ReadManifest, TrainerAt, Goto, TrainerType
  <2>2. ~closed[t] /\ ~armed[t] /\ cleaning[t] = "off" /\ at[t] = 1 BY <1>p, <2>1 DEF PhaseOf
  <2>3. ~Holds(t)' BY <2>1 DEF Holds, TrainerEnded
  <2>4. ~closed'[t] /\ ~armed'[t] /\ cleaning'[t] = "off" /\ at'[t] = 1 BY <2>1, <2>2
  <2>5. PhaseOf(t)' BY <2>1, <2>3, <2>4 DEF PhaseOf
  <2> QED BY <2>3, <2>4, <2>5 DEF OwnReady
<1>3. CASE Validate(t)
  <2>1. /\ tpc[t] = "validate" /\ tpc'[t] = IF Intact(t) THEN "load" ELSE "failed"
        /\ armed'[t] = Intact(t) /\ UNCHANGED <<ready, at, mem, source, closed, cleaning>>
    BY <1>3, <1>t DEF Validate, TrainerAt, Goto, TrainerType
  <2>2. /\ ~closed[t] /\ cleaning[t] = "off" /\ at[t] = 1
        /\ ready.exists /\ mem[t] = ready.manifest /\ source[t] = ready.inode
    BY <1>p, <2>1 DEF PhaseOf
  <2>3. ~closed'[t] /\ cleaning'[t] = "off" BY <2>1, <2>2
  <2>4. CASE ~Intact(t)
    <3>1. tpc'[t] = "failed" BY <2>1, <2>4
    <3>2. ~Holds(t)' BY <3>1 DEF Holds, TrainerEnded
    <3> QED BY <2>3, <3>1, <3>2 DEF OwnReady, PhaseOf
  <2>5. CASE Intact(t)
    <3>1. tpc'[t] = "load" BY <2>1, <2>5
    <3>2. armed'[t] BY <2>1, <2>5, Zenon
    <3>3. PhaseOf(t)' BY <2>3, <3>1, <3>2 DEF PhaseOf
    <3>4. 1 \in Layers /\ \A l \in Layers : ~(l < 1) BY SizeAssumption DEF Layers
    <3>5. /\ ready.lease = NoProcess /\ ~ready.tmp
          /\ \A l \in Layers : mem[t][l] = "ready" /\ ready.layer[l] = "full"
      BY <2>5 DEF Intact
    <3>6. HoldsTree(t)' BY <2>1, <2>2, <3>1, <3>4, <3>5 DEF HoldsTree, Stands
    <3> QED BY <2>3, <3>3, <3>6 DEF OwnReady
  <2> QED BY <2>4, <2>5
<1>4. CASE RemoveRoot(t)
  <2>1. /\ UNCHANGED <<staging, source, interrupted>> /\ cleaning[t] = "off" /\ tpc[t] = "rmroot"
    BY <1>4 DEF RemoveRoot, TrainerAt, faults
  <2>2. Holds(t) BY <2>1 DEF Holds, TrainerEnded
  <2>3. CASE Raise(t) BY <2>1, <2>2, <2>3, RaiseReady
  <2>4. CASE ~Raise(t)
    <3>1. /\ ready' = NoTree /\ closed'[t] /\ UNCHANGED cleaning /\ tpc'[t] = "success"
      BY <1>4, <1>t, <2>4 DEF RemoveRoot, Goto, TrainerType
    <3>2. ~Holds(t)' /\ cleaning'[t] = "off" BY <2>1, <3>1 DEF Holds, TrainerEnded
    <3>3. PhaseOf(t)' BY <3>1, <3>2 DEF PhaseOf
    <3>4. ~interrupted => Gone(t)'
      <4>1. CASE closed[t]
        <5>1. ~interrupted => Gone(t) BY <2>1, <4>1 DEF OwnReady, CleanOf
        <5> QED BY <2>1, <5>1, GoneByTrainer
      <4>2. CASE ~closed[t]
        <5>1. ready.exists /\ source[t] = ready.inode BY <2>2, <4>2 DEF OwnReady, HoldsTree
        <5> QED BY <2>1, <3>1, <5>1, GoneNow
      <4> QED BY <4>1, <4>2
    <3>5. ~interrupted' => CleanOf(t)' BY <1>i, <3>2, <3>4 DEF CleanOf
    <3> QED BY <3>1, <3>2, <3>3, <3>5 DEF OwnReady
  <2> QED BY <2>3, <2>4
<1>5. CASE CleanLayers(t) \/ CleanManifest(t)
  <2>1. /\ UNCHANGED <<staging, at, mem, source, closed, interrupted, tpc, armed>>
        /\ tpc[t] # "dead"
        /\ \/ cleaning[t] = "layers" /\ cleaning'[t] \in {"layers", "manifest"}
           \/ cleaning[t] = "manifest" /\ cleaning'[t] = "root"
    BY <1>5, <1>t DEF CleanLayers, CleanManifest, CleanupStep, TrainerType, faults
  <2>2. closed[t] /\ armed[t] /\ Holds(t) BY <1>p, <2>1 DEF PhaseOf
  <2>3. closed'[t] /\ armed'[t] /\ Holds(t)' /\ cleaning'[t] # "off" BY <2>1, <2>2 DEF Holds
  <2>4. PhaseOf(t)'
    <3>1. tpc'[t] \notin {"absent", "start", "validate"} BY <2>3 DEF Holds, TrainerEnded
    <3> QED BY <2>3, <3>1 DEF PhaseOf
  <2>5. ~interrupted' => CleanOf(t)'
    <3> SUFFICES ASSUME ~interrupted' PROVE CleanOf(t)' OBVIOUS
    <3>1. CleanOf(t) BY <2>1, <2>2 DEF OwnReady
    <3>2. /\ ready'.exists = ready.exists /\ ready'.inode = ready.inode /\ ready'.lease = ready.lease
          /\ \A l \in Layers : ready.layer[l] = None => ready'.layer[l] = None
          /\ cleaning[t] = "manifest" => ready'.manifest = NoManifest /\ ~ready'.tmp
          /\ cleaning'[t] = "manifest" =>
                \A l \in Layers : mem[t][l] # "consumed" => ready.layer[l] = None
      BY <1>5, CleanTree
    <3>3. ready'.exists /\ source'[t] = ready'.inode /\ ready'.lease = NoProcess
      BY <2>1, <3>1, <3>2 DEF CleanOf
    <3>4. \A l \in Layers : mem'[t][l] = "consumed" => ready'.layer[l] = None
      BY <2>1, <3>1, <3>2 DEF CleanOf
    <3>5. cleaning'[t] \in {"manifest", "root"} => \A l \in Layers : ready'.layer[l] = None
      BY <2>1, <3>1, <3>2 DEF CleanOf
    <3>6. cleaning'[t] = "root" => ready'.manifest = NoManifest /\ ~ready'.tmp
      BY <2>1, <3>2
    <3> QED BY <2>3, <3>3, <3>4, <3>5, <3>6 DEF CleanOf
  <2> QED BY <2>3, <2>4, <2>5 DEF OwnReady
<1>6. CASE CleanRoot(t)
  <2>1. /\ UNCHANGED <<staging, source, closed, interrupted>>
        /\ cleaning[t] = "root" /\ cleaning'[t] = "off" /\ tpc[t] # "dead"
        /\ tpc'[t] = IF tpc[t] = "failing" THEN "failed" ELSE tpc[t]
    BY <1>6, <1>t DEF CleanRoot, CleanupStep, TrainerType, faults
  <2>2. closed[t] /\ Holds(t) BY <1>p, <2>1 DEF PhaseOf
  <2>3. tpc'[t] \notin {"absent", "start", "validate", "failing"}
    BY <2>1, <2>2 DEF Holds, TrainerEnded
  <2>4. closed'[t] BY <2>1, <2>2
  <2>5. PhaseOf(t)' BY <2>1, <2>3, <2>4 DEF PhaseOf
  <2>6. ~interrupted => Gone(t)'
    <3> SUFFICES ASSUME ~interrupted PROVE Gone(t)' OBVIOUS
    <3>1. CleanOf(t) BY <2>1, <2>2 DEF OwnReady
    <3>2. Empty(ready) BY <2>1, <3>1, TreeFacts, EmptyWhen DEF CleanOf
    <3>3. ready.exists /\ source[t] = ready.inode BY <2>1, <3>1 DEF CleanOf
    <3>4. ready' = NoTree BY <1>6, <3>2, <3>3 DEF CleanRoot
    <3> QED BY <2>1, <3>3, <3>4, GoneNow
  <2>7. ~interrupted' => CleanOf(t)' BY <1>i, <2>1, <2>6 DEF CleanOf
  <2> QED BY <2>4, <2>5, <2>7 DEF OwnReady
<1>7. CASE TrainerSignal(t)
  <2>1. UNCHANGED <<staging, ready, at, mem, source>> BY <1>7 DEF TrainerSignal
  <2>2. CASE SignalUnarmed(t)
    <3>1. /\ ~armed[t] /\ tpc[t] \notin TrainerEnded \cup {"start"} /\ tpc'[t] = "failed"
          /\ UNCHANGED <<closed, cleaning, armed>>
      BY <1>t, <2>2 DEF SignalUnarmed, Goto, TrainerType
    <3>2. cleaning[t] = "off" /\ tpc[t] # "dead" BY <1>p, <3>1 DEF PhaseOf, TrainerEnded
    <3>3. cleaning'[t] = "off" /\ ~Holds(t)' BY <3>1, <3>2 DEF Holds, TrainerEnded
    <3>4. PhaseOf(t)' BY <3>1, <3>3 DEF PhaseOf
    <3>5. ~interrupted' /\ closed'[t] => CleanOf(t)'
      <4>1. ~interrupted /\ closed[t] => Gone(t) BY <3>2 DEF OwnReady, CleanOf
      <4> QED BY <1>i, <2>1, <3>1, <3>3, <4>1 DEF CleanOf, Gone
    <3> QED BY <3>3, <3>4, <3>5 DEF OwnReady
  <2>3. CASE SignalCleanup(t)
    <3>1. /\ armed[t] /\ ~closed[t] /\ tpc[t] \notin TrainerEnded
          /\ closed'[t] /\ cleaning'[t] = "layers" /\ UNCHANGED armed
          /\ tpc'[t] \in {tpc[t], "failing"}
      BY <1>t, <2>3 DEF SignalCleanup, Goto, TrainerType
    <3>2. tpc[t] \notin {"absent", "start", "validate", "failing"} BY <1>p, <3>1 DEF PhaseOf
    <3>3. Holds(t) /\ Holds(t)' /\ tpc'[t] \notin {"absent", "start", "validate"}
      BY <3>1, <3>2 DEF Holds, TrainerEnded
    <3>4. PhaseOf(t)'
      <4>1. armed'[t] BY <3>1
      <4> QED BY <3>1, <3>3, <4>1 DEF PhaseOf
    <3>5. CleanOf(t)' BY <2>1, <3>1, <3>2, <3>3, CloseHeld DEF OwnReady
    <3> QED BY <3>1, <3>4, <3>5 DEF OwnReady
  <2>4. CASE SignalAgain(t)
    <3>1. cleaning'[t] = "off" /\ tpc'[t] = "failed"
      BY <1>t, <2>4 DEF SignalAgain, Goto, TrainerType
    <3>2. interrupted' BY <2>4, Zenon DEF SignalAgain
    <3>3. ~Holds(t)' BY <3>1 DEF Holds, TrainerEnded
    <3>4. PhaseOf(t)' BY <3>1, <3>3 DEF PhaseOf
    <3> QED BY <3>2, <3>3, <3>4 DEF OwnReady
  <2> QED BY <1>7, <2>2, <2>3, <2>4 DEF TrainerSignal
<1>8. CASE TrainerKilled(t)
  <2>1. tpc'[t] = "dead" BY <1>8, <1>t DEF TrainerKilled, Goto, TrainerType
  <2>2. ~Holds(t)' BY <2>1 DEF Holds, TrainerEnded
  <2> QED BY <2>1, <2>2 DEF OwnReady, PhaseOf
<1> QED BY <1>1, <1>2, <1>3, <1>4, <1>5, <1>6, <1>7, <1>8 DEF TrainerNext, StoreActions

\* Only the process that holds the tree, or cleans it up, changes it.
LEMMA ChangesHeld ==
    ASSUME TypeOK, TreeInv, NEW t \in Trainers, PhaseOf(t), TrainerNext(t)
    PROVE  UNCHANGED ready \/ Active(t)
<1>1. CASE StoreActions(t) BY <1>1, StoreCases DEF StorePlaces, Active, TrainerEnded
<1>2. CASE RemoveRoot(t) BY <1>2 DEF RemoveRoot, TrainerAt, Active, TrainerEnded
<1>3. CASE CleanLayers(t) \/ CleanManifest(t) \/ CleanRoot(t)
  <2>1. cleaning[t] # "off" /\ tpc[t] # "dead"
    BY <1>3 DEF CleanLayers, CleanManifest, CleanRoot, CleanupStep
  <2> QED BY <2>1 DEF PhaseOf, Holds, Active
<1>4. CASE ReadManifest(t) \/ Validate(t) \/ TrainerSignal(t) \/ TrainerKilled(t)
  BY <1>4 DEF ReadManifest, Validate, TrainerSignal, TrainerKilled
<1> QED BY <1>1, <1>2, <1>3, <1>4 DEF TrainerNext, StoreActions

\* A process becomes active by reading the manifest, and only then is it one
\* of those that have not got hold of the tree.
LEMMA Entering ==
    ASSUME TypeOK, TreeInv, NEW t \in Trainers, PhaseOf(t), TrainerNext(t)
    PROVE  /\ Active(t)' => Active(t) \/ ReadManifest(t)
           /\ tpc'[t] \in {"absent", "start", "validate"} => ReadManifest(t)
<1>t. TrainerType BY TypeParts
<1>1. CASE StoreActions(t)
  <2>1. tpc[t] \in StorePlaces BY <1>1, StoreCases
  <2>2. CASE Raise(t)
    <3>1. tpc'[t] \in {"failed", "failing"} BY <1>t, <2>2, RaiseFacts DEF TrainerType
    <3> QED BY <2>1, <3>1 DEF StorePlaces, Active, TrainerEnded
  <2>3. CASE StoreStep(t)
    <3>1. tpc'[t] \in StorePlaces \cup {"rmroot"}
      BY <2>3 DEF StoreStep, Loads, Marks, Writes, Replaces, Unlinks, RemovesLayer, Finishes, StorePlaces
    <3> QED BY <2>1, <3>1 DEF StorePlaces, Active, TrainerEnded
  <2> QED BY <1>1, <2>2, <2>3, StoreCases
<1>2. CASE RemoveRoot(t)
  <2>1. tpc[t] = "rmroot" BY <1>2 DEF RemoveRoot, TrainerAt
  <2>2. Raise(t) \/ tpc'[t] = "success" BY <1>2, <1>t DEF RemoveRoot, Goto, TrainerType
  <2>3. tpc'[t] \in {"success", "failed", "failing"} BY <1>t, <2>2, RaiseFacts DEF TrainerType
  <2> QED BY <2>1, <2>3 DEF Active, TrainerEnded
<1>3. CASE CleanLayers(t) \/ CleanManifest(t) \/ CleanRoot(t)
  <2>1. cleaning[t] # "off" /\ tpc[t] # "dead" /\ tpc'[t] \in {tpc[t], "failed"}
    BY <1>3, <1>t DEF CleanLayers, CleanManifest, CleanRoot, CleanupStep, TrainerType
  <2>2. Holds(t) BY <2>1 DEF PhaseOf
  <2> QED BY <2>1, <2>2 DEF Active, Holds, TrainerEnded
<1>4. CASE ReadManifest(t) BY <1>4
<1>5. CASE Validate(t)
  <2>1. tpc[t] = "validate" /\ tpc'[t] \in {"load", "failed"}
    BY <1>5, <1>t DEF Validate, TrainerAt, Goto, TrainerType
  <2> QED BY <2>1 DEF Active, TrainerEnded
<1>6. CASE TrainerSignal(t)
  <2>1. CASE SignalUnarmed(t) \/ SignalAgain(t)
    <3>1. tpc'[t] = "failed" BY <1>t, <2>1 DEF SignalUnarmed, SignalAgain, Goto, TrainerType
    <3> QED BY <3>1 DEF Active, TrainerEnded
  <2>2. CASE SignalCleanup(t)
    <3>1. /\ armed[t] /\ tpc[t] \notin TrainerEnded /\ tpc'[t] \in {tpc[t], "failing"}
      BY <1>t, <2>2 DEF SignalCleanup, Goto, TrainerType
    <3>2. tpc[t] \notin {"absent", "start", "validate"} BY <3>1 DEF PhaseOf
    <3> QED BY <3>1, <3>2 DEF Active
  <2> QED BY <1>6, <2>1, <2>2 DEF TrainerSignal
<1>7. CASE TrainerKilled(t)
  <2>1. tpc'[t] = "dead" BY <1>7, <1>t DEF TrainerKilled, Goto, TrainerType
  <2> QED BY <2>1 DEF Active, TrainerEnded
<1> QED BY <1>1, <1>2, <1>3, <1>4, <1>5, <1>6, <1>7 DEF TrainerNext, StoreActions

\* The other training processes are not concerned.
LEMMA OthersReady ==
    ASSUME TypeOK, TreeInv, ReadyInv, NEW t \in Trainers, TrainerNext(t), NEW u \in Trainers, u # t
    PROVE  OwnReady(u)'
<1>1. /\ tpc'[u] = tpc[u] /\ at'[u] = at[u] /\ mem'[u] = mem[u] /\ source'[u] = source[u]
      /\ closed'[u] = closed[u] /\ armed'[u] = armed[u] /\ cleaning'[u] = cleaning[u]
      /\ UNCHANGED staging
  BY TrainerTypes DEF Apart
<1>2. OwnReady(u) /\ OwnReady(t) BY DEF ReadyInv
<1>3. interrupted => interrupted' BY KillsGrow DEF Next
<1>4. CASE UNCHANGED ready
  <2>1. PhaseOf(u)' BY <1>1, <1>2, <1>4 DEF OwnReady, PhaseOf, Holds
  <2>2. Holds(u)' /\ ~closed'[u] => HoldsTree(u)'
    BY <1>1, <1>2, <1>4 DEF OwnReady, Holds, HoldsTree, Stands
  <2>3. ~interrupted' /\ closed'[u] /\ tpc'[u] # "dead" => CleanOf(u)'
    BY <1>1, <1>2, <1>3, <1>4 DEF OwnReady, CleanOf, Gone
  <2> QED BY <2>1, <2>2, <2>3 DEF OwnReady
<1>5. CASE Active(t)
  <2>1. ~Active(u) BY <1>5 DEF ReadyInv
  <2>2. ~Holds(u) /\ tpc[u] # "validate" BY <2>1 DEF Active, Holds, TrainerEnded
  <2>3. ~Holds(u)' BY <1>1, <2>2 DEF Holds
  <2>4. cleaning[u] = "off" \/ tpc[u] = "dead" BY <1>2, <2>2 DEF OwnReady, PhaseOf
  <2>5. PhaseOf(u)' BY <1>1, <1>2, <2>2, <2>3, <2>4 DEF OwnReady, PhaseOf
  <2>6. Gone(u) => Gone(u)' BY <1>1, GoneByTrainer
  <2>7. ~interrupted' /\ closed'[u] /\ tpc'[u] # "dead" => CleanOf(u)'
    BY <1>1, <1>2, <1>3, <2>4, <2>6 DEF OwnReady, CleanOf
  <2> QED BY <2>3, <2>5, <2>7 DEF OwnReady
<1> QED BY <1>2, <1>4, <1>5, ChangesHeld DEF OwnReady

\* The steps of the training processes keep the parts about the ready tree.
LEMMA TrainerReady ==
    ASSUME TypeOK, TreeInv, ReadyInv, TypeOK', NEW t \in Trainers, TrainerNext(t)
    PROVE  ReadyInv'
<1>t. TrainerType BY TypeParts
<1>o. OwnReady(t) /\ PhaseOf(t) BY DEF ReadyInv, OwnReady
<1>a. /\ UNCHANGED trespass /\ \A u \in Trainers \ {t} : tpc'[u] = tpc[u] /\ closed'[u] = closed[u]
  BY TrainerTypes DEF Apart
<1>1. \A u \in Trainers : OwnReady(u)' BY <1>o, OwnReadyStep, OthersReady
<1>2. ASSUME NEW u \in Trainers, NEW v \in Trainers, Active(u)', Active(v)' PROVE u = v
  <2>1. ASSUME NEW x \in Trainers, x # t, Active(x)', Active(t)' PROVE FALSE
    <3>1. Active(x) BY <1>a, <2>1 DEF Active
    <3>2. ReadManifest(t) BY <1>o, <2>1, <3>1, Entering DEF ReadyInv
    <3> QED BY <2>1, <3>1, <3>2 DEF ReadManifest, Active
  <2>2. CASE u # t /\ v # t BY <1>2, <1>a, <2>2 DEF ReadyInv, Active
  <2> QED BY <1>2, <2>1, <2>2
<1>3. PublishedComplete'
  <2>1. SUFFICES ASSUME Untouched' PROVE PublishedComplete' BY DEF PublishedComplete
  <2>2. ReadManifest(t) BY <1>o, <2>1, Entering DEF Untouched
  <2>3. UNCHANGED ready /\ tpc[t] = "start" BY <2>2 DEF ReadManifest, TrainerAt
  <2>4. Untouched BY <1>a, <2>1, <2>3 DEF Untouched
  <2> QED BY <1>a, <2>3, <2>4 DEF ReadyInv, PublishedComplete
<1>4. ManifestInv'
  <2>1. SUFFICES ASSUME \A u \in Trainers : ~closed'[u], trespass' = {}
                 PROVE  \A l \in Layers : ready'.manifest[l] = "ready" => ready'.layer[l] = "full"
    BY DEF ManifestInv
  <2>2. ~closed'[t] BY <2>1
  <2>3. CASE UNCHANGED ready
    <3>1. ~closed[t]
      <4>1. closed \in [Trainers -> BOOLEAN] BY <1>t DEF TrainerType
      <4>2. \/ UNCHANGED closed \/ closed' = [closed EXCEPT ![t] = TRUE]
        <5>1. CASE StoreActions(t) BY <5>1, StoreCases, RaiseFacts DEF StoreStep
        <5>2. CASE RemoveRoot(t) BY <5>2, RaiseFacts DEF RemoveRoot
        <5>3. CASE \/ ReadManifest(t) \/ Validate(t) \/ CleanLayers(t) \/ CleanManifest(t)
                   \/ CleanRoot(t) \/ TrainerSignal(t) \/ TrainerKilled(t)
          BY <5>3 DEF ReadManifest, Validate, CleanLayers, CleanManifest, CleanRoot, CleanupStep,
                      TrainerSignal, SignalUnarmed, SignalCleanup, SignalAgain, TrainerKilled
        <5> QED BY <5>1, <5>2, <5>3 DEF TrainerNext, StoreActions
      <4> QED BY <2>2, <4>1, <4>2
    <3>2. \A u \in Trainers : ~closed[u] BY <1>a, <2>1, <3>1
    <3> QED BY <1>a, <2>1, <2>3, <3>2 DEF ReadyInv, ManifestInv
  <2>4. CASE StoreActions(t) /\ ~UNCHANGED ready
    <3>1. StoreStep(t) BY <2>4, StoreCases, RaiseFacts
    <3>2. tpc'[t] \in StorePlaces \cup {"rmroot"}
      BY <3>1 DEF StoreStep, Loads, Marks, Writes, Replaces, Unlinks, RemovesLayer, Finishes, StorePlaces
    <3>3. Holds(t)' BY <3>2 DEF Holds, StorePlaces, TrainerEnded
    <3>4. HoldsTree(t)' BY <1>1, <2>2, <3>3 DEF OwnReady
    <3>5. HoldsTree(t)' /\ tpc'[t] \in StorePlaces \cup {"rmroot"} BY <3>2, <3>4
    <3>6. at'[t] \in Layers /\ \A k \in Layers : k \in Int BY DEF TypeOK, Layers
    <3>7. tpc'[t] = "rmroot" => \A l \in Layers : ready'.manifest[l] # "ready"
      BY <3>5 DEF HoldsTree, NoManifest, None
    <3>8. ASSUME NEW l \in Layers, ready'.manifest[l] = "ready" PROVE ready'.layer[l] = "full"
      <4>1. tpc'[t] # "rmroot" BY <3>7, <3>8
      <4>2. CASE l = at'[t] BY <3>5, <3>8, <4>1, <4>2 DEF HoldsTree, Stands, StorePlaces
      <4>3. CASE l # at'[t]
        <5>1. mem'[t][l] = "ready" BY <3>5, <3>8, <4>1, <4>3 DEF HoldsTree
        <5>2. l < at'[t] \/ l > at'[t] BY <3>6, <4>3
        <5> QED BY <3>5, <5>1, <5>2 DEF HoldsTree
      <4> QED BY <4>2, <4>3
    <3> QED BY <3>8
  <2>5. ~((CleanLayers(t) \/ CleanManifest(t) \/ CleanRoot(t)) /\ ~UNCHANGED ready)
    <3> SUFFICES ASSUME CleanLayers(t) \/ CleanManifest(t) \/ CleanRoot(t) PROVE FALSE OBVIOUS
    <3>1. cleaning[t] # "off" /\ tpc[t] # "dead" /\ UNCHANGED closed
      BY DEF CleanLayers, CleanManifest, CleanRoot, CleanupStep
    <3> QED BY <1>o, <2>2, <3>1 DEF PhaseOf
  <2>6. ~(RemoveRoot(t) /\ ~UNCHANGED ready)
    <3> SUFFICES ASSUME RemoveRoot(t), ~UNCHANGED ready PROVE FALSE OBVIOUS
    <3>1. closed' = [closed EXCEPT ![t] = TRUE] BY RaiseFacts DEF RemoveRoot
    <3> QED BY <1>t, <2>2, <3>1 DEF TrainerType
  <2>7. ReadManifest(t) \/ Validate(t) \/ TrainerSignal(t) \/ TrainerKilled(t) => UNCHANGED ready
    BY DEF ReadManifest, Validate, TrainerSignal, TrainerKilled
  <2> QED BY <2>3, <2>4, <2>5, <2>6, <2>7 DEF TrainerNext, StoreActions
<1> QED BY <1>1, <1>2, <1>3, <1>4 DEF ReadyInv

-----------------------------------------------------------------------------
(* The theorems *)

\* The invariant holds at first.
LEMMA InitInv == Init => IInv
<1> SUFFICES ASSUME Init PROVE IInv OBVIOUS
<1>n. inodes = 0 /\ kills = 0 /\ signals = 0 /\ interrupted = FALSE /\ trespass = {} BY DEF Init
<1>s. staging = NoTree /\ ready = NoTree BY DEF Init
<1>e. /\ NoTree \in TreeOf(0) /\ ~NoTree.exists /\ NoTree.layer = [l \in Layers |-> None]
      /\ NoTree.lease = NoProcess /\ NoTree.manifest = NoManifest /\ ~NoTree.tmp /\ NoTree.inode = 0
  BY EmptyFields
<1>p. /\ pc \in [Drivers -> {"start", "absent"}] /\ tpc \in [Trainers -> {"start", "absent"}]
  <2>1. PICK cast \in Casts :
           /\ pc = [d \in Drivers |-> IF d \in cast THEN "start" ELSE "absent"]
           /\ tpc = [t \in Trainers |-> IF t \in cast THEN "start" ELSE "absent"]
    BY DEF Init
  <2> QED BY <2>1
<1>1. TypeOK
  <2>1. Trees = TreeOf(0) BY <1>n DEF Trees, TreeOf
  <2>2. TreeType BY <1>n, <1>s, <1>e, <2>1 DEF TreeType
  <2>3. DriverType
    <3>1. pc \in [Drivers -> DriverPlaces] BY <1>p DEF DriverPlaces, Ended
    <3>2. 0 \in 0 .. 2 * NumLayers BY SizeAssumption
    <3> QED BY <3>1, <3>2 DEF Init, DriverType, None
  <2>4. TrainerType
    <3>1. tpc \in [Trainers -> TrainerPlaces] BY <1>p DEF TrainerPlaces, TrainerEnded
    <3>2. 1 \in Layers /\ NoManifest \in [Layers -> LayerStates]
      BY SizeAssumption DEF Layers, NoManifest, LayerStates
    <3>3. at \in [Trainers -> Layers] /\ mem \in [Trainers -> [Layers -> LayerStates]]
      BY <3>2 DEF Init
    <3>4. source \in [Trainers -> 0 .. inodes] BY <1>n DEF Init
    <3>5. /\ closed \in [Trainers -> BOOLEAN] /\ armed \in [Trainers -> BOOLEAN]
          /\ cleaning \in [Trainers -> {"off", "layers", "manifest", "root"}]
          /\ ignores \in [Trainers -> BOOLEAN]
      BY DEF Init
    <3> QED BY <3>1, <3>3, <3>4, <3>5 DEF TrainerType
  <2>5. HistoryType
    <3>1. interrupted \in BOOLEAN BY <1>n
    <3>2. kills \in 0 .. MaxKills /\ signals \in 0 .. MaxSignals BY <1>n, BoundAssumption
    <3> QED BY <1>n, <3>1, <3>2 DEF HistoryType
  <2> QED BY <2>2, <2>3, <2>4, <2>5, TypeParts
<1>2. TreeInv BY <1>s, <1>e DEF TreeInv
<1>3. \A d \in Drivers : pc[d] \in {"start", "absent"} /\ child[d] = None /\ wrote[d] = 0
  BY <1>p DEF Init
<1>4. ChildInv BY <1>3 DEF ChildInv, Early, Late, None
<1>5. ProducerInv /\ LeftInv BY <1>3, <1>s, <1>e DEF ProducerInv, LeftInv, Producing, Works, None
<1>6. \A t \in Trainers :
         /\ tpc[t] \in {"start", "absent"} /\ at[t] = 1 /\ closed[t] = FALSE /\ armed[t] = FALSE
         /\ cleaning[t] = "off"
  BY <1>p DEF Init
<1>7. PhaseInv /\ HoldInv /\ CleanInv
  <2>1. \A t \in Trainers : ~Active(t) /\ ~Holds(t) BY <1>6 DEF Active, Holds, TrainerEnded
  <2> QED BY <1>6, <2>1 DEF PhaseInv, PhaseOf, HoldInv, CleanInv
<1>8. PublishedComplete /\ ManifestInv
  BY <1>s, <1>e DEF PublishedComplete, ManifestInv, NoManifest, None
<1> QED BY <1>1, <1>2, <1>4, <1>5, <1>7, <1>8 DEF IInv

\* Every step keeps the invariant.
LEMMA NextInv == IInv /\ [Next]_vars => IInv'
<1> SUFFICES ASSUME IInv, [Next]_vars PROVE IInv' OBVIOUS
<1>1. TypeOK /\ TreeInv /\ ChildInv /\ ProducerInv /\ LeftInv /\ ReadyInv BY ReadyParts DEF IInv
<1>2. TypeOK' /\ TreeInv' BY <1>1, TypeStep
<1>3. ChildInv' BY <1>1, ChildStep
<1>4. ProducerInv' BY <1>1, ProducerStep
<1>5. LeftInv' BY <1>1, LeftStep
<1>6. ReadyInv'
  <2>1. ASSUME NEW d \in Drivers, DriverNext(d) PROVE ReadyInv' BY <1>1, <2>1, DriverReady
  <2>2. ASSUME NEW t \in Trainers, TrainerNext(t) PROVE ReadyInv' BY <1>1, <1>2, <2>2, TrainerReady
  <2>3. CASE UNCHANGED vars
    <3>1. UNCHANGED <<staging, ready, trainer, interrupted, trespass>> BY <2>3 DEF vars, faults
    <3> QED BY <1>1, <3>1 DEF ReadyInv, OwnReady, PhaseOf, Holds, HoldsTree, Stands, CleanOf, Gone,
                              Active, PublishedComplete, Untouched, ManifestInv, trainer
  <2> QED BY <2>1, <2>2, <2>3 DEF Next
<1>7. PhaseInv' /\ HoldInv' /\ CleanInv' /\ PublishedComplete' /\ ManifestInv'
  BY <1>6 DEF ReadyInv, OwnReady, PhaseInv, HoldInv, CleanInv
<1> QED BY <1>2, <1>3, <1>4, <1>5, <1>7 DEF IInv

\* The invariant holds in every state that the drivers, their converters and
\* the training processes can reach.
THEOREM Invariance == Spec => []IInv
BY InitInv, NextInv, PTL DEF Spec

\* Every variable keeps a value of its kind.
THEOREM TypesKept == Spec => []TypeOK
<1>1. IInv => TypeOK BY DEF IInv
<1> QED BY <1>1, Invariance, PTL

\* prepare_ephemeral_int8 publishes complete trees only, whatever process died
\* or was signalled before, and however many drivers raced.
THEOREM TreesPublishedComplete == Spec => []PublishedComplete
<1>1. IInv => PublishedComplete BY DEF IInv
<1> QED BY <1>1, Invariance, PTL

\* The files of a layer are complete while C++ loads them, and the manifest on
\* disk never calls a layer ready whose files are not all there.
THEOREM LoadsUndisturbed == Spec => []LoadUndisturbed
<1>1. IInv => LoadUndisturbed
  <2> SUFFICES ASSUME IInv PROVE LoadUndisturbed OBVIOUS
  <2>1. ASSUME NEW t \in Trainers, tpc[t] \in {"loading", "consume", "write", "replace"}, ~closed[t],
               mem[t][at[t]] # "consumed"
        PROVE  ready.layer[at[t]] = "full"
    <3>1. Holds(t) BY <2>1 DEF Holds, TrainerEnded
    <3>2. HoldsTree(t) BY <2>1, <3>1 DEF IInv, HoldInv
    <3> QED BY <2>1, <3>2 DEF HoldsTree, Stands
  <2>2. ManifestInv BY DEF IInv
  <2> QED BY <2>1, <2>2 DEF LoadUndisturbed, ManifestInv
<1> QED BY <1>1, Invariance, PTL

\* Nothing stays in /dev/shm: the cleanups of the driver and of the store leave
\* no tree behind, unless a process is killed or a cleanup cut short.
THEOREM NothingStays == Spec => []NothingLeft
<1>1. IInv => NothingLeft
  <2> SUFFICES ASSUME IInv PROVE NothingLeft OBVIOUS
  <2>1. ASSUME \A d \in Drivers : pc[d] \in Ended, kills = 0, ~interrupted, trespass = {},
               staging.exists
        PROVE  FALSE
    <3>1. PICK d \in Drivers : Producing(d) \/ Cleans(d) BY <2>1 DEF IInv, LeftInv
    <3>2. pc[d] \in Ended BY <2>1
    <3>3. CASE Cleans(d) BY <3>2, <3>3 DEF Cleans, Ended
    <3>4. CASE Producing(d)
      <4>1. Produced(d) BY <2>1, <3>4 DEF IInv, ProducerInv
      <4>2. pc[d] \in Works BY <2>1, <4>1, BoundAssumption DEF Produced
      <4> QED BY <3>2, <4>2 DEF Works, Ended
    <3> QED BY <3>1, <3>3, <3>4
  <2>2. ASSUME NEW t \in Trainers, tpc[t] \in {"success", "failed"}, closed[t], ~interrupted
        PROVE  ready.inode # source[t]
    <3>1. CleanOf(t) BY <2>2 DEF IInv, CleanInv
    <3>2. PhaseOf(t) BY DEF IInv, PhaseInv
    <3>3. cleaning[t] = "off" BY <2>2, <3>2 DEF PhaseOf, Holds, TrainerEnded
    <3> QED BY <3>1, <3>3 DEF CleanOf, Gone
  <2> QED BY <2>1, <2>2 DEF NothingLeft
<1> QED BY <1>1, Invariance, PTL
=============================================================================
