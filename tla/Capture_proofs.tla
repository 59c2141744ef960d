---------------------------- MODULE Capture_proofs ----------------------------
(***************************************************************************)
(* Proofs about all of what a capturer does: the point cloud objects with  *)
(* the filters (PointClouds), and which frames are merged (FrameSync), for *)
(* every number of cameras, recording, object and place; and that the      *)
(* theorems about the threads (K4ACapture_proofs) hold beside them.        *)
(***************************************************************************)
EXTENDS MCCapture, Integers, Queues_proofs, K4ACapture_proofs

-----------------------------------------------------------------------------
(* SumSet, which a function on the subsets of the set defines              *)

Some(s) == CHOOSE x \in s : TRUE
Summed(g, T) == [s \in SUBSET T |-> IF s = {} THEN 0 ELSE Some(s) + g[s \ {Some(s)}]]

\* The sum is the value of such a function.
LEMMA SumSetIs ==
    ASSUME NEW T, NEW g, g = Summed(g, T)
    PROVE  \E h : h = Summed(h, T) /\ Obj!SumSet(T) = h[T]
<1> DEFINE h == CHOOSE h : h = Summed(h, T)
<1>1. h = Summed(h, T)
  OBVIOUS
<1>2. Obj!SumSet(T) = h[T]
  BY Zenon DEF Obj!SumSet, Obj!FoldSet, Obj!MapThenFoldSet, Summed, Some
<1> QED BY <1>1, <1>2

\* One element less.
LEMMA SomeOf ==
    ASSUME NEW T, IsFiniteSet(T), NEW s \in SUBSET T, s # {}
    PROVE  /\ Some(s) \in s /\ s \ {Some(s)} \in SUBSET T
           /\ Cardinality(s) \in Nat /\ Cardinality(s \ {Some(s)}) = Cardinality(s) - 1
<1>1. Some(s) \in s
  BY DEF Some
<1>2. IsFiniteSet(s)
  BY FS_Subset
<1> QED BY <1>1, <1>2, FS_RemoveElement, FS_CardinalityType

\* As far as n elements: the equation holds of small sets.
SumUpTo(g, T, n) ==
    /\ g \in [SUBSET T -> Nat]
    /\ \A s \in SUBSET T : Cardinality(s) <= n => g[s] = Summed(g, T)[s]

LEMMA SumUpToNext ==
    ASSUME NEW T \in SUBSET Nat, IsFiniteSet(T), NEW n \in Nat, NEW g, SumUpTo(g, T, n)
    PROVE  \E h : SumUpTo(h, T, n + 1)
<1> DEFINE h == Summed(g, T)
<1>1. ASSUME NEW s \in SUBSET T PROVE h[s] \in Nat
  <2>1. CASE s = {}
    BY <2>1 DEF Summed
  <2>2. CASE s # {}
    <3>1. Some(s) \in Nat /\ s \ {Some(s)} \in SUBSET T
      BY <2>2, SomeOf
    <3>2. g[s \ {Some(s)}] \in Nat
      BY <3>1 DEF SumUpTo
    <3> QED BY <2>2, <3>1, <3>2 DEF Summed
  <2> QED BY <2>1, <2>2
<1>2. ASSUME NEW s \in SUBSET T, Cardinality(s) <= n + 1 PROVE h[s] = Summed(h, T)[s]
  <2>1. CASE s = {}
    BY <2>1 DEF Summed
  <2>2. CASE s # {}
    <3> HIDE DEF h
    <3>1. /\ s \ {Some(s)} \in SUBSET T /\ Cardinality(s) \in Nat
          /\ Cardinality(s \ {Some(s)}) = Cardinality(s) - 1
      BY <2>2, SomeOf
    <3>9. Cardinality(s \ {Some(s)}) <= n
      BY <1>2, <3>1
    <3>2. g[s \ {Some(s)}] = h[s \ {Some(s)}]
      BY <3>1, <3>9 DEF SumUpTo, h
    <3> QED BY <2>2, <3>2 DEF Summed, h
  <2> QED BY <2>1, <2>2
<1>3. h \in [SUBSET T -> Nat]
  BY <1>1 DEF Summed
<1> QED BY <1>2, <1>3 DEF SumUpTo

\* There is such a function.
LEMMA SumExists ==
    ASSUME NEW T \in SUBSET Nat, IsFiniteSet(T)
    PROVE  \E g : g = Summed(g, T)
<1> DEFINE Bad == {n \in Nat : ~\E g : SumUpTo(g, T, n)}
<1>1. \E g : SumUpTo(g, T, 0)
  <2> DEFINE g == [s \in SUBSET T |-> 0]
  <2>1. ASSUME NEW s \in SUBSET T, Cardinality(s) <= 0 PROVE s = {}
    <3> SUFFICES ASSUME s # {} PROVE FALSE
      OBVIOUS
    <3>1. /\ Cardinality(s) \in Nat /\ Cardinality(s \ {Some(s)}) = Cardinality(s) - 1
          /\ s \ {Some(s)} \in SUBSET T
      BY SomeOf
    <3>2. Cardinality(s \ {Some(s)}) \in Nat
      BY <3>1, FS_Subset, FS_CardinalityType
    <3> QED BY <2>1, <3>1, <3>2
  <2>2. g \in [SUBSET T -> Nat] /\ g[{}] = 0 /\ Summed(g, T)[{}] = 0
    BY DEF Summed
  <2> HIDE DEF g
  <2> QED BY <2>1, <2>2 DEF SumUpTo
<1>2. Bad = {}
  <2> SUFFICES ASSUME Bad # {} PROVE FALSE
    OBVIOUS
  <2> DEFINE m == Min(Bad)
  <2>1. m \in Bad /\ \A x \in Bad : m <= x
    BY LeastOf
  <2> HIDE DEF m
  <2>2. m \in Nat \ {0} /\ m - 1 \in Nat /\ m - 1 \notin Bad
    BY <1>1, <2>1
  <2>3. PICK g : SumUpTo(g, T, m - 1)
    BY <2>2
  <2>4. \E h : SumUpTo(h, T, m - 1 + 1)
    BY <2>2, <2>3, SumUpToNext
  <2>5. m - 1 + 1 = m
    BY <2>2
  <2> QED BY <2>1, <2>4, <2>5
<1>3. Cardinality(T) \in Nat
  BY FS_CardinalityType
<1>4. PICK g : SumUpTo(g, T, Cardinality(T))
  BY <1>2, <1>3
<1>5. ASSUME NEW s \in SUBSET T PROVE g[s] = Summed(g, T)[s]
  BY <1>4, FS_Subset DEF SumUpTo
<1>6. g = Summed(g, T)
  BY <1>4, <1>5 DEF SumUpTo, Summed
<1> QED BY <1>6

\* The sum of numbers up to k.
LEMMA SumSetBound ==
    ASSUME NEW k \in Nat, NEW T \in SUBSET (0 .. k)
    PROVE  Obj!SumSet(T) \in Nat /\ Obj!SumSet(T) <= k * Cardinality(T)
<1>1. IsFiniteSet(T) /\ T \in SUBSET Nat
  <2>1. 0 \in Int /\ k \in Int /\ T \in SUBSET Nat
    OBVIOUS
  <2>2. IsFiniteSet(0 .. k)
    BY <2>1, FS_Interval
  <2> QED BY <2>1, <2>2, FS_Subset
<1>2. PICK h : h = Summed(h, T) /\ Obj!SumSet(T) = h[T]
  BY <1>1, SumExists, SumSetIs
<1> DEFINE Good(s) == h[s] \in Nat /\ h[s] <= k * Cardinality(s)
           Bad == {Cardinality(s) : s \in {x \in SUBSET T : ~Good(x)}}
<1>3. \A s \in SUBSET T : Cardinality(s) \in Nat
  BY <1>1, FS_Subset, FS_CardinalityType
<1>4. Good({})
  <2>1. Cardinality({}) = 0 /\ h[{}] = 0
    BY <1>2, FS_EmptySet DEF Summed
  <2> QED BY <2>1
<1>5. Bad = {}
  <2> SUFFICES ASSUME Bad # {} PROVE FALSE
    OBVIOUS
  <2>1. Bad \in SUBSET Nat
    BY <1>3
  <2>2. PICK s \in SUBSET T : ~Good(s) /\ Cardinality(s) = Min(Bad)
    BY <2>1, LeastOf
  <2>3. \A x \in SUBSET T : ~Good(x) => Cardinality(s) <= Cardinality(x)
    <3>1. \A b \in Bad : Cardinality(s) <= b
      <4> HIDE DEF Bad
      <4> QED BY <2>1, <2>2, LeastOf
    <3> QED BY <3>1, Zenon
  <2>4. s # {}
    BY <1>4, <2>2
  <2> DEFINE r == s \ {Some(s)}
  <2>5. /\ Some(s) \in 0 .. k /\ r \in SUBSET T
        /\ Cardinality(s) \in Nat /\ Cardinality(r) = Cardinality(s) - 1
    BY <1>1, <2>4, SomeOf
  <2>6. Good(r)
    BY <2>3, <2>5
  <2>7. h[s] = Some(s) + h[r]
    BY <1>2, <2>4 DEF Summed
  <2> HIDE DEF r
  <2>8. k * Cardinality(s) = k * Cardinality(r) + k
    BY <2>5
  <2>9. k * Cardinality(r) \in Nat
    BY <1>3, <2>5
  <2> QED BY <2>2, <2>5, <2>6, <2>7, <2>8, <2>9
<1> QED BY <1>2, <1>5

\* The mean of numbers up to k is one.
LEMMA MeanBound ==
    ASSUME NEW k \in Nat, NEW T \in SUBSET (0 .. k), T # {}
    PROVE  Obj!SumSet(T) \div Cardinality(T) \in 0 .. k
<1> DEFINE a == Obj!SumSet(T)  c == Cardinality(T)
<1>1. a \in Nat /\ a <= k * c
  BY SumSetBound
<1>2. c \in Nat \ {0}
  <2>1. 0 \in Int /\ k \in Int
    OBVIOUS
  <2>2. IsFiniteSet(0 .. k)
    BY <2>1, FS_Interval
  <2>3. IsFiniteSet(T)
    BY <2>2, FS_Subset
  <2> QED BY <2>3, FS_EmptySet, FS_CardinalityType
<1> HIDE DEF a, c
<1>3. a \div c \in Int /\ c * (a \div c) <= a /\ a < c * (a \div c) + c
  BY <1>1, <1>2
<1>4. a \div c \in 0 .. k
  BY <1>1, <1>2, <1>3
<1> QED BY <1>4 DEF a, c

-----------------------------------------------------------------------------
(* Point cloud objects: their points                                       *)

\* What is assumed of the constants, with the module's operators.
LEMMA ObjConstants ==
    /\ IsFiniteSet(Cameras) /\ Extent \in Nat \ {0} /\ MaxObjects \in Nat /\ MaxItems \in Nat
    /\ IsFiniteSet(Obj!Objects) /\ IsFiniteSet(Obj!Tiles)
    /\ \A S : Obj!Cardinality(S) = Cardinality(S)
<1>1. /\ IsFiniteSet(Cameras) /\ Extent \in Nat \ {0} /\ MaxObjects \in Nat /\ MaxItems \in Nat
  BY PointCloudsAssumption DEF Obj!ConstantsOK, Obj!IsFiniteSet, IsFiniteSet
<1>2. 1 \in Int /\ MaxObjects \in Int
  BY <1>1
<1>3. IsFiniteSet(Obj!Objects)
  BY <1>2, FS_Interval DEF Obj!Objects
<1>4. IsFiniteSet(Obj!Tiles)
  BY <1>1, FS_SUBSET DEF Obj!Tiles
<1>5. \A S : Obj!Cardinality(S) = Cardinality(S)
  BY DEF Obj!Cardinality, Cardinality
<1> QED BY <1>1, <1>3, <1>4, <1>5

\* The points whose tiles name the cameras that saw them.
Truthful == {p \in Obj!Points : p.tile = p.from}

\* Voxel() keeps places in range and joins tiles as it joins origins.
LEMMA VoxelOf ==
    ASSUME NEW group \in SUBSET Truthful, group # {}
    PROVE  Obj!Voxel(group) \in Truthful
<1> DEFINE S == {q.at : q \in group}
<1>1. Extent - 1 \in Nat /\ S \in SUBSET (0 .. Extent - 1) /\ S # {}
  BY ObjConstants DEF Truthful, Obj!Points, Obj!Places
<1>2. Obj!SumSet(S) \div Cardinality(S) \in Obj!Places
  BY <1>1, MeanBound DEF Obj!Places
<1>3. UNION {q.tile : q \in group} \in Obj!Tiles
  BY DEF Truthful, Obj!Points, Obj!Tiles
<1>4. {q.tile : q \in group} = {q.from : q \in group}
  BY DEF Truthful
<1> QED BY <1>2, <1>3, <1>4, ObjConstants DEF Truthful, Obj!Points, Obj!Voxel

LEMMA VoxelGridOf ==
    ASSUME NEW points \in SUBSET Truthful, NEW cell
    PROVE  Obj!VoxelGrid(points, cell) \in SUBSET Truthful
<1> SUFFICES ASSUME NEW x \in points
             PROVE  Obj!Voxel({q \in points : q.at \div cell = x.at \div cell}) \in Truthful
  BY DEF Obj!VoxelGrid
<1> QED BY VoxelOf

ObjPoints == \A o \in Obj!Objects : objects[o].points \in SUBSET Truthful

ObjBlank == \A o \in Obj!Objects :
    objects[o].impl = "none" => ~Obj!InUse(o) /\ objects[o].items = {}

\* Who has a metadata item.
ObjOwners ==
    /\ \A o, p \in Obj!Objects : \A m \in objects[o].items \cap objects[p].items : o = p
    /\ \A o \in Obj!Objects : \A m \in objects[o].items : deallocated[m] = 0

ObjInv == Obj!TypeOK /\ ObjPoints /\ ObjBlank /\ Obj!CountersTruthful /\ ObjOwners

\* Steps that make a "pcl" object n, and k others that are freed again.
MakesPcl(used, n, points, k) ==
    /\ \A o \in used : Obj!InUse(o)
    /\ Obj!IsNext(n)
    /\ objects' = [Obj!Converted(used) EXCEPT ![n] = Obj!PclObject(points)]
    /\ nAlloc' = Obj!CountConverted(used) + k + 1
    /\ nDealloc' = nDealloc + k
    /\ UNCHANGED <<nRawAlloc, nRawDealloc, deallocated>>

\* Those that make a "points" object, which may have been converted.
MakesPoints(n, new) ==
    /\ Obj!IsNext(n)
    /\ new.impl = "points" /\ new.raw /\ new.items = {} /\ new.points \in SUBSET Truthful
    /\ objects' = [objects EXCEPT ![n] = new]
    /\ nAlloc' = nAlloc + Obj!One(new.pcl)
    /\ nRawAlloc' = nRawAlloc + 1
    /\ UNCHANGED <<nDealloc, nRawDealloc, deallocated>>

NewPcl == \E used \in SUBSET Obj!Objects, n \in Obj!Objects, points \in SUBSET Truthful, k \in Nat :
            MakesPcl(used, n, points, k)
NewPoints == \E n \in Obj!Objects, new \in Obj!Object : MakesPoints(n, new)

LEMMA InputsTruthful == Obj!Inputs \subseteq SUBSET Truthful
BY DEF Obj!Inputs, Truthful

\* What a filter returns is a new cloud of truthful points.
LEMMA FilterMakes ==
    ASSUME ObjInv, NEW used \in SUBSET Obj!Objects, NEW n \in Obj!Objects,
           NEW points \in SUBSET Truthful, Obj!Returns(used, n, points)
    PROVE  NewPcl
<1>1. Obj!CountConverted(used) \in Int
  <2>1. IsFiniteSet(Obj!Unconverted(used))
    BY ObjConstants, FS_Subset DEF Obj!Unconverted
  <2>2. Cardinality(Obj!Unconverted(used)) \in Nat
    BY <2>1, FS_CardinalityType
  <2> QED BY <2>2, ObjConstants DEF Obj!CountConverted, ObjInv, Obj!TypeOK
<1>2. MakesPcl(used, n, points, 0)
  BY <1>1 DEF Obj!Returns, MakesPcl, ObjInv, Obj!TypeOK
<1> QED BY <1>2 DEF NewPcl

\* The filters, one after the other.
LEMMA FilterSteps ==
    ASSUME ObjInv, NEW o \in Obj!Objects, NEW n \in Obj!Objects,
           \/ Obj!Downsample(o, n) \/ Obj!DownsampleVoxelgrid(o, n) \/ Obj!TileFilter(o, n)
           \/ Obj!RemoveOutliers(o, n) \/ Obj!TileMap(o, n) \/ Obj!Crop(o, n)
           \/ Obj!ColorMap(o, n) \/ \E p \in Obj!Objects : Obj!Join(o, p, n)
    PROVE  NewPcl
<1> DEFINE all == objects[o].points
<1>1. all \in SUBSET Truthful
  BY DEF ObjInv, ObjPoints
<1>2. CASE Obj!Downsample(o, n)
  <2>1. PICK cell \in 1 .. Extent, border \in Obj!Places :
            LET below == {p \in all : p.at < border}
            IN  Obj!Returns({o}, n, Obj!VoxelGrid(below, cell)
                                    \cup Obj!VoxelGrid(all \ below, cell))
    BY <1>2 DEF Obj!Downsample
  <2> DEFINE below == {p \in all : p.at < border}
  <2>2. Obj!VoxelGrid(below, cell) \in SUBSET Truthful
    BY <1>1, VoxelGridOf
  <2>3. Obj!VoxelGrid(all \ below, cell) \in SUBSET Truthful
    BY <1>1, VoxelGridOf
  <2>4. Obj!VoxelGrid(below, cell) \cup Obj!VoxelGrid(all \ below, cell) \in SUBSET Truthful
    BY <2>2, <2>3
  <2> QED BY <2>1, <2>4, FilterMakes
<1>3. CASE Obj!DownsampleVoxelgrid(o, n)
  <2>1. PICK cell \in 1 .. Extent : Obj!Returns({o}, n, Obj!VoxelGrid(all, cell))
    BY <1>3 DEF Obj!DownsampleVoxelgrid
  <2> QED BY <1>1, <2>1, VoxelGridOf, FilterMakes
<1>4. CASE Obj!TileFilter(o, n)
  <2>1. PICK tile \in Obj!Tiles : Obj!Returns({o}, n, Obj!OfTile(all, tile))
    BY <1>4 DEF Obj!TileFilter
  <2>2. Obj!OfTile(all, tile) \in SUBSET Truthful
    BY <1>1 DEF Obj!OfTile
  <2> QED BY <2>1, <2>2, FilterMakes
<1>5. CASE Obj!RemoveOutliers(o, n)
  BY <1>1, <1>5, FilterMakes DEF Obj!RemoveOutliers
<1>6. CASE Obj!TileMap(o, n)
  <2> DEFINE Rename(a, b, tile) == IF a \in tile THEN (tile \ {a}) \cup {b} ELSE tile
             Renamed(a, b) ==
                {[p EXCEPT !.tile = Rename(a, b, @), !.from = Rename(a, b, @)] : p \in all}
  <2>1. PICK a \in Cameras, b \in Cameras : Obj!Returns({o}, n, Renamed(a, b))
    BY <1>6 DEF Obj!TileMap
  <2>2. ASSUME NEW p \in all
        PROVE  [p EXCEPT !.tile = Rename(a, b, @), !.from = Rename(a, b, @)] \in Truthful
    <3>1. p \in Obj!Points /\ p.tile = p.from
      BY <1>1 DEF Truthful
    <3>2. Rename(a, b, p.tile) \in Obj!Tiles
      BY <3>1 DEF Obj!Points, Obj!Tiles
    <3> HIDE DEF Rename
    <3> QED BY <3>1, <3>2 DEF Truthful, Obj!Points
  <2>3. Renamed(a, b) \in SUBSET Truthful
    BY <2>2
  <2> HIDE DEF Renamed
  <2> QED BY <2>1, <2>3, FilterMakes
<1>7. CASE Obj!Crop(o, n)
  <2>1. PICK low \in 0 .. Extent, high \in 0 .. Extent :
            Obj!Returns({o}, n, {p \in all : low <= p.at /\ p.at < high})
    BY <1>7 DEF Obj!Crop
  <2> QED BY <1>1, <2>1, FilterMakes
<1>8. CASE Obj!ColorMap(o, n)
  BY <1>1, <1>8, FilterMakes DEF Obj!ColorMap
<1>9. CASE \E p \in Obj!Objects : Obj!Join(o, p, n)
  <2>1. PICK p \in Obj!Objects : Obj!Returns({o, p}, n, all \cup objects[p].points)
    BY <1>9 DEF Obj!Join
  <2>2. all \cup objects[p].points \in SUBSET Truthful
    BY DEF ObjInv, ObjPoints
  <2> QED BY <2>1, <2>2, FilterMakes
<1> QED BY <1>2, <1>3, <1>4, <1>5, <1>6, <1>7, <1>8, <1>9

\* So is what the outlier filter makes of the tiles one by one.
LEMMA PerTileMakes ==
    ASSUME ObjInv, NEW o \in Obj!Objects, NEW n \in Obj!Objects, Obj!RemoveOutliersPerTile(o, n)
    PROVE  NewPcl
<1> DEFINE all == objects[o].points
           tiles == {p.tile : p \in all}
<1>1. all \in SUBSET Truthful
  BY DEF ObjInv, ObjPoints
<1>2. PICK kept \in [tiles -> SUBSET all] :
        objects' = [Obj!Converted({o}) EXCEPT ![n] =
                        Obj!PclObject(UNION {kept[tile] : tile \in tiles})]
  BY DEF Obj!RemoveOutliersPerTile
<1>3. UNION {kept[tile] : tile \in tiles} \in SUBSET Truthful
  BY <1>1
<1>4. Cardinality(tiles) \in Nat
  <2>1. tiles \subseteq Obj!Tiles
    BY <1>1 DEF Truthful, Obj!Points
  <2>2. IsFiniteSet(tiles)
    BY <2>1, ObjConstants, FS_Subset
  <2> QED BY <2>2, FS_CardinalityType
<1>5. /\ Obj!InUse(o) /\ Obj!IsNext(n) /\ UNCHANGED <<nRawAlloc, nRawDealloc, deallocated>>
      /\ nAlloc' = Obj!CountConverted({o}) + Cardinality(tiles) + 1
      /\ nDealloc' = nDealloc + Cardinality(tiles)
  BY ObjConstants DEF Obj!RemoveOutliersPerTile
<1>6. MakesPcl({o}, n, UNION {kept[tile] : tile \in tiles}, Cardinality(tiles))
  <2> HIDE DEF tiles
  <2> QED BY <1>2, <1>5 DEF MakesPcl
<1> QED BY <1>3, <1>4, <1>6 DEF NewPcl

\* Every step is of one of a few kinds.
LEMMA ObjSteps ==
    ASSUME ObjInv, Obj!Next
    PROVE  \/ NewPcl \/ NewPoints
           \/ \E o \in Obj!Objects : Obj!Access(o) \/ Obj!AddItem(o) \/ Obj!Free(o)
           \/ \E o, n \in Obj!Objects : Obj!MoveItems(o, n)
<1>1. ASSUME NEW n \in Obj!Objects, Obj!FromPcl(n) PROVE NewPcl
  <2>1. PICK points \in Obj!Inputs : objects' = [objects EXCEPT ![n] = Obj!PclObject(points)]
    BY <1>1 DEF Obj!FromPcl
  <2>2. Obj!Converted({}) = objects
    BY DEF Obj!Converted, ObjInv, Obj!TypeOK
  <2>3. Obj!CountConverted({}) = nAlloc /\ nAlloc \in Nat /\ nDealloc \in Nat
    <3>1. Obj!Unconverted({}) = {}
      BY DEF Obj!Unconverted
    <3>2. nAlloc \in Nat /\ nDealloc \in Nat
      BY DEF ObjInv, Obj!TypeOK
    <3> QED BY <3>1, <3>2, ObjConstants, FS_EmptySet DEF Obj!CountConverted
  <2>5. nAlloc' = Obj!CountConverted({}) + 0 + 1 /\ nDealloc' = nDealloc + 0
    BY <1>1, <2>3 DEF Obj!FromPcl
  <2>4. MakesPcl({}, n, points, 0)
    BY <1>1, <2>1, <2>2, <2>5, Zenon DEF Obj!FromPcl, MakesPcl
  <2> QED BY <2>4, InputsTruthful DEF NewPcl
<1>2. ASSUME NEW n \in Obj!Objects, Obj!FromPoints(n) PROVE NewPoints
  <2> DEFINE new(points) ==
        [Obj!Nothing EXCEPT !.impl = "points", !.raw = TRUE, !.points = points]
  <2>1. PICK points \in Obj!Inputs : objects' = [objects EXCEPT ![n] = new(points)]
    BY <1>2 DEF Obj!FromPoints
  <2>2. /\ new(points) \in Obj!Object /\ new(points).impl = "points" /\ new(points).raw
        /\ ~new(points).pcl /\ new(points).items = {} /\ new(points).points \in SUBSET Truthful
    BY InputsTruthful DEF Obj!Nothing, Obj!Object, Truthful
  <2>3. /\ Obj!IsNext(n) /\ nAlloc \in Nat /\ nRawAlloc' = nRawAlloc + 1
        /\ UNCHANGED <<nAlloc, nDealloc, nRawDealloc, deallocated>>
    BY <1>2 DEF Obj!FromPoints, ObjInv, Obj!TypeOK
  <2> HIDE DEF new
  <2>4. nAlloc' = nAlloc + Obj!One(new(points).pcl)
    BY <2>2, <2>3 DEF Obj!One
  <2>5. MakesPoints(n, new(points))
    BY <2>1, <2>2, <2>3, <2>4 DEF MakesPoints
  <2> QED BY <2>2, <2>5 DEF NewPoints
<1>3. ASSUME NEW o \in Obj!Objects, NEW n \in Obj!Objects, Obj!FromPacket(o, n) PROVE NewPoints
  <2> DEFINE new == [Obj!Nothing EXCEPT !.impl = "points", !.pcl = TRUE, !.raw = TRUE,
                                        !.points = objects[o].points]
  <2>1. /\ Obj!IsNext(n) /\ nAlloc' = nAlloc + 1 /\ nRawAlloc' = nRawAlloc + 1
        /\ UNCHANGED <<nDealloc, nRawDealloc, deallocated>>
        /\ objects' = [objects EXCEPT ![n] = new]
    BY <1>3 DEF Obj!FromPacket
  <2>2. objects[o].points \in SUBSET Truthful
    BY DEF ObjInv, ObjPoints
  <2>3. /\ new \in Obj!Object /\ new.impl = "points" /\ new.raw
        /\ new.pcl /\ new.items = {} /\ new.points \in SUBSET Truthful
    BY <2>2 DEF Obj!Nothing, Obj!Object, Truthful
  <2> HIDE DEF new
  <2>4. MakesPoints(n, new)
    BY <2>1, <2>3 DEF MakesPoints, Obj!One
  <2> QED BY <2>3, <2>4 DEF NewPoints
<1>4. ASSUME NEW o \in Obj!Objects, NEW n \in Obj!Objects, Obj!ShallowCopy(o, n) PROVE NewPcl
  <2>1. Obj!Returns({o}, n, objects[o].points)
    BY <1>4 DEF Obj!ShallowCopy, Obj!Returns
  <2> QED BY <2>1, FilterMakes DEF ObjInv, ObjPoints
<1> QED BY <1>1, <1>2, <1>3, <1>4, FilterSteps, PerTileMakes
        DEF Obj!Next, Obj!DownsampleReturnsNull

-----------------------------------------------------------------------------
(* Point cloud objects: the counters and the metadata items                *)

Pcls == {o \in Obj!Objects : objects[o].pcl}
Raws == {o \in Obj!Objects : objects[o].raw}

\* The counters count the objects in use.
LEMMA CountersAre ==
    Obj!CountersTruthful <=>
        nAlloc - nDealloc = Cardinality(Pcls) /\ nRawAlloc - nRawDealloc = Cardinality(Raws)
BY ObjConstants DEF Obj!CountersTruthful, Pcls, Raws

LEMMA CountersArePrimed ==
    Obj!CountersTruthful' <=>
        nAlloc' - nDealloc' = Cardinality(Pcls') /\ nRawAlloc' - nRawDealloc' = Cardinality(Raws')
BY ObjConstants DEF Obj!CountersTruthful, Pcls, Raws

LEMMA SubsetsFinite ==
    ASSUME NEW S \in SUBSET Obj!Objects
    PROVE  IsFiniteSet(S) /\ Cardinality(S) \in Nat
BY ObjConstants, FS_Subset, FS_CardinalityType

LEMMA CountBoth ==
    ASSUME NEW S \in SUBSET Obj!Objects, NEW T \in SUBSET Obj!Objects, S \cap T = {}
    PROVE  Cardinality(S \cup T) = Cardinality(S) + Cardinality(T)
<1>1. IsFiniteSet(S) /\ IsFiniteSet(T) /\ Cardinality(S) \in Nat /\ Cardinality(T) \in Nat
  BY SubsetsFinite
<1>2. Cardinality(S \cup T) = Cardinality(S) + Cardinality(T) - Cardinality(S \cap T)
  BY <1>1, FS_Union
<1>3. Cardinality(S \cap T) = 0
  BY FS_EmptySet
<1> QED BY <1>1, <1>2, <1>3

\* One object more, one less.
LEMMA CountOne ==
    ASSUME NEW S \in SUBSET Obj!Objects, NEW n \in Obj!Objects
    PROVE  /\ n \notin S => Cardinality(S \cup {n}) = Cardinality(S) + 1
           /\ n \in S => Cardinality(S \ {n}) = Cardinality(S) - 1
BY SubsetsFinite, FS_AddElement, FS_RemoveElement

ObjTypes ==
    /\ objects \in [Obj!Objects -> Obj!Object]
    /\ nAlloc \in Nat /\ nDealloc \in Nat /\ nRawAlloc \in Nat /\ nRawDealloc \in Nat
    /\ deallocated \in [Obj!Items -> 0 .. 1]

\* The types, without the module's names.
LEMMA ObjTypesAre == Obj!TypeOK <=> ObjTypes
BY DEF Obj!TypeOK, ObjTypes

\* Each step of the point cloud objects keeps the invariant: a cloud is made ...
LEMMA NewPclStep ==
    ASSUME ObjInv, NewPcl
    PROVE  ObjInv'
<1>1. PICK used \in SUBSET Obj!Objects, n \in Obj!Objects, points \in SUBSET Truthful, k \in Nat :
        MakesPcl(used, n, points, k)
  BY DEF NewPcl
<1> DEFINE U == Obj!Unconverted(used)
<1>2. ObjTypes
  BY ObjTypesAre DEF ObjInv
<1>3. /\ objects[n].impl = "none" /\ ~objects[n].pcl /\ ~objects[n].raw /\ objects[n].items = {}
      /\ n \notin used
  BY <1>1 DEF MakesPcl, Obj!IsNext, Obj!InUse, ObjInv, ObjBlank
<1>4. LET new == Obj!PclObject(points)
      IN  /\ new \in Obj!Object /\ new.impl = "pcl" /\ new.pcl /\ ~new.raw
          /\ new.points = points /\ new.items = {}
  BY DEF Obj!PclObject, Obj!Nothing, Obj!Object, Truthful
<1>5. /\ objects' \in [Obj!Objects -> Obj!Object]
      /\ objects'[n] = Obj!PclObject(points)
      /\ \A o \in Obj!Objects : o # n =>
            /\ objects'[o].impl = objects[o].impl /\ objects'[o].raw = objects[o].raw
            /\ objects'[o].points = objects[o].points /\ objects'[o].items = objects[o].items
            /\ objects'[o].pcl <=> objects[o].pcl \/ o \in used
  <2> DEFINE c == Obj!Converted(used)
  <2>1. ASSUME NEW o \in Obj!Objects
        PROVE  /\ c[o] \in Obj!Object /\ c[o].impl = objects[o].impl /\ c[o].raw = objects[o].raw
               /\ c[o].points = objects[o].points /\ c[o].items = objects[o].items
               /\ c[o].pcl <=> objects[o].pcl \/ o \in used
    BY <1>2 DEF ObjTypes, Obj!Converted, Obj!Object
  <2>2. c \in [Obj!Objects -> Obj!Object]
    <3>1. c = [o \in Obj!Objects |-> c[o]]
      BY DEF Obj!Converted
    <3> HIDE DEF c
    <3> QED BY <2>1, <3>1
  <2>3. objects' = [c EXCEPT ![n] = Obj!PclObject(points)]
    BY <1>1 DEF MakesPcl
  <2> HIDE DEF c
  <2> QED BY <1>4, <2>1, <2>2, <2>3
<1>6. U \in SUBSET Obj!Objects /\ U \cap Pcls = {} /\ n \notin U /\ Cardinality(U) \in Nat
  BY <1>3, SubsetsFinite DEF Obj!Unconverted, Pcls
<1>7. Pcls' = Pcls \cup U \cup {n} /\ Raws' = Raws
  BY <1>3, <1>4, <1>5 DEF Obj!Unconverted, Pcls, Raws
<1>8. Cardinality(Pcls') = Cardinality(Pcls) + Cardinality(U) + 1 /\ Cardinality(Pcls) \in Nat
  <2>1. Pcls \in SUBSET Obj!Objects /\ n \notin Pcls /\ Pcls \cup U \in SUBSET Obj!Objects
    BY <1>3, <1>6 DEF Pcls
  <2>2. Cardinality(Pcls \cup U) = Cardinality(Pcls) + Cardinality(U)
    BY <1>6, <2>1, CountBoth
  <2> QED BY <1>6, <1>7, <2>1, <2>2, CountOne, SubsetsFinite
<1>9. /\ nAlloc' = nAlloc + Cardinality(U) + k + 1 /\ nDealloc' = nDealloc + k
      /\ UNCHANGED <<nRawAlloc, nRawDealloc, deallocated>>
  BY <1>1, ObjConstants DEF MakesPcl, Obj!CountConverted
<1> HIDE DEF U
<1>10. Obj!TypeOK'
  <2>1. nAlloc' \in Nat /\ nDealloc' \in Nat
    BY <1>2, <1>6, <1>9 DEF ObjTypes
  <2> QED BY <1>2, <1>5, <1>9, <2>1 DEF Obj!TypeOK, ObjTypes
<1>11. Obj!CountersTruthful'
  <2>1. nAlloc - nDealloc = Cardinality(Pcls) /\ nRawAlloc - nRawDealloc = Cardinality(Raws)
    BY CountersAre DEF ObjInv
  <2>2. nAlloc' - nDealloc' = Cardinality(Pcls')
    BY <1>2, <1>6, <1>8, <1>9, <2>1 DEF ObjTypes
  <2> QED BY <1>7, <1>9, <2>1, <2>2, CountersArePrimed
<1>12. ObjPoints' /\ ObjBlank' /\ ObjOwners'
  <2>1. ObjPoints'
    BY <1>4, <1>5 DEF ObjInv, ObjPoints
  <2>2. ObjBlank'
    <3> SUFFICES ASSUME NEW o \in Obj!Objects, objects'[o].impl = "none"
                 PROVE  ~objects'[o].pcl /\ ~objects'[o].raw /\ objects'[o].items = {}
      BY DEF ObjBlank, Obj!InUse
    <3>1. o # n /\ objects[o].impl = "none"
      BY <1>4, <1>5
    <3>2. ~objects[o].pcl /\ ~objects[o].raw /\ objects[o].items = {}
      BY <3>1 DEF ObjInv, ObjBlank, Obj!InUse
    <3>3. o \notin used
      BY <1>1, <3>2 DEF MakesPcl, Obj!InUse
    <3> QED BY <1>5, <3>1, <3>2, <3>3
  <2>3. ObjOwners'
    BY <1>3, <1>4, <1>5, <1>9 DEF ObjInv, ObjOwners
  <2> QED BY <2>1, <2>2, <2>3
<1> QED BY <1>10, <1>11, <1>12 DEF ObjInv

\* ... or made of points ...
LEMMA NewPointsStep ==
    ASSUME ObjInv, NewPoints
    PROVE  ObjInv'
<1>1. PICK n \in Obj!Objects, new \in Obj!Object : MakesPoints(n, new)
  BY DEF NewPoints
<1>2. ObjTypes
  BY ObjTypesAre DEF ObjInv
<1>3. objects[n].impl = "none" /\ ~objects[n].pcl /\ ~objects[n].raw /\ objects[n].items = {}
  BY <1>1 DEF MakesPoints, Obj!IsNext, Obj!InUse, ObjInv, ObjBlank
<1>4. /\ new.impl = "points" /\ new.raw /\ new.items = {} /\ new.points \in SUBSET Truthful
      /\ new.pcl \in BOOLEAN
      /\ objects' = [objects EXCEPT ![n] = new]
      /\ nRawAlloc' = nRawAlloc + 1 /\ UNCHANGED <<nDealloc, nRawDealloc, deallocated>>
      /\ nAlloc' = IF new.pcl THEN nAlloc + 1 ELSE nAlloc + 0
  BY <1>1 DEF MakesPoints, Obj!One, Obj!Object
<1>5. /\ objects' \in [Obj!Objects -> Obj!Object] /\ objects'[n] = new
      /\ \A o \in Obj!Objects : o # n => objects'[o] = objects[o]
  BY <1>2, <1>4 DEF ObjTypes
<1>6. Pcls' = (IF new.pcl THEN Pcls \cup {n} ELSE Pcls) /\ Raws' = Raws \cup {n}
  BY <1>3, <1>4, <1>5 DEF Pcls, Raws
<1>7. /\ Cardinality(Raws') = Cardinality(Raws) + 1
      /\ Cardinality(Pcls') = IF new.pcl THEN Cardinality(Pcls) + 1 ELSE Cardinality(Pcls)
  <2>1. Pcls \in SUBSET Obj!Objects /\ Raws \in SUBSET Obj!Objects
    BY DEF Pcls, Raws
  <2>2. n \notin Pcls /\ n \notin Raws
    BY <1>3 DEF Pcls, Raws
  <2> QED BY <1>6, <2>1, <2>2, CountOne
<1>8. Obj!TypeOK'
  <2>1. nAlloc' \in Nat /\ nRawAlloc' \in Nat
    BY <1>2, <1>4 DEF ObjTypes
  <2> QED BY <1>2, <1>4, <1>5, <2>1 DEF Obj!TypeOK, ObjTypes
<1>9. Obj!CountersTruthful'
  <2>1. nAlloc - nDealloc = Cardinality(Pcls) /\ nRawAlloc - nRawDealloc = Cardinality(Raws)
    BY CountersAre DEF ObjInv
  <2>2. nRawAlloc' - nRawDealloc' = Cardinality(Raws')
    BY <1>2, <1>4, <1>7, <2>1 DEF ObjTypes
  <2>3. nAlloc' - nDealloc' = Cardinality(Pcls')
    BY <1>2, <1>4, <1>7, <2>1 DEF ObjTypes
  <2> QED BY <2>2, <2>3, CountersArePrimed
<1>10. ObjPoints' /\ ObjBlank' /\ ObjOwners'
  BY <1>3, <1>4, <1>5 DEF ObjInv, ObjPoints, ObjBlank, ObjOwners, Obj!InUse
<1> QED BY <1>8, <1>9, <1>10 DEF ObjInv

\* ... its points are asked for and converted ...
LEMMA AccessStep ==
    ASSUME ObjInv, NEW o \in Obj!Objects, Obj!Access(o)
    PROVE  ObjInv'
<1>1. ObjTypes
  BY ObjTypesAre DEF ObjInv
<1>2. Obj!Unconverted({o}) = {o} /\ ~objects[o].pcl /\ objects[o].raw
  BY DEF Obj!Access, Obj!Unconverted, Obj!InUse
<1>3. /\ nAlloc' = nAlloc + 1
      /\ UNCHANGED <<nDealloc, nRawAlloc, nRawDealloc, deallocated>>
  BY <1>2, ObjConstants, FS_Singleton DEF Obj!Access, Obj!CountConverted
<1>4. /\ objects' \in [Obj!Objects -> Obj!Object] /\ objects'[o].pcl
      /\ \A p \in Obj!Objects :
            /\ objects'[p].impl = objects[p].impl /\ objects'[p].raw = objects[p].raw
            /\ objects'[p].points = objects[p].points /\ objects'[p].items = objects[p].items
            /\ p # o => objects'[p].pcl = objects[p].pcl
  BY <1>1 DEF ObjTypes, Obj!Access, Obj!Converted, Obj!Object
<1>5. Pcls' = Pcls \cup {o} /\ Raws' = Raws
  BY <1>4 DEF Pcls, Raws
<1>6. Cardinality(Pcls') = Cardinality(Pcls) + 1
  BY <1>2, <1>5, CountOne DEF Pcls
<1>7. Obj!TypeOK'
  <2>1. nAlloc' \in Nat
    BY <1>1, <1>3 DEF ObjTypes
  <2> QED BY <1>1, <1>3, <1>4, <2>1 DEF Obj!TypeOK, ObjTypes
<1>8. Obj!CountersTruthful'
  <2>1. nAlloc - nDealloc = Cardinality(Pcls) /\ nRawAlloc - nRawDealloc = Cardinality(Raws)
    BY CountersAre DEF ObjInv
  <2>2. nAlloc' - nDealloc' = Cardinality(Pcls')
    BY <1>1, <1>3, <1>6, <2>1 DEF ObjTypes
  <2> QED BY <1>3, <1>5, <2>1, <2>2, CountersArePrimed
<1>9. ObjPoints' /\ ObjBlank' /\ ObjOwners'
  <2>1. objects[o].impl # "none"
    BY <1>2 DEF ObjInv, ObjBlank, Obj!InUse
  <2>2. ObjPoints' /\ ObjOwners'
    BY <1>3, <1>4 DEF ObjInv, ObjPoints, ObjOwners
  <2>3. ObjBlank'
    BY <1>4, <2>1 DEF ObjInv, ObjBlank, Obj!InUse
  <2> QED BY <2>2, <2>3
<1> QED BY <1>7, <1>8, <1>9 DEF ObjInv

\* Metadata items come and move; the objects stay otherwise as they are.
LEMMA ItemsStep ==
    ASSUME ObjInv, \/ \E o \in Obj!Objects : Obj!AddItem(o)
                   \/ \E o, n \in Obj!Objects : Obj!MoveItems(o, n)
    PROVE  ObjInv'
<1>1. ObjTypes
  BY ObjTypesAre DEF ObjInv
<1> DEFINE Rest ==
      /\ objects' \in [Obj!Objects -> Obj!Object]
      /\ \A p \in Obj!Objects :
            /\ objects'[p].impl = objects[p].impl /\ objects'[p].raw = objects[p].raw
            /\ objects'[p].points = objects[p].points /\ objects'[p].pcl = objects[p].pcl
            /\ objects[p].impl = "none" => objects'[p].items = objects[p].items
      /\ UNCHANGED <<nAlloc, nDealloc, nRawAlloc, nRawDealloc, deallocated>>
<1>2. Rest /\ ObjOwners' => ObjInv'
  <2> SUFFICES ASSUME Rest, ObjOwners' PROVE ObjInv'
    OBVIOUS
  <2>1. Obj!TypeOK'
    BY <1>1 DEF Obj!TypeOK, ObjTypes
  <2>2. Pcls' = Pcls /\ Raws' = Raws
    BY DEF Pcls, Raws
  <2>3. Obj!CountersTruthful'
    BY <2>2, CountersAre, CountersArePrimed DEF ObjInv
  <2>4. ObjPoints' /\ ObjBlank'
    BY DEF ObjInv, ObjPoints, ObjBlank, Obj!InUse
  <2> QED BY <2>1, <2>3, <2>4 DEF ObjInv
<1>3. ASSUME NEW o \in Obj!Objects, Obj!AddItem(o) PROVE Rest /\ ObjOwners'
  <2>1. PICK m \in Obj!Items :
            /\ deallocated[m] = 0 /\ \A p \in Obj!Objects : m \notin objects[p].items
            /\ objects' = [objects EXCEPT ![o].items = @ \cup {m}]
    BY <1>3 DEF Obj!AddItem
  <2>2. /\ Obj!InUse(o) /\ objects[o].impl # "none"
        /\ UNCHANGED <<nAlloc, nDealloc, nRawAlloc, nRawDealloc, deallocated>>
    BY <1>3 DEF Obj!AddItem, ObjInv, ObjBlank
  <2>3. /\ objects' \in [Obj!Objects -> Obj!Object] /\ objects'[o].items = objects[o].items \cup {m}
        /\ \A p \in Obj!Objects :
            /\ objects'[p].impl = objects[p].impl /\ objects'[p].raw = objects[p].raw
            /\ objects'[p].points = objects[p].points /\ objects'[p].pcl = objects[p].pcl
            /\ p # o => objects'[p].items = objects[p].items
    BY <1>1, <2>1 DEF ObjTypes, Obj!Object
  <2>4. Rest
    BY <2>2, <2>3
  <2>5. ObjOwners'
    BY <2>1, <2>2, <2>3 DEF ObjInv, ObjOwners
  <2> QED BY <2>4, <2>5
<1>4. ASSUME NEW o \in Obj!Objects, NEW n \in Obj!Objects, Obj!MoveItems(o, n)
      PROVE  Rest /\ ObjOwners'
  <2>1. /\ o # n /\ objects[o].impl # "none" /\ objects[n].impl # "none"
        /\ UNCHANGED <<nAlloc, nDealloc, nRawAlloc, nRawDealloc, deallocated>>
    BY <1>4 DEF Obj!MoveItems, ObjInv, ObjBlank
  <2>2. objects' = [objects EXCEPT ![n].items = @ \cup objects[o].items, ![o].items = {}]
    BY <1>4 DEF Obj!MoveItems
  <2>3. /\ objects' \in [Obj!Objects -> Obj!Object]
        /\ objects'[n].items = objects[n].items \cup objects[o].items /\ objects'[o].items = {}
        /\ \A p \in Obj!Objects :
            /\ objects'[p].impl = objects[p].impl /\ objects'[p].raw = objects[p].raw
            /\ objects'[p].points = objects[p].points /\ objects'[p].pcl = objects[p].pcl
            /\ p # o /\ p # n => objects'[p].items = objects[p].items
    BY <1>1, <2>1, <2>2 DEF ObjTypes, Obj!Object
  <2>4. Rest
    BY <2>1, <2>3
  <2>5. ObjOwners'
    BY <2>1, <2>3 DEF ObjInv, ObjOwners
  <2> QED BY <2>4, <2>5
<1> QED BY <1>2, <1>3, <1>4

\* ... it is freed.
LEMMA FreeStep ==
    ASSUME ObjInv, NEW o \in Obj!Objects, Obj!Free(o)
    PROVE  ObjInv'
<1>1. ObjTypes
  BY ObjTypesAre DEF ObjInv
<1>2. /\ objects[o].impl # "none" /\ UNCHANGED <<nAlloc, nRawAlloc>>
      /\ nDealloc' = IF objects[o].pcl THEN nDealloc + 1 ELSE nDealloc + 0
      /\ nRawDealloc' = IF objects[o].raw THEN nRawDealloc + 1 ELSE nRawDealloc + 0
      /\ deallocated' = [m \in Obj!Items |->
            IF m \in objects[o].items THEN deallocated[m] + 1 ELSE deallocated[m] + 0]
  BY DEF Obj!Free, Obj!One
<1>3. /\ objects' \in [Obj!Objects -> Obj!Object]
      /\ objects'[o].impl = objects[o].impl /\ ~objects'[o].pcl /\ ~objects'[o].raw
      /\ objects'[o].points = {} /\ objects'[o].items = {}
      /\ \A p \in Obj!Objects : p # o => objects'[p] = objects[p]
  <2> DEFINE new == [Obj!Nothing EXCEPT !.impl = objects[o].impl]
  <2>1. objects' = [objects EXCEPT ![o] = new]
    BY DEF Obj!Free
  <2>2. /\ new \in Obj!Object /\ new.impl = objects[o].impl /\ ~new.pcl /\ ~new.raw
        /\ new.points = {} /\ new.items = {}
    BY <1>1 DEF ObjTypes, Obj!Object, Obj!Nothing
  <2> HIDE DEF new
  <2> QED BY <1>1, <2>1, <2>2 DEF ObjTypes
<1>4. Pcls' = Pcls \ {o} /\ Raws' = Raws \ {o}
  BY <1>3 DEF Pcls, Raws
<1>5. Pcls \in SUBSET Obj!Objects /\ Raws \in SUBSET Obj!Objects
  BY DEF Pcls, Raws
<1>6. /\ Cardinality(Pcls') =
           IF objects[o].pcl THEN Cardinality(Pcls) - 1 ELSE Cardinality(Pcls)
      /\ Cardinality(Raws') =
           IF objects[o].raw THEN Cardinality(Raws) - 1 ELSE Cardinality(Raws)
  <2>1. /\ o \in Pcls <=> objects[o].pcl
        /\ o \in Raws <=> objects[o].raw
    BY DEF Pcls, Raws
  <2>2. /\ o \notin Pcls => Pcls \ {o} = Pcls
        /\ o \notin Raws => Raws \ {o} = Raws
    OBVIOUS
  <2> QED BY <1>4, <1>5, <2>1, <2>2, CountOne
<1>7. Obj!CountersTruthful'
  <2>1. nAlloc - nDealloc = Cardinality(Pcls) /\ nRawAlloc - nRawDealloc = Cardinality(Raws)
    BY CountersAre DEF ObjInv
  <2>2. nAlloc' - nDealloc' = Cardinality(Pcls')
    BY <1>1, <1>2, <1>6, <2>1 DEF ObjTypes
  <2>3. nRawAlloc' - nRawDealloc' = Cardinality(Raws')
    BY <1>1, <1>2, <1>6, <2>1 DEF ObjTypes
  <2> QED BY <2>2, <2>3, CountersArePrimed
<1>8. \A m \in Obj!Items : m \in objects[o].items => deallocated[m] = 0
  BY DEF ObjInv, ObjOwners
<1>9. Obj!TypeOK'
  <2>1. nDealloc' \in Nat /\ nRawDealloc' \in Nat
    BY <1>1, <1>2 DEF ObjTypes
  <2>2. \A m \in Obj!Items : deallocated'[m] \in 0 .. 1
    BY <1>1, <1>2, <1>8 DEF ObjTypes
  <2>3. deallocated' \in [Obj!Items -> 0 .. 1]
    BY <1>2, <2>2
  <2> QED BY <1>1, <1>2, <1>3, <2>1, <2>3 DEF Obj!TypeOK, ObjTypes
<1>10. ObjPoints' /\ ObjBlank'
  BY <1>2, <1>3 DEF ObjInv, ObjPoints, ObjBlank, Obj!InUse
<1>11. ObjOwners'
  <2>1. ASSUME NEW p \in Obj!Objects, NEW q \in Obj!Objects,
               NEW m \in objects'[p].items \cap objects'[q].items
        PROVE  p = q
    <3>1. p # o /\ q # o /\ m \in objects[p].items \cap objects[q].items
      BY <1>3, <2>1
    <3> QED BY <3>1 DEF ObjInv, ObjOwners
  <2>2. ASSUME NEW p \in Obj!Objects, NEW m \in objects'[p].items PROVE deallocated'[m] = 0
    <3>1. p # o /\ m \in objects[p].items
      BY <1>3, <2>2
    <3>2. m \notin objects[o].items /\ deallocated[m] = 0
      BY <3>1 DEF ObjInv, ObjOwners
    <3>3. m \in Obj!Items
      BY <1>1, <3>1 DEF ObjTypes, Obj!Object
    <3> QED BY <1>2, <3>2, <3>3
  <2> QED BY <2>1, <2>2 DEF ObjOwners
<1> QED BY <1>7, <1>9, <1>10, <1>11 DEF ObjInv

\* The invariant holds at the start.
LEMMA ObjStart == Obj!Init => ObjInv
<1> SUFFICES ASSUME Obj!Init PROVE ObjInv
  OBVIOUS
<1>1. /\ objects \in [Obj!Objects -> Obj!Object]
      /\ \A o \in Obj!Objects :
            /\ ~objects[o].pcl /\ ~objects[o].raw
            /\ objects[o].points = {} /\ objects[o].items = {}
  BY DEF Obj!Init, Obj!Nothing, Obj!Object
<1>2. Obj!TypeOK
  BY <1>1 DEF Obj!Init, Obj!TypeOK
<1>3. Obj!CountersTruthful
  <2>1. Pcls = {} /\ Raws = {}
    BY <1>1 DEF Pcls, Raws
  <2> QED BY <2>1, CountersAre, FS_EmptySet DEF Obj!Init
<1>4. ObjPoints /\ ObjBlank /\ ObjOwners
  BY <1>1 DEF ObjPoints, ObjBlank, ObjOwners, Obj!InUse
<1> QED BY <1>2, <1>3, <1>4 DEF ObjInv

LEMMA ObjStep ==
    ASSUME ObjInv, [Obj!Next]_pointclouds
    PROVE  ObjInv'
<1>1. CASE Obj!Next
  BY <1>1, ObjSteps, NewPclStep, NewPointsStep, AccessStep, ItemsStep, FreeStep
<1>2. CASE UNCHANGED pointclouds
  <2>1. UNCHANGED <<objects, nAlloc, nDealloc, nRawAlloc, nRawDealloc, deallocated>>
    BY <1>2 DEF pointclouds
  <2>2. Obj!TypeOK' /\ ObjPoints' /\ ObjBlank' /\ ObjOwners'
    BY <2>1 DEF ObjInv, Obj!TypeOK, ObjPoints, ObjBlank, ObjOwners, Obj!InUse
  <2>3. Obj!CountersTruthful'
    BY <2>1 DEF ObjInv, Obj!CountersTruthful
  <2> QED BY <2>2, <2>3 DEF ObjInv
<1> QED BY <1>1, <1>2

\* What the properties say.
LEMMA ObjSays == ObjInv => Accounted /\ TileTellsCameras /\ Obj!TypeOK
<1> SUFFICES ASSUME ObjInv PROVE Accounted /\ TileTellsCameras
  BY DEF ObjInv
<1>1. Obj!ItemsOwned
  <2> SUFFICES ASSUME NEW m \in Obj!Items
               PROVE  Cardinality({o \in Obj!Objects : m \in objects[o].items})
                        + deallocated[m] <= 1
    <3>1. \A S : Obj!Cardinality(S) = Cardinality(S)
      BY ObjConstants
    <3> QED BY <3>1 DEF Obj!ItemsOwned
  <2> DEFINE H == {o \in Obj!Objects : m \in objects[o].items}
  <2>1. deallocated[m] \in 0 .. 1
    BY DEF ObjInv, Obj!TypeOK
  <2> SUFFICES Cardinality(H) + deallocated[m] <= 1
    OBVIOUS
  <2>2. CASE H = {}
    <3>1. Cardinality(H) = 0
      BY <2>2, FS_EmptySet
    <3> HIDE DEF H
    <3> QED BY <2>1, <3>1
  <2>3. CASE H # {}
    <3>1. PICK o \in Obj!Objects : m \in objects[o].items
      BY <2>3
    <3>2. H = {o} /\ deallocated[m] = 0
      BY <3>1 DEF ObjInv, ObjOwners
    <3>3. Cardinality(H) = 1
      BY <3>2, FS_Singleton
    <3> HIDE DEF H
    <3> QED BY <3>2, <3>3
  <2> QED BY <2>2, <2>3
<1>2. Accounted
  BY <1>1 DEF ObjInv, Accounted, Obj!Accounted
<1>3. TileTellsCameras
  BY DEF ObjInv, ObjPoints, Truthful, TileTellsCameras, Obj!TileTellsCameras
<1> QED BY <1>2, <1>3

-----------------------------------------------------------------------------
(* Frames: the inductive invariant                                         *)

\* The camera that gives a cloud its timestamp.
First == IF master # 0 THEN master ELSE 1

FraTypes ==
    /\ Fra!TypeOK
    /\ kind \in {"kinect", "realsense", "orbbec"} /\ master \in 0 .. NumCameras
    /\ recording \in [Fra!Cameras -> SUBSET Fra!Times]
    /\ since \in [Fra!Cameras -> Nat] /\ seeks \in 0 .. MaxSeeks
    /\ cloud.timestamp \in Nat
    /\ cloud.frames \in [Fra!Cameras -> Fra!Frames] /\ cloud.since \in [Fra!Cameras -> Nat]

Capturing == phase \in {"capture", "captured"}

\* The first camera comes first, the others have a frame when it is not their
\* turn any more.
FraTurns ==
    /\ phase \in {"start", "align"} => kind = "realsense"
    /\ phase \in {"idle", "captured"} => left = {}
    /\ phase = "capture" /\ timestamp = 0 => left = Fra!Cameras
    /\ phase = "captured" => timestamp # 0
    /\ Capturing /\ timestamp # 0 => First \notin left
    /\ Capturing => \A c \in Fra!Cameras \ left : currentFrame[c] # Fra!None

\* What the cameras have captured fits the first one's frame.
FraFit ==
    Capturing /\ timestamp # 0 /\ "depth" \notin flawed =>
        /\ currentFrame[First].at = timestamp
        /\ \A c \in Fra!Cameras \ left : currentFrame[c].at >= timestamp

FraEpochs ==
    \A c \in Fra!Cameras :
        /\ since[c] <= epoch[c] /\ epoch[c] <= seeks
        /\ seekAt # 0 /\ seekAt <= c => epoch[c] < seeks

\* A Kinect camera has no frame from before the capture, but after a failure.
FraFresh ==
    kind = "kinect" /\ "read" \notin flawed =>
        /\ phase = "idle" /\ ended = {} => \A c \in Fra!Cameras : currentFrame[c] = Fra!None
        /\ Capturing => \A c \in Fra!Cameras :
                currentFrame[c] = Fra!None \/ currentFrame[c].epoch >= since[c]

\* Camera c's frame of the last cloud is older than what is still to be read,
\* and than the frame c has captured.
Behind(c) ==
    /\ cloud.frames[c].epoch <= epoch[c]
    /\ cloud.frames[c].epoch = epoch[c] => \A t \in unread[c] : t > cloud.frames[c].at
Between(c) ==
    currentFrame[c] # Fra!None =>
        /\ cloud.frames[c].epoch <= currentFrame[c].epoch /\ currentFrame[c].epoch <= epoch[c]
        /\ cloud.frames[c].epoch = currentFrame[c].epoch =>
             currentFrame[c].at > cloud.frames[c].at
        /\ currentFrame[c].epoch = epoch[c] => \A t \in unread[c] : t > currentFrame[c].at

FraOrder ==
    /\ kind # "realsense" => \A c \in Fra!Cameras : Behind(c) /\ Between(c)
    /\ Behind(First)
    /\ Capturing /\ timestamp # 0 => Between(First)

FraClouds ==
    /\ "depth" \notin flawed => cloud.timestamp = cloud.frames[First].at
    /\ FramesFit

FraInv ==
    FraTypes /\ FraTurns /\ FraFit /\ FraEpochs /\ FraFresh /\ FraOrder /\ FraClouds

LEMMA FraConstants ==
    NumCameras \in Nat \ {0} /\ MaxTime \in Nat /\ MaxSeeks \in Nat
BY FrameSyncAssumption DEF Fra!ConstantsOK

LEMMA FirstIs ==
    ASSUME FraTypes
    PROVE  First \in Fra!Cameras /\ (\A c : Fra!Turn(c) /\ left = Fra!Cameras => c = First)
<1>1. First \in Fra!Cameras
  BY FraConstants DEF FraTypes, First, Fra!Cameras
<1>2. ASSUME NEW c, Fra!Turn(c), left = Fra!Cameras PROVE c = First
  <2>1. Fra!Min(Fra!Cameras) = 1
    BY FraConstants DEF Fra!Min, Fra!Cameras
  <2> QED BY <1>2, <2>1, FraConstants DEF Fra!Turn, First, FraTypes, Fra!Cameras
<1> QED BY <1>1, <1>2

\* The next frame of a camera.
LEMMA NextFrameIs ==
    ASSUME FraTypes, NEW c \in Fra!Cameras, NEW f \in Fra!Frames, Fra!NextFrame(c, f)
    PROVE  /\ f.at \in Fra!Times /\ f.at \in unread[c] /\ f.epoch = epoch[c] /\ f # Fra!None
           /\ unread' \in [Fra!Cameras -> SUBSET Fra!Times]
           /\ \A t \in unread'[c] : t > f.at
           /\ \A d \in Fra!Cameras : unread'[d] \subseteq unread[d]
<1>1. unread \in [Fra!Cameras -> SUBSET Fra!Times] /\ Fra!Times \subseteq Nat
  BY FraConstants DEF FraTypes, Fra!TypeOK, Fra!Times
<1>2. /\ unread[c] # {} /\ f = [at |-> Fra!Min(unread[c]), epoch |-> epoch[c]]
      /\ unread' = [unread EXCEPT ![c] = @ \ {f.at}]
  BY DEF Fra!NextFrame
<1>3. unread[c] \in SUBSET Nat /\ Fra!Min(unread[c]) = Min(unread[c])
  BY <1>1 DEF Fra!Min, Min
<1>4. f.at \in unread[c] /\ \A t \in unread[c] : f.at <= t
  BY <1>2, <1>3, LeastOf
<1>5. f # Fra!None
  BY <1>1, <1>4, FraConstants DEF Fra!None, Fra!Times
<1>6. \A t \in unread'[c] : t > f.at
  <2>1. unread'[c] = unread[c] \ {f.at}
    BY <1>1, <1>2
  <2> QED BY <1>3, <1>4, <2>1
<1> QED BY <1>1, <1>2, <1>4, <1>5, <1>6

LEMMA FrameTypes ==
    ASSUME NEW f \in Fra!Frames
    PROVE  /\ f.at \in 0 .. MaxTime /\ f.epoch \in 0 .. MaxSeeks
           /\ f.at = 0 => f = Fra!None
BY FraConstants DEF Fra!Frames, Fra!Times, Fra!None

-----------------------------------------------------------------------------
(* wait_for_captured_frameset() returns                                    *)

LEMMA CaptureReturns ==
    ASSUME FraTypes, FraTurns, NEW c \in Fra!Cameras, Fra!Turn(c), phase = "capture",
           NEW result \in Nat \ {0}, Fra!Returns(c, result)
    PROVE  /\ phase' \in {"capture", "captured"} /\ left' = left \ {c}
           /\ phase' = "captured" => left' = {}
           /\ timestamp' = (IF timestamp = 0 THEN result ELSE timestamp) /\ timestamp' # 0
           /\ timestamp = 0 => c = First
           /\ timestamp # 0 => c # First
           /\ First \notin left'
<1>1. c \in left
  BY DEF Fra!Turn
<1>2. timestamp = 0 => c = First
  BY FirstIs DEF FraTurns
<1>3. timestamp # 0 => First \notin left
  BY DEF FraTurns, Capturing
<1> QED BY <1>1, <1>2, <1>3 DEF Fra!Returns, FraTypes, Fra!TypeOK

LEMMA StartReturns ==
    ASSUME FraTypes, FraTurns, NEW c \in Fra!Cameras, Fra!Turn(c), phase # "capture",
           NEW result, Fra!Returns(c, result)
    PROVE  /\ phase \in {"start", "align"} /\ kind = "realsense"
           /\ phase' \in {"start", "align", "idle"} /\ (phase' = "idle" => left' = {})
<1>1. phase \in {"start", "align"} /\ kind = "realsense"
  BY DEF Fra!Turn, FraTurns, FraTypes, Fra!TypeOK
<1> QED BY <1>1 DEF Fra!Returns

LEMMA ReturnsTypes ==
    ASSUME FraTypes, FraTurns, NEW c \in Fra!Cameras, Fra!Turn(c),
           NEW result \in 0 .. MaxTime, Fra!Returns(c, result)
    PROVE  /\ reading' \in BOOLEAN
           /\ timestamp' \in 0 .. MaxTime /\ earliest' \in 0 .. MaxTime
           /\ left' \subseteq Fra!Cameras
           /\ phase' \in {"start", "align", "idle", "capture", "captured"}
<1>1. timestamp \in 0 .. MaxTime /\ earliest \in 0 .. MaxTime /\ left \subseteq Fra!Cameras
  BY DEF FraTypes, Fra!TypeOK
<1>2. Fra!Max({timestamp, result}) \in 0 .. MaxTime
  <2>1. timestamp \in Int /\ result \in Int
    BY <1>1, FraConstants
  <2>2. \E x \in {timestamp, result} : \A y \in {timestamp, result} : x >= y
    BY <2>1
  <2>3. Fra!Max({timestamp, result}) \in {timestamp, result}
    BY <2>2 DEF Fra!Max
  <2> QED BY <1>1, <2>3
<1>3. timestamp' \in 0 .. MaxTime /\ earliest' \in 0 .. MaxTime /\ reading' \in BOOLEAN
  BY <1>1, <1>2 DEF Fra!Returns
<1>4. phase \in {"start", "align", "capture"}
  BY DEF Fra!Turn, FraTurns, FraTypes, Fra!TypeOK
<1>5. left' \subseteq Fra!Cameras
  BY <1>1, <1>4 DEF Fra!Returns
<1>6. phase' \in {"start", "align", "idle", "capture", "captured"}
  BY <1>4 DEF Fra!Returns
<1> QED BY <1>3, <1>5, <1>6

-----------------------------------------------------------------------------
(* The steps                                                               *)

\* A camera's step.
CameraStep(c) ==
    \/ Fra!Reuse(c) \/ Fra!ReadFirst(c) \/ Fra!Read(c) \/ Fra!ReadWithoutDepth(c)
    \/ Fra!ReadFails(c) \/ Fra!RecordingEnds(c)
SeekStep == Fra!SeekCamera \/ \E t \in Fra!Times : Fra!Seek(t)

\* What a camera's step leaves alone.
LEMMA CameraLeaves ==
    ASSUME NEW c \in Fra!Cameras, CameraStep(c)
    PROVE  UNCHANGED <<kind, master, recording, seekTo, seekAt, epoch, seeks, since, cloud>>
BY DEF CameraStep, Fra!Reuse, Fra!ReadFirst, Fra!Read, Fra!ReadWithoutDepth, Fra!ReadFails,
       Fra!RecordingEnds, Fra!seeking

LEMMA SeekLeaves ==
    ASSUME SeekStep
    PROVE  UNCHANGED <<kind, master, recording, currentFrame, previous, ended, phase, left,
                       reading, timestamp, earliest, since, flawed, cloud>>
BY DEF SeekStep, Fra!SeekCamera, Fra!Seek, Fra!machine

\* A frame the camera holds.
LEMMA HeldFrame ==
    ASSUME FraTypes, NEW c \in Fra!Cameras, NEW held \in Fra!Reusable(c)
    PROVE  /\ held \in Fra!Frames /\ held.at \in Nat \ {0} /\ held.at <= MaxTime
           /\ Fra!Wanted > 0 /\ held.at > Fra!Wanted
           /\ kind = "kinect" => held = currentFrame[c]
           /\ kind # "orbbec"
<1>1. /\ currentFrame[c] \in Fra!Frames /\ previous[c] \in Fra!Frames /\ Fra!None \in Fra!Frames
      /\ Fra!None.at = 0 /\ Fra!Wanted \in Nat
  BY DEF FraTypes, Fra!TypeOK, Fra!Frames, Fra!None, Fra!Wanted
<1>2. Fra!Wanted > 0 /\ held.at > Fra!Wanted
  BY DEF Fra!Reusable
<1>3. held = CASE kind = "kinect" -> currentFrame[c]
               [] kind = "realsense" -> previous[c]
               [] kind = "orbbec" -> Fra!None
  BY DEF Fra!Reusable
<1>4. held \in Fra!Frames /\ kind # "orbbec" /\ (kind = "kinect" => held = currentFrame[c])
  BY <1>1, <1>2, <1>3 DEF FraTypes
<1> QED BY <1>1, <1>2, <1>4, FrameTypes

LEMMA FraTypesCamera ==
    ASSUME FraTypes, FraTurns, NEW c \in Fra!Cameras, CameraStep(c)
    PROVE  FraTypes'
<1> DEFINE Typed ==
      /\ unread' \in [Fra!Cameras -> SUBSET Fra!Times]
      /\ currentFrame' \in [Fra!Cameras -> Fra!Frames] /\ previous' \in [Fra!Cameras -> Fra!Frames]
      /\ ended' \subseteq Fra!Cameras /\ left' \subseteq Fra!Cameras /\ reading' \in BOOLEAN
      /\ phase' \in {"start", "align", "idle", "capture", "captured"}
      /\ timestamp' \in 0 .. MaxTime /\ earliest' \in 0 .. MaxTime
<1>1. Typed => FraTypes'
  BY CameraLeaves DEF FraTypes, Fra!TypeOK
<1>2. /\ unread \in [Fra!Cameras -> SUBSET Fra!Times]
      /\ currentFrame \in [Fra!Cameras -> Fra!Frames] /\ previous \in [Fra!Cameras -> Fra!Frames]
      /\ ended \subseteq Fra!Cameras /\ left \subseteq Fra!Cameras /\ reading \in BOOLEAN
      /\ phase \in {"start", "align", "idle", "capture", "captured"}
      /\ timestamp \in 0 .. MaxTime /\ earliest \in 0 .. MaxTime
  BY DEF FraTypes, Fra!TypeOK
<1>3. Fra!None \in Fra!Frames
  BY DEF Fra!Frames
<1>4. CASE Fra!Reuse(c)
  <2>1. PICK held \in Fra!Reusable(c) :
            currentFrame' = [currentFrame EXCEPT ![c] = held] /\ Fra!Returns(c, held.at)
    BY <1>4 DEF Fra!Reuse
  <2>2. held \in Fra!Frames /\ held.at \in 0 .. MaxTime
    BY HeldFrame, FraConstants
  <2>3. Fra!Turn(c) /\ UNCHANGED <<unread, previous, ended>>
    BY <1>4 DEF Fra!Reuse
  <2> QED BY <1>1, <1>2, <2>1, <2>2, <2>3, ReturnsTypes
<1>5. CASE Fra!ReadFirst(c)
  <2>1. PICK f \in Fra!Frames : Fra!NextFrame(c, f) /\ previous' = [previous EXCEPT ![c] = f]
    BY <1>5 DEF Fra!ReadFirst
  <2> QED BY <1>1, <1>2, <1>5, <2>1, NextFrameIs DEF Fra!ReadFirst
<1>6. CASE Fra!Read(c)
  <2>1. PICK f \in Fra!Frames :
            /\ Fra!NextFrame(c, f)
            /\ previous' = IF kind = "realsense" /\ currentFrame[c] # Fra!None
                           THEN [previous EXCEPT ![c] = currentFrame[c]] ELSE previous
            /\ currentFrame' = [currentFrame EXCEPT ![c] = f]
            /\ IF Fra!Fits(f)
               THEN Fra!Returns(c, f.at)
               ELSE reading' = TRUE /\ UNCHANGED <<phase, left, timestamp, earliest>>
    BY <1>6 DEF Fra!Read
  <2>2. /\ unread' \in [Fra!Cameras -> SUBSET Fra!Times] /\ f.at \in 0 .. MaxTime
    BY <2>1, NextFrameIs, FrameTypes
  <2>3. Fra!Turn(c) /\ UNCHANGED ended
    BY <1>6 DEF Fra!Read, Fra!Reads
  <2>4. /\ currentFrame' \in [Fra!Cameras -> Fra!Frames]
        /\ previous' \in [Fra!Cameras -> Fra!Frames]
    BY <1>2, <2>1
  <2>5. /\ reading' \in BOOLEAN /\ left' \subseteq Fra!Cameras
        /\ phase' \in {"start", "align", "idle", "capture", "captured"}
        /\ timestamp' \in 0 .. MaxTime /\ earliest' \in 0 .. MaxTime
    BY <1>2, <2>1, <2>2, <2>3, ReturnsTypes
  <2> QED BY <1>1, <1>2, <2>2, <2>3, <2>4, <2>5
<1>7. CASE Fra!ReadWithoutDepth(c)
  <2>1. PICK f \in Fra!Frames :
            Fra!NextFrame(c, f) /\ currentFrame' = [currentFrame EXCEPT ![c] = f]
    BY <1>7 DEF Fra!ReadWithoutDepth
  <2>2. /\ unread' \in [Fra!Cameras -> SUBSET Fra!Times] /\ f.at \in Fra!Times
    BY <2>1, NextFrameIs
  <2>3. 1 \in 0 .. MaxTime
    BY <2>2, FraConstants DEF Fra!Times
  <2>4. Fra!Turn(c) /\ Fra!Returns(c, 1) /\ UNCHANGED <<previous, ended>>
    BY <1>7 DEF Fra!ReadWithoutDepth, Fra!Reads
  <2> QED BY <1>1, <1>2, <2>1, <2>2, <2>3, <2>4, ReturnsTypes
<1>8. CASE Fra!ReadFails(c)
  BY <1>1, <1>2, <1>3, <1>8 DEF Fra!ReadFails, Fra!GivesUp
<1>9. CASE Fra!RecordingEnds(c)
  <2>1. /\ Fra!Turn(c) /\ UNCHANGED <<unread, previous>> /\ ended' \subseteq Fra!Cameras
        /\ currentFrame' = [currentFrame EXCEPT ![c] = Fra!None]
        /\ Fra!GivesUp(c) \/ Fra!Returns(c, 0)
    BY <1>2, <1>9 DEF Fra!RecordingEnds, Fra!Reads, Fra!GivesUp
  <2>2. 0 \in 0 .. MaxTime
    BY FraConstants
  <2>3. CASE Fra!GivesUp(c)
    BY <1>1, <1>2, <1>3, <2>1, <2>3 DEF Fra!GivesUp
  <2>4. CASE Fra!Returns(c, 0)
    BY <1>1, <1>2, <1>3, <2>1, <2>2, <2>4, ReturnsTypes
  <2> QED BY <2>1, <2>3, <2>4
<1> QED BY <1>4, <1>5, <1>6, <1>7, <1>8, <1>9 DEF CameraStep

-----------------------------------------------------------------------------
(* The start                                                               *)

\* The invariant holds at the start.
LEMMA FraStart == Fra!Init => FraInv
<1> SUFFICES ASSUME Fra!Init PROVE FraInv
  OBVIOUS
<1>0. /\ Fra!None \in Fra!Frames /\ Fra!None.at = 0 /\ Fra!None.epoch = 0
      /\ \A t \in Fra!Times : t \in Nat /\ t > 0
      /\ cloud.timestamp = 0
      /\ \A c \in Fra!Cameras : cloud.frames[c] = Fra!None /\ cloud.since[c] = 0
      /\ \A c \in Fra!Cameras : currentFrame[c] = Fra!None
      /\ cloud.frames \in [Fra!Cameras -> Fra!Frames] /\ cloud.since \in [Fra!Cameras -> Nat]
  BY FraConstants DEF Fra!Frames, Fra!None, Fra!Times, Fra!Init, Fra!NoCloud, Fra!NoFrames
<1>1. FraTypes
  <2>1. /\ kind \in {"kinect", "realsense", "orbbec"} /\ master \in 0 .. NumCameras
        /\ recording \in [Fra!Cameras -> SUBSET Fra!Times] /\ unread = recording
    BY FrameSyncAssumption, FraConstants DEF Fra!Init, Fra!ConstantsOK, Fra!Cameras
  <2>2. currentFrame \in [Fra!Cameras -> Fra!Frames] /\ previous \in [Fra!Cameras -> Fra!Frames]
    BY <1>0 DEF Fra!Init, Fra!NoFrames
  <2>3. /\ ended = {} /\ left \subseteq Fra!Cameras /\ reading \in BOOLEAN
        /\ phase \in {"start", "idle"}
    BY DEF Fra!Init
  <2>4. /\ timestamp = 0 /\ earliest = 0 /\ seekAt = 0 /\ seeks = 0
        /\ epoch \in [Fra!Cameras -> {0}] /\ since \in [Fra!Cameras -> {0}]
    BY DEF Fra!Init
  <2> QED BY <1>0, <2>1, <2>2, <2>3, <2>4, FraConstants DEF FraTypes, Fra!TypeOK
<1>2. First \in Fra!Cameras
  BY <1>1, FirstIs
<1>3. FraTurns /\ FraFit
  BY DEF FraTurns, FraFit, Capturing, Fra!Init
<1>4. FraEpochs
  BY FraConstants DEF FraEpochs, Fra!Init
<1>5. FraFresh
  BY <1>0 DEF FraFresh, Capturing, Fra!Init
<1>6. \A c \in Fra!Cameras : Behind(c) /\ Between(c)
  <2> SUFFICES ASSUME NEW c \in Fra!Cameras PROVE Behind(c) /\ Between(c)
    OBVIOUS
  <2>1. epoch[c] = 0 /\ unread[c] \subseteq Fra!Times
    BY <1>1 DEF Fra!Init, FraTypes, Fra!TypeOK
  <2> QED BY <1>0, <2>1 DEF Behind, Between
<1>7. FraOrder
  BY <1>2, <1>6 DEF FraOrder
<1>8. FraClouds
  BY <1>0, <1>2 DEF FraClouds, FramesFit, Fra!FramesFit, Fra!FromBeforeSeek
<1> QED BY <1>1, <1>3, <1>4, <1>5, <1>7, <1>8 DEF FraInv

-----------------------------------------------------------------------------
(* seek()                                                                  *)

\* The remainder of a number that is small already.
LEMMA RoundAgain ==
    ASSUME NEW n \in Nat, NEW i \in 0 .. n
    PROVE  i % (n + 1) = i
OBVIOUS

\* What seek() does to the recordings.
LEMMA SeekTypes ==
    ASSUME FraTypes, FraEpochs, SeekStep
    PROVE  /\ unread' \in [Fra!Cameras -> SUBSET Fra!Times]
           /\ seekAt' \in 0 .. NumCameras /\ seeks' \in 0 .. MaxSeeks
           /\ epoch' \in [Fra!Cameras -> 0 .. MaxSeeks]
           /\ FraEpochs'
           /\ \A c \in Fra!Cameras :
                \/ epoch'[c] = epoch[c] /\ unread'[c] = unread[c]
                \/ epoch'[c] = epoch[c] + 1
<1>0. /\ unread \in [Fra!Cameras -> SUBSET Fra!Times] /\ seekAt \in 0 .. NumCameras
      /\ seeks \in 0 .. MaxSeeks /\ epoch \in [Fra!Cameras -> 0 .. MaxSeeks]
      /\ recording \in [Fra!Cameras -> SUBSET Fra!Times] /\ since \in [Fra!Cameras -> Nat]
      /\ since' = since /\ Fra!Cameras = 1 .. NumCameras
      /\ NumCameras \in Nat \ {0} /\ MaxSeeks \in Nat
  BY SeekLeaves, FraConstants DEF FraTypes, Fra!TypeOK, Fra!Cameras
<1>1. ASSUME NEW t \in Fra!Times, Fra!Seek(t)
      PROVE  /\ unread' = unread /\ epoch' = epoch /\ seekAt' = 1 /\ seeks' = seeks + 1
             /\ seeks < MaxSeeks
  BY <1>1 DEF Fra!Seek
<1>2. CASE \E t \in Fra!Times : Fra!Seek(t)
  <2>1. FraEpochs'
    BY <1>0, <1>1, <1>2 DEF FraEpochs
  <2> QED BY <1>0, <1>1, <1>2, <2>1
<1>3. CASE Fra!SeekCamera
  <2>1. seekAt \in Fra!Cameras /\ seeks' = seeks
    BY <1>3 DEF Fra!SeekCamera
  <2>2. CASE Fra!Position(seekAt, seekTo) > Fra!Max(recording[seekAt])
    <3>1. seekAt' = 0 /\ unread' = unread /\ epoch' = epoch
      BY <1>3, <2>2 DEF Fra!SeekCamera
    <3>2. FraEpochs'
      BY <1>0, <2>1, <3>1 DEF FraEpochs
    <3> QED BY <1>0, <2>1, <3>1, <3>2
  <2>3. CASE ~(Fra!Position(seekAt, seekTo) > Fra!Max(recording[seekAt]))
    <3>1. /\ unread' = [unread EXCEPT ![seekAt] =
                {t \in recording[seekAt] : t >= Fra!Position(seekAt, seekTo)}]
          /\ epoch' = [epoch EXCEPT ![seekAt] = @ + 1]
          /\ seekAt' = (seekAt + 1) % (NumCameras + 1)
      BY <1>3, <2>3 DEF Fra!SeekCamera
    <3>2. seekAt' = 0 \/ seekAt' = seekAt + 1
      <4>1. seekAt \in 1 .. NumCameras
        BY <1>0, <2>1
      <4>2. CASE seekAt = NumCameras
        BY <1>0, <3>1, <4>2
      <4>3. CASE seekAt # NumCameras
        <5>1. seekAt + 1 \in 0 .. NumCameras
          BY <1>0, <4>1, <4>3
        <5> QED BY <3>1, <5>1, RoundAgain, FraConstants
      <4> QED BY <4>2, <4>3
    <3>3. seekAt' \in 0 .. NumCameras
      BY <1>0, <3>1
    <3>4. seekAt \in 1 .. NumCameras /\ epoch[seekAt] < seeks
      BY <1>0, <2>1 DEF FraEpochs
    <3>5. \A c \in Fra!Cameras : epoch'[c] = IF c = seekAt THEN epoch[c] + 1 ELSE epoch[c]
      BY <1>0, <3>1
    <3>6. FraEpochs'
      <4> SUFFICES ASSUME NEW c \in Fra!Cameras
                   PROVE  /\ since[c] <= epoch'[c] /\ epoch'[c] <= seeks
                          /\ seekAt' # 0 /\ seekAt' <= c => epoch'[c] < seeks
        BY <1>0, <2>1 DEF FraEpochs
      <4>1. c \in 1 .. NumCameras /\ epoch[c] \in Nat /\ since[c] \in Nat /\ seeks \in Nat
        BY <1>0
      <4>2. /\ since[c] <= epoch[c] /\ epoch[c] <= seeks
            /\ seekAt # 0 /\ seekAt <= c => epoch[c] < seeks
        BY DEF FraEpochs
      <4> QED BY <3>2, <3>4, <3>5, <4>1, <4>2
    <3>7. epoch' \in [Fra!Cameras -> 0 .. MaxSeeks]
      BY <1>0, <2>1, <3>1, <3>4
    <3>8. unread' \in [Fra!Cameras -> SUBSET Fra!Times]
      BY <1>0, <2>1, <3>1
    <3>9. \A c \in Fra!Cameras : c # seekAt => unread'[c] = unread[c]
      BY <1>0, <3>1
    <3> QED BY <1>0, <2>1, <3>3, <3>5, <3>6, <3>7, <3>8, <3>9
  <2> QED BY <2>2, <2>3
<1> QED BY <1>2, <1>3 DEF SeekStep

\* Numbers of frames, for the comparisons.
LEMMA FrameNumbers ==
    ASSUME FraTypes, NEW c \in Fra!Cameras
    PROVE  /\ cloud.frames[c] \in Fra!Frames /\ currentFrame[c] \in Fra!Frames
           /\ cloud.frames[c].at \in Nat /\ cloud.frames[c].epoch \in Nat
           /\ currentFrame[c].at \in Nat /\ currentFrame[c].epoch \in Nat
           /\ epoch[c] \in Nat /\ since[c] \in Nat /\ unread[c] \subseteq Nat
           /\ timestamp \in Nat
<1>1. cloud.frames[c] \in Fra!Frames /\ currentFrame[c] \in Fra!Frames
  BY DEF FraTypes, Fra!TypeOK
<1>2. /\ epoch[c] \in Nat /\ since[c] \in Nat /\ unread[c] \subseteq Nat /\ timestamp \in Nat
  BY FraConstants DEF FraTypes, Fra!TypeOK, Fra!Times
<1> QED BY <1>1, <1>2, FrameTypes, FraConstants

\* seek() keeps the invariant, in the middle of a capture too.
LEMMA SeekKeeps ==
    ASSUME FraInv, SeekStep
    PROVE  FraInv'
<1>1. FraTypes' /\ FraEpochs'
  BY SeekTypes, SeekLeaves DEF FraInv, FraTypes, Fra!TypeOK
<1>2. FraTurns' /\ FraFit' /\ FraFresh'
  BY SeekLeaves DEF FraInv, FraTurns, FraFit, FraFresh, Capturing, First
<1>3. FraClouds'
  BY SeekLeaves DEF FraInv, FraClouds, First, FramesFit, Fra!FramesFit, Fra!FromBeforeSeek
<1>4. ASSUME NEW c \in Fra!Cameras
      PROVE  (Behind(c) => Behind(c)') /\ (Between(c) => Between(c)')
  <2>1. UNCHANGED <<cloud, currentFrame>>
    BY SeekLeaves
  <2>2. \/ epoch'[c] = epoch[c] /\ unread'[c] = unread[c]
        \/ epoch'[c] = epoch[c] + 1
    BY SeekTypes DEF FraInv
  <2>3. /\ cloud.frames[c].epoch \in Nat /\ currentFrame[c].epoch \in Nat /\ epoch[c] \in Nat
    BY FrameNumbers DEF FraInv
  <2>4. Behind(c) => Behind(c)'
    BY <2>1, <2>2, <2>3 DEF Behind
  <2>5. Between(c) => Between(c)'
    BY <2>1, <2>2, <2>3 DEF Between
  <2> QED BY <2>4, <2>5
<1>5. FraOrder'
  <2>1. First' = First /\ First \in Fra!Cameras
    BY SeekLeaves, FirstIs DEF First, FraInv
  <2>2. UNCHANGED <<kind, phase, timestamp>>
    BY SeekLeaves
  <2> QED BY <1>4, <2>1, <2>2 DEF FraInv, FraOrder, Capturing
<1> QED BY <1>1, <1>2, <1>3, <1>5 DEF FraInv

-----------------------------------------------------------------------------
(* A capture begins, and its cloud is made                                 *)

\* A capture begins.
LEMMA BeginKeeps ==
    ASSUME FraInv, Fra!Begin
    PROVE  FraInv'
<1>1. /\ phase = "idle" /\ ended = {} /\ phase' = "capture" /\ left' = Fra!Cameras
      /\ timestamp' = 0 /\ since' = epoch
      /\ UNCHANGED <<kind, master, recording, unread, currentFrame, previous, ended, reading,
                     earliest, seekTo, seekAt, epoch, seeks, flawed, cloud>>
  BY DEF Fra!Begin, Fra!seeking
<1>2. FraTypes'
  BY <1>1, FraConstants DEF FraInv, FraTypes, Fra!TypeOK
<1>3. First \in Fra!Cameras /\ First' = First
  BY <1>1, FirstIs DEF FraInv, First
<1>4. FraTurns' /\ FraFit'
  BY <1>1 DEF FraTurns, FraFit, Capturing
<1>5. FraEpochs'
  <2> SUFFICES ASSUME NEW c \in Fra!Cameras
               PROVE  /\ epoch[c] <= epoch[c] /\ epoch[c] <= seeks
                      /\ seekAt # 0 /\ seekAt <= c => epoch[c] < seeks
    BY <1>1 DEF FraEpochs
  <2>1. epoch[c] \in Nat
    BY FrameNumbers DEF FraInv
  <2> QED BY <2>1 DEF FraInv, FraEpochs
<1>6. FraFresh'
  BY <1>1 DEF FraInv, FraFresh, Capturing
<1>7. FraOrder'
  <2>1. \A c \in Fra!Cameras : (Behind(c) => Behind(c)') /\ (Between(c) => Between(c)')
    BY <1>1 DEF Behind, Between
  <2> QED BY <1>1, <1>3, <2>1 DEF FraInv, FraOrder, Capturing
<1>8. FraClouds'
  BY <1>1, <1>3 DEF FraInv, FraClouds, FramesFit, Fra!FramesFit, Fra!FromBeforeSeek
<1> QED BY <1>2, <1>4, <1>5, <1>6, <1>7, <1>8 DEF FraInv

\* What is known of the frames of a cloud that is made.
LEMMA MadeOf ==
    ASSUME FraInv, Fra!MakeCloud
    PROVE  /\ cloud'.timestamp = timestamp /\ cloud'.frames = currentFrame
           /\ cloud'.since = since /\ phase = "captured" /\ phase' = "idle"
           /\ currentFrame' = IF kind = "realsense" THEN currentFrame ELSE Fra!NoFrames
           /\ timestamp # 0 /\ left = {}
           /\ UNCHANGED <<kind, master, recording, unread, previous, ended, left, reading,
                          timestamp, earliest, seekTo, seekAt, epoch, seeks, since, flawed>>
           /\ First \in Fra!Cameras
           /\ \A c \in Fra!Cameras : currentFrame[c] # Fra!None
           /\ Between(First) /\ (kind # "realsense" => \A c \in Fra!Cameras : Between(c))
<1>1. /\ phase = "captured" /\ phase' = "idle"
      /\ cloud' = [timestamp |-> timestamp, frames |-> currentFrame, since |-> since]
      /\ currentFrame' = IF kind = "realsense" THEN currentFrame ELSE Fra!NoFrames
      /\ UNCHANGED <<kind, master, recording, unread, previous, ended, left, reading,
                     timestamp, earliest, seekTo, seekAt, epoch, seeks, since, flawed>>
  BY DEF Fra!MakeCloud, Fra!seeking
<1>2. timestamp # 0 /\ left = {} /\ \A c \in Fra!Cameras : currentFrame[c] # Fra!None
  BY <1>1 DEF FraInv, FraTurns, Capturing
<1>3. Between(First) /\ (kind # "realsense" => \A c \in Fra!Cameras : Between(c))
  BY <1>1, <1>2 DEF FraInv, FraOrder, Capturing
<1> QED BY <1>1, <1>2, <1>3, FirstIs DEF FraInv

\* A cloud is made of what the cameras have captured.
LEMMA MakeCloudKeeps ==
    ASSUME FraInv, Fra!MakeCloud
    PROVE  FraInv'
<1>0. First' = First /\ First \in Fra!Cameras
  BY MadeOf DEF First
<1>1. FraTypes'
  <2>1. Fra!None \in Fra!Frames
    BY DEF Fra!Frames
  <2>2. currentFrame' \in [Fra!Cameras -> Fra!Frames]
    BY <2>1, MadeOf DEF FraInv, FraTypes, Fra!TypeOK, Fra!NoFrames
  <2>3. cloud'.timestamp \in Nat /\ cloud'.frames \in [Fra!Cameras -> Fra!Frames]
        /\ cloud'.since \in [Fra!Cameras -> Nat]
    BY MadeOf, FraConstants DEF FraInv, FraTypes, Fra!TypeOK
  <2> QED BY <2>2, <2>3, MadeOf DEF FraInv, FraTypes, Fra!TypeOK
<1>2. FraTurns' /\ FraFit'
  BY MadeOf DEF FraInv, FraTurns, FraFit, Capturing
<1>3. FraEpochs'
  BY MadeOf DEF FraInv, FraEpochs
<1>4. FraFresh'
  BY MadeOf DEF FraFresh, Capturing, Fra!NoFrames
<1>5. ASSUME NEW c \in Fra!Cameras, Between(c) PROVE Behind(c)'
  <2>1. cloud'.frames[c] = currentFrame[c] /\ currentFrame[c] # Fra!None
        /\ UNCHANGED <<epoch, unread>>
    BY MadeOf
  <2> QED BY <1>5, <2>1 DEF Behind, Between
<1>6. ASSUME NEW c \in Fra!Cameras, kind # "realsense" PROVE Between(c)'
  BY <1>6, MadeOf DEF Between, Fra!NoFrames
<1>7. FraOrder'
  <2>1. Behind(First)' /\ (kind # "realsense" => \A c \in Fra!Cameras : Behind(c)')
    BY <1>0, <1>5, MadeOf
  <2>2. kind' = kind /\ ~Capturing'
    BY MadeOf DEF Capturing
  <2> QED BY <1>0, <1>6, <2>1, <2>2 DEF FraOrder
<1>8. FraClouds'
  <2>1. /\ cloud'.timestamp = timestamp /\ cloud'.frames = currentFrame
        /\ cloud'.since = since /\ UNCHANGED <<kind, flawed>> /\ left = {}
        /\ timestamp # 0 /\ Capturing
    BY MadeOf DEF Capturing
  <2>2. "depth" \notin flawed =>
            /\ cloud'.timestamp = cloud'.frames[First].at
            /\ \A c \in Fra!Cameras : cloud'.frames[c].at >= cloud'.timestamp
    BY <2>1 DEF FraInv, FraFit
  <2>3. kind = "kinect" /\ "read" \notin flawed =>
            \A c \in Fra!Cameras : ~(cloud'.frames[c].epoch < cloud'.since[c])
    <3> SUFFICES ASSUME kind = "kinect" /\ "read" \notin flawed, NEW c \in Fra!Cameras
                 PROVE  ~(currentFrame[c].epoch < since[c])
      BY <2>1
    <3>1. currentFrame[c].epoch >= since[c]
      BY <2>1, MadeOf DEF FraInv, FraFresh
    <3>2. currentFrame[c].epoch \in Nat /\ since[c] \in Nat
      BY FrameNumbers DEF FraInv
    <3> QED BY <3>1, <3>2
  <2>4. FramesFit'
    BY <2>1, <2>2, <2>3 DEF FramesFit, Fra!FramesFit, Fra!FromBeforeSeek
  <2> QED BY <1>0, <2>1, <2>2, <2>4 DEF FraClouds
<1> QED BY <1>1, <1>2, <1>3, <1>4, <1>7, <1>8 DEF FraInv

\* Time advances.
LEMMA MakeCloudAdvances ==
    ASSUME FraInv, Fra!MakeCloud
    PROVE  Fra!Advances
<1> SUFFICES ASSUME Fra!SameEpochs
             PROVE  /\ "depth" \notin flawed => cloud'.timestamp > cloud.timestamp
                    /\ kind # "realsense" =>
                          \A c \in Fra!Cameras : cloud'.frames[c].at > cloud.frames[c].at
  BY DEF Fra!Advances
<1>1. ASSUME NEW c \in Fra!Cameras, Between(c) PROVE cloud'.frames[c].at > cloud.frames[c].at
  <2>1. cloud'.frames[c] = currentFrame[c] /\ currentFrame[c] # Fra!None
    BY MadeOf
  <2>2. currentFrame[c].epoch = cloud.frames[c].epoch
    BY <2>1 DEF Fra!SameEpochs
  <2> QED BY <1>1, <2>1, <2>2 DEF Between
<1>2. "depth" \notin flawed =>
          timestamp = currentFrame[First].at /\ cloud.timestamp = cloud.frames[First].at
  BY MadeOf DEF FraInv, FraFit, FraClouds, Capturing
<1> QED BY <1>1, <1>2, MadeOf

-----------------------------------------------------------------------------
(* The steps of a camera.  In a capture one of these happens.              *)

\* The camera's wait goes on: nothing, or a frame that is too old.
GoesOn(c) ==
    /\ UNCHANGED <<phase, left, timestamp, ended, flawed>>
    /\ \/ currentFrame' = currentFrame
       \/ /\ timestamp # 0
          /\ \E f \in Fra!Frames :
                Fra!NextFrame(c, f) /\ currentFrame' = [currentFrame EXCEPT ![c] = f]

\* It is over: with a frame that is used again, ...
UsesAgain(c) ==
    \E held \in Fra!Reusable(c) :
        /\ currentFrame' = [currentFrame EXCEPT ![c] = held] /\ Fra!Returns(c, held.at)
        /\ UNCHANGED <<unread, ended, flawed>>

\* ... with the next one, ...
UsesNext(c) ==
    \E f \in Fra!Frames :
        /\ Fra!NextFrame(c, f) /\ currentFrame' = [currentFrame EXCEPT ![c] = f]
        /\ \/ Fra!Fits(f) /\ Fra!Returns(c, f.at) /\ UNCHANGED flawed
           \/ kind = "orbbec" /\ Fra!Returns(c, 1) /\ flawed' = flawed \cup {"depth"}
        /\ UNCHANGED ended

\* ... or without any.
Fails(c) ==
    /\ phase' = "idle" /\ left' = {} /\ timestamp' = timestamp
    /\ currentFrame' = [currentFrame EXCEPT ![c] = Fra!None]
    /\ unread' = unread
    /\ flawed \subseteq flawed' /\ ("depth" \in flawed' => "depth" \in flawed)
    /\ ended \subseteq ended'
    /\ kind = "kinect" => c \in ended' \/ "read" \in flawed'

LEMMA InCapture ==
    ASSUME FraTypes, FraTurns, phase = "capture", NEW c \in Fra!Cameras, CameraStep(c)
    PROVE  /\ Fra!Turn(c)
           /\ GoesOn(c) \/ UsesAgain(c) \/ UsesNext(c) \/ Fails(c)
<1>1. CASE Fra!Reuse(c)
  BY <1>1 DEF Fra!Reuse, UsesAgain
<1>2. CASE Fra!ReadFirst(c)
  BY <1>2 DEF Fra!ReadFirst, Fra!Reads, GoesOn
<1>3. CASE Fra!Read(c)
  <2>1. Fra!Turn(c) /\ UNCHANGED <<ended, flawed>>
    BY <1>3 DEF Fra!Read, Fra!Reads
  <2>2. PICK f \in Fra!Frames :
            /\ Fra!NextFrame(c, f) /\ currentFrame' = [currentFrame EXCEPT ![c] = f]
            /\ IF Fra!Fits(f)
               THEN Fra!Returns(c, f.at)
               ELSE reading' = TRUE /\ UNCHANGED <<phase, left, timestamp, earliest>>
    BY <1>3 DEF Fra!Read
  <2>3. CASE Fra!Fits(f)
    BY <2>1, <2>2, <2>3 DEF UsesNext
  <2>4. CASE ~Fra!Fits(f)
    <3>1. timestamp # 0
      BY <2>4 DEF Fra!Fits, Fra!Wanted
    <3> QED BY <2>1, <2>2, <2>4, <3>1 DEF GoesOn
  <2> QED BY <2>3, <2>4
<1>4. CASE Fra!ReadWithoutDepth(c)
  BY <1>4 DEF Fra!ReadWithoutDepth, Fra!Reads, UsesNext
<1>5. CASE Fra!ReadFails(c)
  BY <1>5 DEF Fra!ReadFails, Fra!Reads, Fra!GivesUp, Fails
<1>6. CASE Fra!RecordingEnds(c)
  BY <1>6 DEF Fra!RecordingEnds, Fra!Reads, Fra!GivesUp, Fails
<1> QED BY <1>1, <1>2, <1>3, <1>4, <1>5, <1>6 DEF CameraStep

\* Before the first capture.
LEMMA AtStart ==
    ASSUME FraTypes, FraTurns, phase # "capture", NEW c \in Fra!Cameras, CameraStep(c)
    PROVE  /\ kind = "realsense" /\ ~Capturing /\ phase \in {"start", "align"}
           /\ phase' \in {"start", "align", "idle"} /\ (phase' = "idle" => left' = {})
           /\ flawed' = flawed
<1>1. Fra!Turn(c)
  BY DEF CameraStep, Fra!Reuse, Fra!ReadFirst, Fra!Read, Fra!ReadWithoutDepth, Fra!ReadFails,
     Fra!RecordingEnds, Fra!Reads
<1>2. phase \in {"start", "align"} /\ kind = "realsense"
  BY <1>1 DEF Fra!Turn, FraTurns, FraTypes, Fra!TypeOK
<1>3. UNCHANGED <<phase, left>> \/ \E result : Fra!Returns(c, result)
  BY <1>2 DEF CameraStep, Fra!Reuse, Fra!ReadFirst, Fra!Read, Fra!ReadWithoutDepth,
     Fra!ReadFails, Fra!RecordingEnds
<1>4. phase' \in {"start", "align", "idle"} /\ (phase' = "idle" => left' = {})
  BY <1>1, <1>2, <1>3, StartReturns
<1>5. flawed' = flawed
  BY <1>2 DEF CameraStep, Fra!Reuse, Fra!ReadFirst, Fra!Read, Fra!ReadWithoutDepth,
     Fra!ReadFails, Fra!RecordingEnds
<1> QED BY <1>2, <1>4, <1>5 DEF Capturing

\* Recordings are only read on.
LEMMA ReadsOn ==
    ASSUME FraTypes, NEW c \in Fra!Cameras, CameraStep(c)
    PROVE  \A d \in Fra!Cameras : unread'[d] \subseteq unread[d]
<1>1. ASSUME NEW f \in Fra!Frames, Fra!NextFrame(c, f)
      PROVE  \A d \in Fra!Cameras : unread'[d] \subseteq unread[d]
  BY <1>1, NextFrameIs
<1>2. unread' = unread \/ \E f \in Fra!Frames : Fra!NextFrame(c, f)
  BY DEF CameraStep, Fra!Reuse, Fra!ReadFirst, Fra!Read, Fra!ReadWithoutDepth, Fra!ReadFails,
     Fra!RecordingEnds
<1> QED BY <1>1, <1>2

-----------------------------------------------------------------------------
(* Each part of the invariant                                              *)

\* The first camera of a capture is the one whose turn comes first.
LEMMA CameraTurns ==
    ASSUME FraTypes, FraTurns, NEW c \in Fra!Cameras, CameraStep(c)
    PROVE  FraTurns' /\ First' = First
<1>0. First' = First /\ kind' = kind /\ First \in Fra!Cameras
  BY CameraLeaves, FirstIs DEF First
<1>1. CASE phase # "capture"
  <2>1. /\ kind = "realsense" /\ phase' \in {"start", "align", "idle"}
        /\ phase' = "idle" => left' = {}
    BY <1>1, AtStart
  <2> QED BY <1>0, <2>1 DEF FraTurns, Capturing
<1>2. CASE phase = "capture"
  <2>0. /\ Fra!Turn(c) /\ currentFrame \in [Fra!Cameras -> Fra!Frames]
        /\ timestamp = 0 => left = Fra!Cameras
        /\ timestamp # 0 => First \notin left
        /\ \A d \in Fra!Cameras \ left : currentFrame[d] # Fra!None
        /\ c \in left
    BY <1>2, InCapture DEF FraTurns, Capturing, FraTypes, Fra!TypeOK, Fra!Turn
  <2>1. CASE GoesOn(c)
    <3>1. \A d \in Fra!Cameras \ left : currentFrame'[d] = currentFrame[d]
      BY <2>0, <2>1 DEF GoesOn
    <3>2. UNCHANGED <<phase, left, timestamp>>
      BY <2>1 DEF GoesOn
    <3> QED BY <1>0, <1>2, <2>0, <3>1, <3>2 DEF FraTurns, Capturing
  <2>2. ASSUME NEW f \in Fra!Frames, f # Fra!None, NEW result \in Nat \ {0},
               currentFrame' = [currentFrame EXCEPT ![c] = f], Fra!Returns(c, result)
        PROVE  FraTurns'
    <3>1. /\ phase' \in {"capture", "captured"} /\ left' = left \ {c}
          /\ phase' = "captured" => left' = {}
          /\ timestamp' # 0 /\ First \notin left'
      BY <1>2, <2>0, <2>2, CaptureReturns
    <3>2. \A d \in Fra!Cameras \ left' : currentFrame'[d] # Fra!None
      BY <2>0, <2>2, <3>1
    <3> QED BY <1>0, <3>1, <3>2 DEF FraTurns, Capturing
  <2>3. CASE UsesAgain(c)
    <3>1. PICK held \in Fra!Reusable(c) :
              currentFrame' = [currentFrame EXCEPT ![c] = held] /\ Fra!Returns(c, held.at)
      BY <2>3 DEF UsesAgain
    <3>2. held \in Fra!Frames /\ held.at \in Nat \ {0} /\ held # Fra!None
      BY HeldFrame DEF Fra!None
    <3> QED BY <1>0, <2>2, <3>1, <3>2
  <2>4. CASE UsesNext(c)
    <3>1. PICK f \in Fra!Frames :
              /\ Fra!NextFrame(c, f) /\ currentFrame' = [currentFrame EXCEPT ![c] = f]
              /\ Fra!Returns(c, f.at) \/ Fra!Returns(c, 1)
      BY <2>4 DEF UsesNext
    <3>2. f # Fra!None /\ f.at \in Nat \ {0}
      BY <3>1, NextFrameIs, FraConstants DEF Fra!Times
    <3>3. 1 \in Nat \ {0}
      OBVIOUS
    <3> QED BY <1>0, <2>2, <3>1, <3>2, <3>3
  <2>5. CASE Fails(c)
    BY <1>0, <2>5 DEF Fails, FraTurns, Capturing
  <2> QED BY <1>2, <2>1, <2>3, <2>4, <2>5, InCapture
<1> QED BY <1>0, <1>1, <1>2

\* A frame that ends a wait is not older than the one of the first camera.
LEMMA CameraFit ==
    ASSUME FraTypes, FraTurns, FraFit, NEW c \in Fra!Cameras, CameraStep(c)
    PROVE  FraFit'
<1>0. First' = First /\ First \in Fra!Cameras
  BY CameraTurns, FirstIs
<1>1. CASE phase # "capture"
  BY <1>1, AtStart DEF FraFit, Capturing
<1>2. CASE phase = "capture"
  <2>0. /\ Fra!Turn(c) /\ currentFrame \in [Fra!Cameras -> Fra!Frames] /\ timestamp \in Nat
        /\ timestamp # 0 => First \notin left
        /\ timestamp # 0 /\ "depth" \notin flawed =>
            /\ currentFrame[First].at = timestamp
            /\ \A d \in Fra!Cameras \ left : currentFrame[d].at >= timestamp
        /\ c \in left
    BY <1>2, InCapture, FrameNumbers DEF FraTurns, FraFit, Capturing, FraTypes, Fra!TypeOK, Fra!Turn
  <2>1. CASE GoesOn(c)
    <3>1. timestamp # 0 => \A d \in Fra!Cameras \ left : currentFrame'[d] = currentFrame[d]
      BY <2>0, <2>1 DEF GoesOn
    <3>2. UNCHANGED <<phase, left, timestamp, flawed>>
      BY <2>1 DEF GoesOn
    <3> QED BY <1>0, <2>0, <3>1, <3>2 DEF FraFit
  <2>2. ASSUME NEW f \in Fra!Frames, f.at \in Nat \ {0}, timestamp # 0 => f.at >= timestamp,
               currentFrame' = [currentFrame EXCEPT ![c] = f], Fra!Returns(c, f.at),
               flawed' = flawed
        PROVE  FraFit'
    <3>1. /\ left' = left \ {c}
          /\ timestamp = 0 => c = First
          /\ timestamp' = (IF timestamp = 0 THEN f.at ELSE timestamp)
      BY <1>2, <2>0, <2>2, CaptureReturns
    <3>2. CASE timestamp = 0
      <4>1. c = First /\ left = Fra!Cameras /\ timestamp' = f.at
        BY <1>2, <3>1, <3>2, <2>2, <2>0, CaptureReturns DEF FraTurns
      <4>2. currentFrame'[First] = f /\ \A d \in Fra!Cameras \ left' : d = First
        BY <1>0, <2>0, <2>2, <3>1, <4>1
      <4> QED BY <1>0, <2>2, <4>1, <4>2 DEF FraFit
    <3>3. CASE timestamp # 0
      <4>1. /\ left' = left \ {c} /\ timestamp' = timestamp
        BY <1>2, <2>0, <2>2, <3>3, CaptureReturns
      <4>2. \A d \in Fra!Cameras : currentFrame'[d] = IF d = c THEN f ELSE currentFrame[d]
        BY <2>0, <2>2
      <4> QED BY <1>0, <2>0, <2>2, <3>3, <4>1, <4>2 DEF FraFit
    <3> QED BY <3>2, <3>3
  <2>3. CASE UsesAgain(c)
    <3>1. PICK held \in Fra!Reusable(c) :
              /\ currentFrame' = [currentFrame EXCEPT ![c] = held] /\ Fra!Returns(c, held.at)
              /\ flawed' = flawed
      BY <2>3 DEF UsesAgain
    <3>2. /\ held \in Fra!Frames /\ held.at \in Nat \ {0} /\ held.at > Fra!Wanted
      BY HeldFrame
    <3>3. Fra!Wanted = timestamp
      BY <1>2 DEF Fra!Wanted
    <3>4. held.at >= timestamp
      BY <2>0, <3>2, <3>3
    <3> QED BY <2>2, <3>1, <3>2, <3>4
  <2>4. CASE UsesNext(c)
    <3>1. PICK f \in Fra!Frames :
              /\ Fra!NextFrame(c, f) /\ currentFrame' = [currentFrame EXCEPT ![c] = f]
              /\ \/ Fra!Fits(f) /\ Fra!Returns(c, f.at) /\ flawed' = flawed
                 \/ flawed' = flawed \cup {"depth"}
      BY <2>4 DEF UsesNext
    <3>2. f.at \in Nat \ {0}
      BY <3>1, NextFrameIs, FraConstants DEF Fra!Times
    <3>3. Fra!Fits(f) => (timestamp # 0 => f.at >= timestamp)
      BY <1>2, <2>0, <3>2 DEF Fra!Fits, Fra!Wanted
    <3>4. CASE flawed' = flawed \cup {"depth"}
      BY <3>4 DEF FraFit
    <3> QED BY <2>2, <3>1, <3>2, <3>3, <3>4
  <2>5. CASE Fails(c)
    BY <2>5 DEF Fails, FraFit, Capturing
  <2> QED BY <1>2, <2>1, <2>3, <2>4, <2>5, InCapture
<1> QED BY <1>1, <1>2

\* What the four cases of a capture have in common.
LEMMA CaptureCases ==
    ASSUME FraTypes, FraTurns, phase = "capture", NEW c \in Fra!Cameras, CameraStep(c)
    PROVE  /\ phase' \in {"capture", "captured"} \/ Fails(c)
           /\ flawed \subseteq flawed'
           /\ \/ currentFrame' = currentFrame
              \/ currentFrame' = [currentFrame EXCEPT ![c] = Fra!None]
              \/ /\ kind = "realsense" /\ c # First
                 /\ \E held : currentFrame' = [currentFrame EXCEPT ![c] = held]
              \/ \E f \in Fra!Frames :
                    /\ Fra!NextFrame(c, f)
                    /\ currentFrame' = [currentFrame EXCEPT ![c] = f]
<1>0. currentFrame \in [Fra!Cameras -> Fra!Frames]
  BY DEF FraTypes, Fra!TypeOK
<1>1. CASE GoesOn(c)
  BY <1>1 DEF GoesOn
<1>2. CASE UsesAgain(c)
  <2>1. PICK held \in Fra!Reusable(c) :
            /\ currentFrame' = [currentFrame EXCEPT ![c] = held] /\ Fra!Returns(c, held.at)
            /\ flawed' = flawed
    BY <1>2 DEF UsesAgain
  <2>2. /\ held \in Fra!Frames /\ held.at \in Nat \ {0} /\ Fra!Wanted > 0
        /\ kind = "kinect" => held = currentFrame[c]
        /\ kind # "orbbec"
    BY HeldFrame
  <2>3. Fra!Turn(c)
    BY InCapture
  <2>4. phase' \in {"capture", "captured"}
    BY <2>1, <2>2, <2>3, CaptureReturns
  <2>5. c # First
    BY <2>2, <2>3 DEF Fra!Wanted, Fra!Turn, FraTurns, Capturing
  <2>6. kind = "kinect" => currentFrame' = currentFrame
    BY <1>0, <2>1, <2>2
  <2>7. kind \in {"kinect", "realsense", "orbbec"}
    BY DEF FraTypes
  <2> QED BY <2>1, <2>2, <2>4, <2>5, <2>6, <2>7
<1>3. CASE UsesNext(c)
  <2>1. PICK f \in Fra!Frames :
            /\ Fra!NextFrame(c, f) /\ currentFrame' = [currentFrame EXCEPT ![c] = f]
            /\ Fra!Returns(c, f.at) \/ Fra!Returns(c, 1)
            /\ flawed \subseteq flawed'
    BY <1>3 DEF UsesNext
  <2>2. f.at \in Nat \ {0} /\ 1 \in Nat \ {0}
    BY <2>1, NextFrameIs, FraConstants DEF Fra!Times
  <2>3. phase' \in {"capture", "captured"}
    BY <2>1, <2>2, InCapture, CaptureReturns
  <2> QED BY <2>1, <2>3
<1>4. CASE Fails(c)
  BY <1>4 DEF Fails
<1> QED BY <1>1, <1>2, <1>3, <1>4, InCapture DEF GoesOn

\* After a seek() a Kinect camera reads only frames from after it.
LEMMA CameraFresh ==
    ASSUME FraTypes, FraTurns, FraEpochs, FraFresh, NEW c \in Fra!Cameras, CameraStep(c)
    PROVE  FraFresh'
<1>0. UNCHANGED <<kind, since>> /\ currentFrame \in [Fra!Cameras -> Fra!Frames]
  BY CameraLeaves DEF FraTypes, Fra!TypeOK
<1>1. CASE phase # "capture"
  BY <1>0, <1>1, AtStart DEF FraFresh
<1>2. CASE phase = "capture"
  <2> SUFFICES ASSUME kind = "kinect", "read" \notin flawed'
               PROVE  /\ phase' = "idle" => ended' # {}
                      /\ Capturing' => \A d \in Fra!Cameras :
                            currentFrame'[d] = Fra!None \/ currentFrame'[d].epoch >= since[d]
    BY <1>0 DEF FraFresh
  <2>1. phase' = "idle" => ended' # {}
    BY <1>2, CaptureCases DEF Fails
  <2>2. \A d \in Fra!Cameras : currentFrame[d] = Fra!None \/ currentFrame[d].epoch >= since[d]
    BY <1>2, CaptureCases DEF FraFresh, Capturing
  <2>3. ASSUME NEW f \in Fra!Frames, Fra!NextFrame(c, f),
               currentFrame' = [currentFrame EXCEPT ![c] = f]
        PROVE  \A d \in Fra!Cameras :
                  currentFrame'[d] = Fra!None \/ currentFrame'[d].epoch >= since[d]
    <3>1. f.epoch = epoch[c]
      BY <2>3, NextFrameIs
    <3>2. epoch[c] >= since[c]
      BY FrameNumbers DEF FraEpochs
    <3> QED BY <1>0, <2>2, <2>3, <3>1, <3>2
  <2>4. currentFrame' = [currentFrame EXCEPT ![c] = Fra!None] =>
            \A d \in Fra!Cameras :
                currentFrame'[d] = Fra!None \/ currentFrame'[d].epoch >= since[d]
    BY <1>0, <2>2
  <2> QED BY <1>2, <2>1, <2>2, <2>3, <2>4, CaptureCases
<1> QED BY <1>1, <1>2

\* What is read is newer than what the last cloud was made of.
LEMMA CameraOrder ==
    ASSUME FraTypes, FraTurns, FraOrder, NEW c \in Fra!Cameras, CameraStep(c)
    PROVE  FraOrder'
<1>0. /\ UNCHANGED <<kind, epoch, cloud>> /\ First' = First /\ First \in Fra!Cameras
      /\ currentFrame \in [Fra!Cameras -> Fra!Frames]
      /\ \A d \in Fra!Cameras : unread'[d] \subseteq unread[d]
  BY CameraLeaves, CameraTurns, FirstIs, ReadsOn DEF FraTypes, Fra!TypeOK
<1>1. ASSUME NEW d \in Fra!Cameras, Behind(d) PROVE Behind(d)'
  BY <1>0, <1>1 DEF Behind
<1>2. ASSUME NEW d \in Fra!Cameras, Between(d),
             currentFrame'[d] = currentFrame[d] \/ currentFrame'[d] = Fra!None
      PROVE  Between(d)'
  BY <1>0, <1>2 DEF Between
<1>3. ASSUME NEW f \in Fra!Frames, Fra!NextFrame(c, f), Behind(c),
             currentFrame' = [currentFrame EXCEPT ![c] = f]
      PROVE  Between(c)'
  <2>1. /\ f.at \in unread[c] /\ f.epoch = epoch[c] /\ \A t \in unread'[c] : t > f.at
        /\ currentFrame'[c] = f
    BY <1>0, <1>3, NextFrameIs
  <2>2. epoch[c] \in Nat /\ cloud.frames[c].epoch \in Nat
    BY FrameNumbers
  <2> QED BY <1>0, <1>3, <2>1, <2>2 DEF Behind, Between
<1>4. Behind(First)' /\ (kind # "realsense" => \A d \in Fra!Cameras : Behind(d)')
  BY <1>0, <1>1 DEF FraOrder
<1>5. CASE phase # "capture"
  <2>1. kind = "realsense" /\ ~Capturing'
    BY <1>5, AtStart DEF Capturing
  <2> QED BY <1>0, <1>4, <2>1 DEF FraOrder
<1>6. CASE phase = "capture"
  <2>0. /\ timestamp # 0 => c # First /\ Between(First)
        /\ timestamp = 0 => c = First
    BY <1>6, InCapture, FirstIs DEF FraTurns, FraOrder, Capturing, Fra!Turn
  <2>1. kind # "realsense" => \A d \in Fra!Cameras : Between(d)'
    <3> SUFFICES ASSUME kind # "realsense", NEW d \in Fra!Cameras PROVE Between(d)'
      OBVIOUS
    <3>1. Between(d) /\ Behind(d)
      BY DEF FraOrder
    <3>2. CASE currentFrame'[d] = currentFrame[d] \/ currentFrame'[d] = Fra!None
      BY <1>2, <3>1, <3>2
    <3>3. ASSUME NEW f \in Fra!Frames, Fra!NextFrame(c, f),
                 currentFrame' = [currentFrame EXCEPT ![c] = f]
          PROVE  Between(d)'
      <4>1. CASE d = c
        BY <1>3, <3>1, <3>3, <4>1
      <4>2. CASE d # c
        BY <1>0, <3>2, <3>3, <4>2
      <4> QED BY <4>1, <4>2
    <3> QED BY <1>0, <1>6, <3>2, <3>3, CaptureCases
  <2>2. Capturing' /\ timestamp' # 0 => Between(First)'
    <3> SUFFICES ASSUME Capturing', timestamp' # 0 PROVE Between(First)'
      OBVIOUS
    <3>1. CASE timestamp # 0
      <4>1. currentFrame'[First] = currentFrame[First]
        BY <1>0, <1>6, <2>0, <3>1, CaptureCases
      <4> QED BY <1>0, <1>2, <2>0, <3>1, <4>1
    <3>2. CASE timestamp = 0
      <4>1. ~UsesAgain(c)
        BY <1>6, <3>2, HeldFrame DEF UsesAgain, Fra!Wanted
      <4>2. ~GoesOn(c) /\ ~Fails(c)
        BY <3>2 DEF GoesOn, Fails
      <4>3. PICK f \in Fra!Frames :
                Fra!NextFrame(c, f) /\ currentFrame' = [currentFrame EXCEPT ![c] = f]
        BY <1>6, <4>1, <4>2, InCapture DEF UsesNext
      <4>4. Behind(c)
        BY <2>0, <3>2 DEF FraOrder
      <4>5. Between(c)'
        BY <1>3, <4>3, <4>4
      <4> QED BY <1>0, <2>0, <3>2, <4>5
    <3> QED BY <3>1, <3>2
  <2> QED BY <1>0, <1>4, <2>1, <2>2 DEF FraOrder
<1> QED BY <1>5, <1>6

LEMMA CameraKeeps ==
    ASSUME FraInv, NEW c \in Fra!Cameras, CameraStep(c)
    PROVE  FraInv'
<1>1. FraTypes' /\ FraTurns' /\ FraFit' /\ FraFresh' /\ FraOrder'
  BY FraTypesCamera, CameraTurns, CameraFit, CameraFresh, CameraOrder DEF FraInv
<1>2. FraEpochs'
  BY CameraLeaves DEF FraInv, FraEpochs
<1>3. FraClouds'
  <2>1. flawed \subseteq flawed'
    <3>1. CASE phase = "capture"
      BY <3>1, CaptureCases DEF FraInv
    <3>2. CASE phase # "capture"
      BY <3>2, AtStart DEF FraInv
    <3> QED BY <3>1, <3>2
  <2>2. UNCHANGED <<kind, cloud>> /\ First' = First
    BY CameraLeaves, CameraTurns DEF FraInv
  <2> QED BY <2>1, <2>2 DEF FraInv, FraClouds, FramesFit, Fra!FramesFit, Fra!FromBeforeSeek
<1> QED BY <1>1, <1>2, <1>3 DEF FraInv

LEMMA FraStep ==
    ASSUME FraInv, [Fra!Next]_frames
    PROVE  FraInv' /\ (UNCHANGED frames \/ Fra!Advances)
<1>1. CASE Fra!Begin
  BY <1>1, BeginKeeps DEF Fra!Begin, Fra!Advances
<1>2. CASE Fra!MakeCloud
  BY <1>2, MakeCloudKeeps, MakeCloudAdvances
<1>3. ASSUME NEW c \in Fra!Cameras, CameraStep(c) PROVE FraInv' /\ Fra!Advances
  BY <1>3, CameraKeeps, CameraLeaves DEF Fra!Advances
<1>4. CASE SeekStep
  BY <1>4, SeekKeeps, SeekLeaves DEF Fra!Advances
<1>5. CASE UNCHANGED frames
  <2>1. UNCHANGED <<kind, master, recording, unread, currentFrame, previous, ended, phase,
                    left, reading, timestamp, earliest, seekTo, seekAt, epoch, seeks, since,
                    flawed, cloud>>
    BY <1>5 DEF frames
  <2>2. FraTypes' /\ FraTurns' /\ FraFit' /\ FraEpochs' /\ FraFresh'
    BY <2>1 DEF FraInv, FraTypes, Fra!TypeOK, FraTurns, FraFit, FraEpochs, FraFresh,
       Capturing, First
  <2>3. FraOrder' /\ FraClouds'
    BY <2>1 DEF FraInv, FraOrder, Behind, Between, FraClouds, Capturing, First, FramesFit,
       Fra!FramesFit, Fra!FromBeforeSeek
  <2> QED BY <1>5, <2>2, <2>3 DEF FraInv
<1> QED BY <1>1, <1>2, <1>3, <1>4, <1>5 DEF Fra!Next, CameraStep, SeekStep

-----------------------------------------------------------------------------
(* The parts together                                                      *)

LEMMA EachPart ==
    /\ CaptureInit => Init /\ Fra!Init /\ Obj!Init
    /\ [CaptureNext]_<<part, vars, frames, pointclouds>> =>
         [Next]_vars /\ [Fra!Next]_frames /\ [Obj!Next]_pointclouds
<1>1. CaptureInit => Init /\ Fra!Init /\ Obj!Init
  BY DEF CaptureInit
<1>2. ASSUME [CaptureNext]_<<part, vars, frames, pointclouds>>
      PROVE  [Next]_vars /\ [Fra!Next]_frames /\ [Obj!Next]_pointclouds
  BY <1>2 DEF CaptureNext
<1> QED BY <1>1, <1>2

LEMMA ThreadsToo == CaptureSpec => Spec
BY EachPart, PTL DEF CaptureSpec, Spec

LEMMA FramesToo == CaptureSpec => []FraInv
BY EachPart, FraStart, FraStep, PTL DEF CaptureSpec

LEMMA ObjectsToo == CaptureSpec => []ObjInv
BY EachPart, ObjStart, ObjStep, PTL DEF CaptureSpec

\* The variables of the three parts have their types.
THEOREM CaptureTypes == CaptureSpec => []AllTypesOK
<1>1. FraInv => Fra!TypeOK
  BY DEF FraInv, FraTypes
<1> QED BY <1>1, ThreadsToo, TypeCorrect, FramesToo, ObjectsToo, ObjSays, PTL DEF AllTypesOK

\* The frames of a cloud belong together: none is older than the cloud, and a
\* Kinect cloud has none from before a seek().
THEOREM CloudsFit == CaptureSpec => []FramesFit
<1>1. FraInv => FramesFit
  BY DEF FraInv, FraClouds
<1> QED BY <1>1, FramesToo, PTL

\* Without a seek() time advances from cloud to cloud, and no frame of a Kinect
\* or Orbbec camera is used twice or after a newer one.
THEOREM TimeAdvances == CaptureSpec => CloudsAdvance
<1>1. FraInv /\ [CaptureNext]_<<part, vars, frames, pointclouds>> => [Fra!Advances]_(Fra!vars)
  <2> SUFFICES ASSUME FraInv, [CaptureNext]_<<part, vars, frames, pointclouds>>
               PROVE  [Fra!Advances]_(Fra!vars)
    OBVIOUS
  <2>1. UNCHANGED frames \/ Fra!Advances
    BY EachPart, FraStep
  <2>2. UNCHANGED frames => UNCHANGED Fra!vars
    BY DEF frames, Fra!vars, Fra!machine, Fra!seeking
  <2> QED BY <2>1, <2>2
<1> QED BY <1>1, FramesToo, PTL DEF CaptureSpec, CloudsAdvance, Fra!CloudsAdvance

\* The counters of point cloud objects count the objects in use, and no
\* metadata item has two owners or is deallocated twice or while it is owned.
THEOREM AllAccounted == CaptureSpec => []Accounted
<1>1. ObjInv => Accounted
  BY ObjSays
<1> QED BY <1>1, ObjectsToo, PTL

\* The tile of a point names exactly the cameras that saw it, whatever filters
\* the cloud has gone through.
THEOREM TilesTell == CaptureSpec => []TileTellsCameras
<1>1. ObjInv => TileTellsCameras
  BY ObjSays
<1> QED BY <1>1, ObjectsToo, PTL
=============================================================================
