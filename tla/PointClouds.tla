----------------------------- MODULE PointClouds ----------------------------
(***************************************************************************)
(* Point cloud objects, cwipc_util/src/cwipc_util.cpp, and the filters     *)
(* that make new ones out of them, cwipc_util/src/cwipc_filters.cpp.       *)
(*                                                                         *)
(* There are two implementations.  cwipc_impl ("pcl") holds the points in  *)
(* a PCL cloud, m_pc.  cwipc_uncompressed_impl ("points") holds an array,  *)
(* m_points, and makes a PCL cloud of it when one is first asked for, and  *)
(* then has both.  Four static counters, of both kinds allocated and       *)
(* freed, are what cwipc_dangling_allocations() looks for leaks with.      *)
(*                                                                         *)
(* A point is its place on a line of unit cells, its tile, which is a bit  *)
(* mask of cameras and therefore a set here, and, as history, the set of   *)
(* cameras that saw the points it was made of.  Of a cloud it is modelled  *)
(* which points it has, not how often; colours and cellsizes are left     *)
(* out.                                                                    *)
(***************************************************************************)
EXTENDS Integers, FiniteSets, FiniteSetsExt

CONSTANTS
    Cameras,            \* the tile bits in use
    Extent,             \* bound: places are 0 .. Extent - 1
    MaxObjects,         \* bound: point cloud objects ever made
    MaxItems,           \* bound: metadata items ever added
    MaxInput            \* bound: points in a cloud that was captured or read

\* What is assumed of them: MCCapture has TLC check it.
ConstantsOK ==
    /\ IsFiniteSet(Cameras) /\ Extent \in Nat \ {0}
    /\ MaxObjects \in Nat /\ MaxItems \in Nat /\ MaxInput \in Nat

Objects == 1 .. MaxObjects
Items == 1 .. MaxItems
Places == 0 .. Extent - 1
Tiles == SUBSET Cameras
Points == [at : Places, tile : Tiles, from : Tiles]

VARIABLES
    objects,            \* the objects, see Object
    nAlloc, nDealloc,   \* n_cwipc_pointcloud_alloc, _dealloc
    nRawAlloc, nRawDealloc, \* n_cwipc_uncompressed_pointcloud_alloc, _dealloc
    deallocated         \* how often dealloc was called for each metadata item

vars == <<objects, nAlloc, nDealloc, nRawAlloc, nRawDealloc, deallocated>>

\* Which implementation, m_pc # NULL, m_points # NULL, the points, m_metadata.
Object == [impl : {"none", "pcl", "points"}, pcl : BOOLEAN, raw : BOOLEAN,
           points : SUBSET Points, items : SUBSET Items]

Nothing == [impl |-> "none", pcl |-> FALSE, raw |-> FALSE,
            points |-> {}, items |-> {}]

Init ==
    /\ objects = [o \in Objects |-> Nothing]
    /\ nAlloc = 0 /\ nDealloc = 0 /\ nRawAlloc = 0 /\ nRawDealloc = 0
    /\ deallocated = [m \in Items |-> 0]

\* The next object is made.  (They are never deleted, only emptied by free().)
IsNext(n) ==
    /\ objects[n].impl = "none"
    /\ \A o \in Objects : o < n => objects[o].impl # "none"

\* Objects an application still uses: it has not called free() on them.
InUse(o) == objects[o].pcl \/ objects[o].raw

PclObject(points) ==
    [Nothing EXCEPT !.impl = "pcl", !.pcl = TRUE, !.points = points]

\* What a camera may have seen: every point from one of the cameras.
Inputs == {s \in SUBSET {p \in Points : p.tile = p.from /\ Cardinality(p.tile) = 1} :
            Cardinality(s) <= MaxInput}

-----------------------------------------------------------------------------
(* cwipc_util.cpp                                                          *)

\* cwipc_from_pcl(), as the capturers do, and cwipc_read().
FromPcl(n) ==
    /\ IsNext(n)
    /\ \E points \in Inputs : objects' = [objects EXCEPT ![n] = PclObject(points)]
    /\ nAlloc' = nAlloc + 1
    /\ UNCHANGED <<nDealloc, nRawAlloc, nRawDealloc, deallocated>>

\* cwipc_from_points().  (Points and size that disagree give NULL and leave
\* nothing behind.)
FromPoints(n) ==
    /\ IsNext(n)
    /\ \E points \in Inputs :
        objects' = [objects EXCEPT ![n] =
            [Nothing EXCEPT !.impl = "points", !.raw = TRUE, !.points = points]]
    /\ nRawAlloc' = nRawAlloc + 1
    /\ UNCHANGED <<nAlloc, nDealloc, nRawDealloc, deallocated>>

\* Objects that have to make a PCL cloud when access_pcl_pointcloud() is
\* called.
Unconverted(used) == {o \in used : ~objects[o].pcl}

\* MUTANT: a cloud is counted each time it is asked for.
CountRegardless(used) == nAlloc + Cardinality(used)

\* access_pcl_pointcloud() of these objects ...
Converted(used) ==
    [o \in Objects |-> IF o \in used THEN [objects[o] EXCEPT !.pcl = TRUE] ELSE objects[o]]
\* ... and what it counts.
CountConverted(used) == nAlloc + Cardinality(Unconverted(used))

\* access_pcl_pointcloud() called by the application, cwipc_write(),
\* copy_packet() and, of a "points" object, _set_cellsize().
Access(o) ==
    /\ InUse(o) /\ Unconverted({o}) # {}
    /\ objects' = Converted({o})
    /\ nAlloc' = CountConverted({o})
    /\ UNCHANGED <<nDealloc, nRawAlloc, nRawDealloc, deallocated>>

\* cwipc_from_packet() of what copy_packet() of o wrote, and
\* cwipc_read_debugdump() of what cwipc_write_debugdump() wrote: both end
\* with _set_cellsize(), which needs a PCL cloud.
FromPacket(o, n) ==
    /\ InUse(o) /\ IsNext(n)
    /\ objects' = [objects EXCEPT ![n] =
            [Nothing EXCEPT !.impl = "points", !.pcl = TRUE, !.raw = TRUE,
                            !.points = objects[o].points]]
    /\ nAlloc' = nAlloc + 1
    /\ nRawAlloc' = nRawAlloc + 1
    /\ UNCHANGED <<nDealloc, nRawDealloc, deallocated>>

\* _shallowcopy(): both have the same PCL cloud, which is counted twice, as
\* it will be freed twice.
ShallowCopy(o, n) ==
    /\ InUse(o) /\ IsNext(n)
    /\ objects' = [Converted({o}) EXCEPT ![n] = PclObject(objects[o].points)]
    /\ nAlloc' = CountConverted({o}) + 1
    /\ UNCHANGED <<nDealloc, nRawAlloc, nRawDealloc, deallocated>>

\* access_metadata()->_add()
AddItem(o) ==
    /\ InUse(o)
    /\ \E m \in Items :
        /\ \A i \in Items : i < m => deallocated[i] > 0 \/ \E p \in Objects : i \in objects[p].items
        /\ deallocated[m] = 0 /\ \A p \in Objects : m \notin objects[p].items
        /\ objects' = [objects EXCEPT ![o].items = @ \cup {m}]
    /\ UNCHANGED <<nAlloc, nDealloc, nRawAlloc, nRawDealloc, deallocated>>

\* MUTANT: the items stay where they were, too.
CopyItems(o, n) ==
    /\ InUse(o) /\ InUse(n) /\ o # n /\ objects[o].items # {}
    /\ objects' = [objects EXCEPT ![n].items = @ \cup objects[o].items]
    /\ UNCHANGED <<nAlloc, nDealloc, nRawAlloc, nRawDealloc, deallocated>>

\* _move()
MoveItems(o, n) ==
    /\ InUse(o) /\ InUse(n) /\ o # n /\ objects[o].items # {}
    /\ objects' = [objects EXCEPT ![n].items = @ \cup objects[o].items, ![o].items = {}]
    /\ UNCHANGED <<nAlloc, nDealloc, nRawAlloc, nRawDealloc, deallocated>>

One(b) == IF b THEN 1 ELSE 0

\* free(), also a second time.
Free(o) ==
    /\ objects[o].impl # "none"
    /\ objects' = [objects EXCEPT ![o] = [Nothing EXCEPT !.impl = objects[o].impl]]
    /\ nDealloc' = nDealloc + One(objects[o].pcl)
    /\ nRawDealloc' = nRawDealloc + One(objects[o].raw)
    /\ deallocated' = [m \in Items |-> deallocated[m] + One(m \in objects[o].items)]
    /\ UNCHANGED <<nAlloc, nRawAlloc>>

-----------------------------------------------------------------------------
(* cwipc_filters.cpp.  Every filter asks for the PCL clouds of what it is  *)
(* given, leaves those objects otherwise alone, and returns a new "pcl"    *)
(* object without metadata.                                                *)

Returns(used, n, points) ==
    /\ \A o \in used : InUse(o)
    /\ IsNext(n)
    /\ objects' = [Converted(used) EXCEPT ![n] = PclObject(points)]
    /\ nAlloc' = CountConverted(used) + 1
    /\ UNCHANGED <<nDealloc, nRawAlloc, nRawDealloc, deallocated>>

\* MUTANT: the tile is that of one of the points.
VoxelOfOne(group) ==
    LET p == CHOOSE q \in group : TRUE IN [p EXCEPT !.from = UNION {q.from : q \in group}]

\* pcl::VoxelGrid: one point, in their middle, for all that are in one cell.
\* Its tile is the OR of theirs.
Voxel(group) ==
    [at   |-> SumSet({q.at : q \in group}) \div Cardinality({q.at : q \in group}),
     tile |-> UNION {q.tile : q \in group},
     from |-> UNION {q.from : q \in group}]

VoxelGrid(points, cell) ==
    {Voxel({q \in points : q.at \div cell = v}) : v \in {p.at \div cell : p \in points}}

\* cwipc_downsample(): an octree divides the cloud first, somewhere, and the
\* voxel a border goes through has two points in the result.  (The cells are
\* those that are asked for, or those the cloud has, if they are larger.)
Downsample(o, n) ==
    \E cell \in 1 .. Extent, border \in Places :
        LET left == {p \in objects[o].points : p.at < border}
            right == objects[o].points \ left
        IN  Returns({o}, n, VoxelGrid(left, cell) \cup VoxelGrid(right, cell))

\* cwipc_downsample_voxelgrid(): NULL for a cloud without points.
DownsampleVoxelgrid(o, n) ==
    /\ objects[o].points # {}
    /\ \E cell \in 1 .. Extent : Returns({o}, n, VoxelGrid(objects[o].points, cell))

\* Its NULL: but access_pcl_pointcloud() was called.
DownsampleReturnsNull(o) == objects[o].points = {} /\ Access(o)

\* tile = 0 stands for all points.
OfTile(points, tile) == {p \in points : tile = {} \/ p.tile = tile}

TileFilter(o, n) ==
    \E tile \in Tiles : Returns({o}, n, OfTile(objects[o].points, tile))

\* pcl::StatisticalOutlierRemoval keeps some of the points.
RemoveOutliers(o, n) ==
    \E kept \in SUBSET objects[o].points : Returns({o}, n, kept)

\* MUTANT: the cloud of a tile is not freed.
RemoveOutliersKeepsAux(o, n) ==
    LET all == objects[o].points
        tiles == {p.tile : p \in all}
    IN  /\ InUse(o) /\ IsNext(n)
        /\ \E kept \in SUBSET all :
            objects' = [Converted({o}) EXCEPT ![n] = PclObject(kept)]
        /\ nAlloc' = CountConverted({o}) + Cardinality(tiles) + 1
        /\ UNCHANGED <<nDealloc, nRawAlloc, nRawDealloc, deallocated>>

\* With perTile, for each tile that occurs: a cloud by cwipc_tilefilter(),
\* which is freed again.  (With a tile 0 among them that is the whole cloud,
\* so what one tile removes may come back with another.)
RemoveOutliersPerTile(o, n) ==
    LET all == objects[o].points
        tiles == {p.tile : p \in all}
    IN  /\ InUse(o) /\ IsNext(n)
        /\ \E kept \in [tiles -> SUBSET all] :
            /\ \A tile \in tiles : kept[tile] \subseteq OfTile(all, tile)
            /\ objects' = [Converted({o}) EXCEPT ![n] =
                    PclObject(UNION {kept[tile] : tile \in tiles})]
        /\ nAlloc' = CountConverted({o}) + Cardinality(tiles) + 1
        /\ nDealloc' = nDealloc + Cardinality(tiles)
        /\ UNCHANGED <<nRawAlloc, nRawDealloc, deallocated>>

\* cwipc_tilemap(): the tiles get other names; to merge cameras a and b, say.
TileMap(o, n) ==
    \E a, b \in Cameras :
        LET Rename(tile) == IF a \in tile THEN (tile \ {a}) \cup {b} ELSE tile
        IN  Returns({o}, n,
                {[p EXCEPT !.tile = Rename(@), !.from = Rename(@)] : p \in objects[o].points})

\* cwipc_crop() keeps what is inside; cwipc_colormap() keeps everything.
Crop(o, n) ==
    \E low, high \in 0 .. Extent :
        Returns({o}, n, {p \in objects[o].points : low <= p.at /\ p.at < high})

ColorMap(o, n) == Returns({o}, n, objects[o].points)

Join(o1, o2, n) ==
    Returns({o1, o2}, n, objects[o1].points \cup objects[o2].points)

Next ==
    \/ \E n \in Objects :
        \/ FromPcl(n) \/ FromPoints(n)
        \/ \E o \in Objects :
            \/ FromPacket(o, n) \/ ShallowCopy(o, n) \/ MoveItems(o, n)
            \/ Downsample(o, n) \/ DownsampleVoxelgrid(o, n) \/ TileFilter(o, n)
            \/ RemoveOutliers(o, n) \/ RemoveOutliersPerTile(o, n)
            \/ TileMap(o, n) \/ Crop(o, n) \/ ColorMap(o, n)
            \/ \E p \in Objects : Join(o, p, n)
    \/ \E o \in Objects :
        Access(o) \/ DownsampleReturnsNull(o) \/ AddItem(o) \/ Free(o)

Spec == Init /\ [][Next]_vars

-----------------------------------------------------------------------------
(* Properties                                                              *)

TypeOK ==
    /\ objects \in [Objects -> Object]
    /\ {nAlloc, nDealloc, nRawAlloc, nRawDealloc} \subseteq Nat
    /\ deallocated \in [Items -> 0 .. 1]

\* cwipc_dangling_allocations() counts exactly the clouds that are in use,
\* whatever was converted, copied, filtered and freed, once or twice; the
\* temporary clouds of a filter are gone.
CountersTruthful ==
    /\ nAlloc - nDealloc = Cardinality({o \in Objects : objects[o].pcl})
    /\ nRawAlloc - nRawDealloc = Cardinality({o \in Objects : objects[o].raw})

\* A metadata item is in one object, until it is deallocated, once.
ItemsOwned ==
    \A m \in Items :
        Cardinality({o \in Objects : m \in objects[o].items}) + deallocated[m] <= 1

\* So nothing leaks and nothing is freed twice.
Accounted == CountersTruthful /\ ItemsOwned

\* Through any chain of filters the tile of a point names the cameras, and no
\* others, that saw the points it was made of.
TileTellsCameras ==
    \A o \in Objects : \A p \in objects[o].points : p.tile = p.from
=============================================================================
