------------------------------ MODULE Geometry ------------------------------
(***************************************************************************)
(* The indexed meshes of the engine: the builders of llc/gpk_geometry.cpp  *)
(* and CreateEntityFromGeometry (gpk_engine/gpk_engine.h), which builds a  *)
(* mesh for the first entity of its parameters and gives it to the next    *)
(* ones.                                                                   *)
(*                                                                         *)
(* A vertex is where it lies, without coordinates: on a ring, <<radius,    *)
(* height, angle>>, angles counted in parts of a turn, so that vertices of *)
(* two parts of a shape are the same when they meet.  Indices start at 0.  *)
(*                                                                         *)
(* And voxel maps (llc/gpk_voxel.h), with the model that is built of them  *)
(* (llc/gpk_voxel_geometry.cpp).  A map keeps its voxels twice: in the     *)
(* cells of chunks, which are asked for neighbours, and in a list, which   *)
(* is walked to build the model.  A cell of a chunk or a layer that does   *)
(* not exist is read as one that holds 0: GetValue leaves the value it was *)
(* given as it is.                                                         *)
(***************************************************************************)
EXTENDS Integers, Sequences, SequencesExt, FiniteSets

CONSTANTS
    GeoParams,         \* the parameters asked for: slices, rows, reverse, turned (the orientation)
    GeoTurn,           \* the parts of a turn
    GeoDefaultSlices,  \* SParamsDisc::Slices when nobody sets it
    GeoEntities        \* bound: the entities created

\* Every ring has its vertices at whole parts of a turn, and quarters are whole.
ASSUME GeoAssumption ==
    /\ GeoTurn % 4 = 0 /\ GeoTurn % GeoDefaultSlices = 0
    /\ \A p \in GeoParams : p.slices > 2 /\ p.rows > 0 /\ GeoTurn % p.slices = 0

VARIABLE geoEntities  \* what was asked for each, and what its mesh was built from

----------------------------------------------------------------------------
\* Meshes

GeoMesh(at, normals, textures, indices) == [at |-> at, normals |-> normals, textures |-> textures, indices |-> indices]
GeoEmpty == GeoMesh(<<>>, 0, 0, <<>>)

\* What a builder adds to the buffers: its indices from the vertices that were there.
GeoAdded(mesh, more) ==
    GeoMesh(mesh.at \o more.at, mesh.normals + more.normals, mesh.textures + more.textures,
            mesh.indices \o [k \in DOMAIN more.indices |-> more.indices[k] + Len(mesh.at)])

\* Row after row of columns + 1 vertices.
GeoRows(columns, rows, at) ==
    [k \in 1..(columns + 1) * (rows + 1) |-> at[(k - 1) % (columns + 1), (k - 1) \div (columns + 1)]]

BugGeoGridIndices(columns, rows, counterClockwise) ==
    FlattenSeq([k \in 1..columns * rows |->
        LET v == k - 1 + (k - 1) \div columns IN <<v, v + columns, v + columns + 1, v, v + columns + 1, v + 1>>])

\* Quads halve along one diagonal in two quarters of the grid, along the other in the other two
\* (Outward exchanges them, which no composed shape asks for).
GeoGridIndices(columns, rows, counterClockwise) ==
    LET pitch == columns + 1
        corner == IF counterClockwise THEN <<1, 0, pitch + 1, pitch>> ELSE <<0, 1, pitch, pitch + 1>>
        mode(order) == [i \in 1..6 |-> corner[order[i] + 1]]
        reversed(x, y) == (x >= columns \div 2) = (y < rows \div 2)
        quad(x, y) == IF reversed(x, y) THEN mode(<<0, 2, 1, 1, 2, 3>>) ELSE mode(<<0, 2, 3, 0, 3, 1>>)
        cell(k) == LET x == k % columns  y == k \div columns
                   IN  [i \in 1..6 |-> y * columns + x + y + quad(x, y)[i]]
    IN  FlattenSeq([k \in 1..columns * rows |-> cell(k - 1)])

GeoPatch(columns, rows, counterClockwise, at) ==
    LET n == (columns + 1) * (rows + 1)
    IN  GeoMesh(GeoRows(columns, rows, at), n, n, GeoGridIndices(columns, rows, counterClockwise))

\* Radii are told apart and not measured: 0 is the axis, from 1 on the rings of a shape.
\* The vertex at the k-th of slices; a ring of no radius is a point.
GeoRing(radius, height, k, slices, reverse) ==
    IF radius = 0 THEN <<0, height, 0>>
    ELSE <<radius, height, ((IF reverse THEN -k ELSE k) * (GeoTurn \div slices)) % GeoTurn>>

----------------------------------------------------------------------------
\* Builders

GeoGrid(p) == LET at == [x \in 0..p.slices, y \in 0..p.rows |-> <<"grid", x, y>>] IN GeoPatch(p.slices, p.rows, p.reverse, at)

\* VOXEL_FACE_VERTICES and the two ways in which VOXEL_FACE_INDICES halves a face.
GeoFaceVertices ==
    <<<<<<0, 1, 0>>, <<1, 1, 0>>, <<0, 1, 1>>, <<1, 1, 1>>>>, <<<<1, 0, 0>>, <<1, 1, 0>>, <<1, 0, 1>>, <<1, 1, 1>>>>,
      <<<<0, 0, 1>>, <<1, 0, 1>>, <<0, 1, 1>>, <<1, 1, 1>>>>, <<<<0, 0, 0>>, <<1, 0, 0>>, <<0, 0, 1>>, <<1, 0, 1>>>>,
      <<<<0, 0, 0>>, <<0, 1, 0>>, <<0, 0, 1>>, <<0, 1, 1>>>>, <<<<0, 0, 0>>, <<1, 0, 0>>, <<0, 1, 0>>, <<1, 1, 0>>>>>>
GeoFaceIndices == [face \in 1..6 |-> IF face \in {1, 5, 6} THEN <<0, 2, 1, 1, 2, 3>> ELSE <<0, 1, 2, 1, 3, 2>>]

\* 4 vertices for each of 6 faces; VOXEL_FACE_INDICES_16 begins at the fourth.
GeoBox ==
    LET face(f) == [i \in 1..6 |-> 4 * (f - 1) + GeoFaceIndices[f][i]]
    IN  GeoMesh(FlattenSeq(GeoFaceVertices), 24, 24, FlattenSeq([k \in 1..6 |-> face(((k + 2) % 6) + 1)]))

GeoSphere(p) ==
    LET at == [x \in 0..p.slices, y \in 0..p.rows |-> GeoRing(IF y \in {0, p.rows} THEN 0 ELSE y, y, x, p.slices, p.reverse)]
    IN  GeoPatch(p.slices, p.rows, FALSE, at)

\* The centre and slices + 1 vertices around it; the first triangle is one of no size.
GeoCircleSide(radius, height, slices, reverse) ==
    GeoMesh(<<GeoRing(0, height, 0, slices, FALSE)>> \o [k \in 1..slices + 1 |-> GeoRing(radius, height, k - 1, slices, reverse)],
            slices + 2, slices + 2,
            FlattenSeq([k \in 1..slices + 1 |-> <<0, k, k - 1>>]))
GeoDisc(p) ==
    GeoAdded(GeoAdded(GeoEmpty, GeoCircleSide(1, 0, p.slices, FALSE)), GeoCircleSide(1, 0, p.slices, TRUE))

\* radius[y] of the rings from below.
GeoWall(radius, slices, rows, reverse) ==
    LET at == [x \in 0..slices, y \in 0..rows |->
                  GeoRing(radius[IF y = 0 THEN 1 ELSE IF y = rows THEN 3 ELSE 2], y, x, slices, reverse)]
    IN  GeoPatch(slices, rows, FALSE, at)

BugGeoCapReversed(p) == p.reverse
GeoCapReversed(p) == ~p.reverse
GeoCylinder(p) ==
    LET cap(height, reverse) == GeoCircleSide(IF height = 0 THEN 1 ELSE 3, height, GeoDefaultSlices, reverse)
    IN  GeoAdded(GeoAdded(GeoAdded(GeoEmpty, cap(0, GeoCapReversed(p))),
                          GeoWall(<<1, 2, 3>>, p.slices, p.rows, p.reverse)),
                 cap(p.rows, ~GeoCapReversed(p)))

\* A grid of one row bent to a ring, a quarter of a turn from where the walls begin; reverse turns
\* its triangles and not the ring.
GeoRingSide(inner, outer, height, slices, reverse) ==
    LET ring(radius, x) == <<radius, height, (x * (GeoTurn \div slices) + GeoTurn \div 4) % GeoTurn>>
        at == [x \in 0..slices, y \in 0..1 |-> ring(IF y = 0 THEN outer ELSE inner, x)]
    IN  GeoPatch(slices, 1, reverse, at)
GeoRingFlat(p) ==
    GeoAdded(GeoAdded(GeoEmpty, GeoRingSide(1, 2, 0, p.slices, p.reverse)), GeoRingSide(1, 2, 0, p.slices, TRUE))

GeoTube(p) ==
    LET low == GeoRingSide(1, 4, 0, p.slices, ~p.reverse)
        outside == GeoWall(<<4, 5, 6>>, p.slices, p.rows, p.reverse)
        inside == GeoWall(<<1, 2, 3>>, p.slices, p.rows, ~p.reverse)
        high == GeoRingSide(3, 6, p.rows, p.slices, p.reverse)
    IN  GeoAdded(GeoAdded(GeoAdded(GeoAdded(GeoEmpty, low), outside), inside), high)

\* A normal for each triangle; the helix copies the vertices of its half, not the indices.
GeoHelixHalf(p) ==
    LET at == [x \in 0..p.slices, y \in 0..p.rows |-> <<"helix", x, y>>]
        half == GeoPatch(p.slices, p.rows, FALSE, at)
    IN  [half EXCEPT !.normals = 2 * p.slices * p.rows]
GeoHelix(p) ==
    LET half == GeoHelixHalf(p)
        n == Len(half.at)
    IN  GeoMesh(half.at \o half.at, half.normals + n, 2 * n, half.indices)

GeoBuild(kind, p) ==
    CASE kind = "grid" -> GeoGrid(p)           [] kind = "box" -> GeoBox
      [] kind = "sphere" -> GeoSphere(p)       [] kind = "disc" -> GeoDisc(p)
      [] kind = "circleSide" -> GeoCircleSide(1, 0, p.slices, p.reverse)
      [] kind = "cylinderWall" -> GeoWall(<<1, 2, 3>>, p.slices, p.rows, p.reverse)
      [] kind = "cylinder" -> GeoCylinder(p)   [] kind = "tube" -> GeoTube(p)
      [] kind = "ringSide" -> GeoRingSide(1, 2, 0, p.slices, p.reverse)
      [] kind = "ringFlat" -> GeoRingFlat(p)   [] kind = "helixHalf" -> GeoHelixHalf(p)
      [] kind \in {"helix", "figure0"} -> GeoHelix(p)

----------------------------------------------------------------------------
\* Entities

GeoKinds == {"grid", "box", "sphere", "circleSide", "disc", "cylinderWall", "cylinder", "ringSide", "ringFlat", "tube",
             "helixHalf", "helix", "figure0"}
GeoHelices == {"helixHalf", "helix", "figure0"}

\* The map of a kind, and what it compares of the parameters: never the orientation.
GeoMap(kind) == IF kind \in GeoHelices THEN "ParamsHelix" ELSE kind
GeoCompared(kind, p) ==
    CASE kind = "box" -> <<>>
      [] kind \in {"disc"} -> <<p.slices>>
      [] kind \in {"circleSide", "ringSide", "ringFlat"} -> <<p.slices, p.reverse>>
      [] kind \in GeoHelices -> <<p.slices, p.rows>>
      [] OTHER -> <<p.slices, p.rows, p.reverse>>

BugGeoSame(a, b) == GeoMap(a.kind) = GeoMap(b.kind) /\ a.params.slices = b.params.slices
GeoSame(a, b) == GeoMap(a.kind) = GeoMap(b.kind) /\ GeoCompared(a.kind, a.params) = GeoCompared(b.kind, b.params)

GeoInit == geoEntities = <<>>

\* CreateEntityFromGeometry: the mesh of the first entity with the same parameters, or one built now.
GeoNext ==
    /\ Len(geoEntities) < GeoEntities
    /\ \E kind \in GeoKinds, p \in GeoParams :
           LET asked == [kind |-> kind, params |-> p]
               same == SelectSeq(geoEntities, LAMBDA e : e.built = e.asked /\ GeoSame(e.asked, asked))
           IN  geoEntities' = Append(geoEntities, [asked |-> asked, built |-> IF same = <<>> THEN asked ELSE same[1].asked])

----------------------------------------------------------------------------
\* Properties

GeoTypeOK == \A e \in Range(geoEntities) : e.asked.kind \in GeoKinds /\ {e.asked.params, e.built.params} \subseteq GeoParams

\* The edges of the triangles as they are gone around, those of no length left out, each with the
\* triangle it is of.
GeoEdges(mesh) ==
    LET v(t, i) == mesh.at[mesh.indices[3 * t + i] + 1]
        edge(t, i) == <<v(t, i), v(t, (i % 3) + 1), t>>
    IN  {edge(t, i) : t \in {u \in 0..Len(mesh.indices) \div 3 - 1 : Cardinality({v(u, 1), v(u, 2), v(u, 3)}) = 3}, i \in 1..3}
GeoRuns(edges, a, b) == Cardinality({e \in edges : e[1] = a /\ e[2] = b})

\* A surface without border turned one way: every edge is gone along as often in both directions.
GeoClosed(mesh) == LET edges == GeoEdges(mesh) IN \A e \in edges : GeoRuns(edges, e[1], e[2]) = GeoRuns(edges, e[2], e[1])
\* A surface turned one way: no two triangles go along an edge in the same direction.
GeoOriented(mesh) == LET edges == GeoEdges(mesh) IN \A e \in edges : GeoRuns(edges, e[1], e[2]) = 1

\* Of every shape: triangles are made of vertices that exist, every vertex is used, and has its normal
\* and texture; the surface is turned one way, and the solid ones have no hole.  Cylinders have none
\* if they have as many slices as their caps, which nobody tells; tubes if their slices reach a
\* quarter of a turn, where the rings begin; helices have neither all normals nor a second half.
GeoMeshesAreWhole ==
    geoEntities # <<>> /\ Last(geoEntities).built = Last(geoEntities).asked =>
        LET kind == Last(geoEntities).asked.kind
            p    == Last(geoEntities).asked.params
            mesh == GeoBuild(kind, p)
            half == 0..(p.slices + 1) * (p.rows + 1) - 1
        IN  /\ Range(mesh.indices) = IF kind \in GeoHelices THEN half ELSE 0..Len(mesh.at) - 1
            /\ mesh.textures = Len(mesh.at) /\ (kind \in GeoHelices \/ mesh.normals = Len(mesh.at))
            /\ kind \in {"disc", "ringFlat"} \/ GeoOriented(mesh)
            /\ \/ kind \in {"box", "sphere", "disc"}
               \/ kind = "ringFlat" /\ ~p.reverse
               \/ kind = "cylinder" /\ p.slices = GeoDefaultSlices
               \/ kind = "tube" /\ p.slices % 4 = 0
               => GeoClosed(mesh)

\* An entity shows the shape that was asked for, even if another was made before, up to its
\* orientation; the helices share their meshes and may show one another's.
GeoEntitiesShowTheirShape ==
    \A i \in DOMAIN geoEntities :
        LET asked == geoEntities[i].asked
            built == geoEntities[i].built
        IN  /\ asked.kind = built.kind \/ {asked.kind, built.kind} \subseteq GeoHelices
            /\ asked.kind = built.kind => GeoBuild(asked.kind, asked.params) = GeoBuild(built.kind, built.params)

----------------------------------------------------------------------------
\* Voxels

CONSTANTS
    VoxelSpan,     \* the values of a coordinate (256)
    VoxelWidth,    \* the cells of a chunk along x and z (16)
    VoxelPlaces,   \* the positions that are set
    VoxelPalette,  \* of each colour, whether it is opaque
    VoxelCalls     \* bound: the voxels of the list

ASSUME VoxelAssumption == VoxelPlaces \subseteq (0..VoxelSpan - 1) \X (0..VoxelSpan - 1) \X (0..VoxelSpan - 1)

VARIABLES
    voxelCells,  \* of each cell that does not hold 0, by chunk, layer and cell: its value
    voxelList    \* Voxels: position and colour

voxelVars == <<voxelCells, voxelList>>

BugVoxelAddress(p) == <<p[2], p[3] % VoxelWidth, p[1] % VoxelWidth>>
\* GetChunk by the corner of the chunk, then its layer and its cell.
VoxelAddress(p) ==
    <<p[1] \div VoxelWidth, p[3] \div VoxelWidth, p[2], p[3] % VoxelWidth, p[1] % VoxelWidth>>

\* GetValue
VoxelValue(cells, p) == IF VoxelAddress(p) \in DOMAIN cells THEN cells[VoxelAddress(p)] ELSE 0

VoxelInit == voxelCells = <<>> /\ voxelList = <<>>

\* SetValue: a voxel erased stays in the list, for the index remove_unordered is given is none, and is
\* added to it once more, with no colour.
VoxelSet ==
    \E p \in VoxelPlaces, value \in 0..Len(VoxelPalette) - 1 :
        LET cell  == VoxelValue(voxelCells, p)
            first == SelectInSeq(voxelList, LAMBDA voxel : voxel.at = p)
            added == Append(voxelList, [at |-> p, colour |-> value])
        IN  /\ Len(voxelList) < VoxelCalls
            /\ voxelCells' = [a \in (DOMAIN voxelCells \ {VoxelAddress(p)}) \cup {b \in {VoxelAddress(p)} : value # 0} |->
                                 IF a = VoxelAddress(p) THEN value ELSE voxelCells[a]]
            /\ voxelList' = IF cell = value THEN voxelList
                            ELSE IF cell = 0 \/ value = 0 \/ first = 0 THEN added
                            ELSE [voxelList EXCEPT ![first].colour = value]

----------------------------------------------------------------------------
\* The model

\* VOXEL_DELTAS
VoxelDeltas == <<<<0, 1, 0>>, <<1, 0, 0>>, <<0, 0, 1>>, <<0, -1, 0>>, <<-1, 0, 0>>, <<0, 0, -1>>>>
VoxelNeighbour(p, face) == [i \in 1..3 |-> (p[i] + VoxelDeltas[face][i]) % VoxelSpan]

BugVoxelShows(cells, voxel, face) == VoxelValue(cells, VoxelNeighbour(voxel.at, face)) # voxel.colour
\* A face is left out behind a voxel, unless its own colour (the one before it in the palette) is translucent.
VoxelShows(cells, voxel, face) ==
    \/ VoxelValue(cells, VoxelNeighbour(voxel.at, face)) = 0
    \/ ~VoxelPalette[IF voxel.colour = 0 THEN 1 ELSE voxel.colour]

\* Face after face, colour after colour, the voxels of the list.
VoxelFaces(cells, list) ==
    LET of(face, colour) == SelectSeq([i \in DOMAIN list |-> <<i, face>>],
                                      LAMBDA f : list[f[1]].colour = colour /\ VoxelShows(cells, list[f[1]], face))
    IN  FlattenSeq([face \in 1..6 |-> FlattenSeq([c \in DOMAIN VoxelPalette |-> of(face, c - 1)])])

\* geometryVoxelFace for each: 4 vertices and 6 indices.  Normals and textures are given by face.
VoxelModel(cells, list) ==
    LET faces == VoxelFaces(cells, list)
        vertices(f) == [v \in 1..4 |-> [i \in 1..3 |-> GeoFaceVertices[f[2]][v][i] + list[f[1]].at[i]]]
        indices(k) == [i \in 1..6 |-> GeoFaceIndices[faces[k][2]][i] + 4 * (k - 1)]
    IN  GeoMesh(FlattenSeq([k \in DOMAIN faces |-> vertices(faces[k])]), 6, 24, FlattenSeq([k \in DOMAIN faces |-> indices(k)]))

----------------------------------------------------------------------------
\* Properties

VoxelTypeOK ==
    /\ Range(voxelCells) \subseteq 1..Len(VoxelPalette) - 1
    /\ \A voxel \in Range(voxelList) : voxel.at \in VoxelPlaces /\ voxel.colour < Len(VoxelPalette)

VoxelErased == {voxel.at : voxel \in {v \in Range(voxelList) : v.colour = 0}}

\* Where nothing was ever erased, the list and the cells say the same: a voxel that is there is listed
\* once, with its colour, and no other is.
VoxelsAreListed ==
    \A p \in VoxelPlaces \ VoxelErased :
        LET listed == SelectSeq(voxelList, LAMBDA voxel : voxel.at = p)
            value  == VoxelValue(voxelCells, p)
        IN  listed = IF value = 0 THEN <<>> ELSE <<[at |-> p, colour |-> value]>>

\* If nothing was erased and no colour is translucent, the faces of the model are a surface without
\* hole, and what lies between two voxels is not in it.  (At the limits a voxel takes the one at
\* the other end of the coordinate for its neighbour.)
VoxelModelIsClosed ==
    LET p == {voxel.at : voxel \in Range(voxelList)}
        opaque == \A voxel \in Range(voxelList) : VoxelPalette[IF voxel.colour = 0 THEN 1 ELSE voxel.colour]
        inside == \A at \in p, i \in 1..3 : at[i] \in 1..VoxelSpan - 2
        mesh == VoxelModel(voxelCells, voxelList)
        corners(k) == {mesh.at[4 * k + v] : v \in 1..4}
    IN  VoxelErased = {} /\ opaque /\ inside =>
            /\ GeoClosed(mesh)
            /\ \A k, l \in 0..Len(mesh.at) \div 4 - 1 : corners(k) = corners(l) => k = l
=============================================================================
