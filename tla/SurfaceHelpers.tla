--------------------------- MODULE SurfaceHelpers ---------------------------
(***************************************************************************)
(* The helpers that work on whole surfaces, applied to each surface that   *)
(* SurfaceMeshBuilder can reach: repair_polygon_orientations() and the     *)
(* merge with another surface.                                             *)
(***************************************************************************)
EXTENDS SurfaceMeshBuilder, SurfaceMerger

CONSTANTS
    Strips,     \* surfaces to repair, lists of polygons
    Merged,     \* a surface to merge with, a list of polygons
    VertexMappings  \* unique points of the vertices of two surfaces

\* A surface of these polygons, with its adjacencies.
SurfaceOf(polygons) ==
    LET nb_vertices ==
            Max(UNION {Range(polygon) : polygon \in Range(polygons)})
        points ==
            FoldInOrder(LAMBDA m, v : CreatePoint(m), EmptyMesh,
                        IndicesBelow(nb_vertices + 1))
        created == FoldInOrder(CreatePolygon, points, polygons)
    IN  ComputePolygonAdjacencies(created, Polygons(created))

\* What a surface repeats of its polygons agrees with them.
IsSound(m) ==
    /\ \A v \in Vertices(m) : FindsPolygonAround(m, v) /\ HasCurrentList(m, v)
    /\ \A x \in PolygonVertices(m) : HasMutualAdjacency(m, x)
    /\ m.enabled =>
        \A u, v \in Vertices(m) : CountsEdge(m, {u, v})

-----------------------------------------------------------------------------
\* The choices of polygons to turn round so that each polygon runs along its
\* edges against its neighbors.
Orientations(m) ==
    LET sides == {<<x[1], AdjacentOf(m, x), SameOrientation(m, x)>> :
                    x \in {y \in PolygonVertices(m) : ~IsOnBorder(m, y)}}
    IN  {S \in SUBSET Polygons(m) : \A side \in sides :
            side[3] = ((side[1] \in S) = (side[2] \in S))}

\* The pairs of polygons across an edge.
AdjacentPairs(m) ==
    {<<EdgeCycle(m, x), x[1], AdjacentOf(m, x)>> :
        x \in {y \in PolygonVertices(m) : ~IsOnBorder(m, y)}}

\* Turning the polygons of S round changes neither their edges nor their
\* neighbors, and leaves true what the surface repeats of them.
ReorientsOnly(m, S, reoriented) ==
    /\ \A p \in Polygons(m) :
          VertexCycle(reoriented.polygons[p]) = VertexCycle(m.polygons[p])
    /\ AdjacentPairs(reoriented) = AdjacentPairs(m)
    /\ S \in Orientations(m) => {} \in Orientations(reoriented)
    /\ IsSound(reoriented)

\* In 3D: the polygons to turn round are found when there is a choice of them,
\* and "Mobius strip detected" is thrown when there is none.
FindsOrientation(m, bad) ==
    IF Orientations(m) = {} THEN ~bad.valid
    ELSE bad.valid /\ bad.reorient \in Orientations(m)

\* In 2D: the polygons without area, as many as there are, get the signs that
\* their neighbors ask for, when the surface is connected.
NullAreasGetSigns(m) ==
    \A S \in Orientations(m) : \A Z \in SUBSET Polygons(m) :
        LET sign == [p \in Polygons(m) |-> IF p \in S THEN -1 ELSE 1]
            area == [p \in Polygons(m) |-> IF p \in Z THEN 0 ELSE sign[p]]
        IN  Z # Polygons(m) /\ Cardinality(Orientations(m)) = 2 =>
                ProcessNullAreas(m, area) = [sign |-> sign, queue |-> <<>>]

\* Surfaces to orient: those connected with one polygon more, and, once, the
\* strips.  Edges are not read.
ToOrient ==
    {ComputePolygonAdjacencies(m, Polygons(m)) :
        m \in {n \in Extended : ~n.enabled}}
    \cup {SurfaceOf(s) : s \in {t \in Strips : mesh = EmptyMesh}}

\* repair_polygon_orientations() makes each polygon run along its edges against
\* its neighbors whenever that is possible, and changes nothing on a Mobius
\* strip; in 2D a polygon without area goes with its neighbors.  Whichever
\* polygons are turned round, with the edges enabled or not and lists of
\* polygons cached or not, the surface stays sound.
RepairOrientsCoherently ==
    /\ \A m \in ToOrient :
          LET bad == BadOrientedPolygons(m) IN FindsOrientation(m, bad)
    /\ \A S \in SUBSET Polygons(mesh) \ {{}} :
          LET reoriented == ReorientPolygons(mesh, S)
          IN  ReorientsOnly(mesh, S, reoriented)
    /\ \A s \in {t \in Strips : mesh = EmptyMesh} :
          NullAreasGetSigns(SurfaceOf(s))

-----------------------------------------------------------------------------
\* The surfaces that a merged polygon comes from.
SurfacesOf(w, q) == {origin[1] : origin \in ToSet(w.origins[q])}

\* Each polygon became one of the same vertices, which knows that it comes from
\* it, or none when it degenerated; no two merged polygons have the same edges.
KnowsPolygons(meshes, vertices, w) ==
    /\ IsInjective([q \in Polygons(w.mesh) |-> VertexCycle(w.mesh.polygons[q])])
    /\ \A q \in Polygons(w.mesh) :
          /\ IsInjective(w.origins[q])
          /\ \A origin \in ToSet(w.origins[q]) :
                w.new_id[origin[1]][origin[2]] = q
    /\ \A s \in DOMAIN meshes : \A p \in Polygons(meshes[s]) :
          LET polygon == VerticesInMerged(meshes, vertices, s, p)
              q == w.new_id[s][p]
          IN  IF ~IsInjective(polygon)
              THEN q = NoId
              ELSE /\ <<s, p>> \in ToSet(w.origins[q])
                   /\ VertexCycle(w.mesh.polygons[q]) = VertexCycle(polygon)

\* An edge of a merged polygon was not on border in a surface it comes from.
WasInside(meshes, vertices, w, x) ==
    \E origin \in ToSet(w.origins[x[1]]) :
        LET polygon == VerticesInMerged(meshes, vertices, origin[1], origin[2])
        IN  \E i \in DOMAIN polygon :
                /\ {polygon[i], polygon[(i + 1) % Size(polygon)]} =
                        EdgeCycle(w.mesh, x)
                /\ ~IsOnBorder(meshes[origin[1]], <<origin[2], i>>)

\* Two polygons are connected where they are the only ones with an edge, come
\* from the same surfaces, and had each a neighbor there.
ConnectsWithinSurfaces(meshes, vertices, w) ==
    \A x \in PolygonVertices(w.mesh) :
        LET users == {y \in PolygonVertices(w.mesh) :
                        EdgeCycle(w.mesh, y) = EdgeCycle(w.mesh, x)}
        IN  ~IsOnBorder(w.mesh, x) <=>
                /\ Cardinality(users) = 2
                /\ \A y \in users :
                      /\ SurfacesOf(w, y[1]) = SurfacesOf(w, x[1])
                      /\ WasInside(meshes, vertices, w, y)

\* What merge() leaves, in a merger w.
IsMerged(meshes, vertices, w) ==
    /\ KnowsPolygons(meshes, vertices, w)
    /\ ConnectsWithinSurfaces(meshes, vertices, w)
    /\ IsSound(w.mesh)
    /\ Orientations(w.mesh) = {} \/ {} \in Orientations(w.mesh)

\* merge() keeps once each polygon that does not degenerate and knows where it
\* comes from, whichever points are colocated; it connects what was connected
\* and nothing across two surfaces, and what can be oriented is.
MergeKeepsSurfaces ==
    ComputedVertices(mesh) = {} /\ ~mesh.enabled =>
        \A meshes \in {<<mesh, SurfaceOf(Merged)>>} :
        \A vertices \in VertexMappings :
            LET w == Merge(meshes, vertices)
            IN  DOMAIN vertices = IndexRange(OffsetVertices(meshes, 3)) =>
                    IsMerged(meshes, vertices, w)
=============================================================================
