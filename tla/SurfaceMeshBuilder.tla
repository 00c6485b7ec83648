------------------------- MODULE SurfaceMeshBuilder -------------------------
(***************************************************************************)
(* A surface that is built and changed through SurfaceMeshBuilder, with or *)
(* without its edges enabled, while its users ask for the polygons around  *)
(* vertices.                                                               *)
(*                                                                         *)
(* The comments of the code ask for some care: replace_vertex() "supposes  *)
(* that the mesh is manifold around old vertex", polygons_around_vertex()  *)
(* "needs that polygon adjacencies are computed".  SurfaceNext asks for    *)
(* that much and for what else the operations need to leave a sound mesh,  *)
(* each guard with its reason.  No polygon has twice the same vertex.      *)
(***************************************************************************)
EXTENDS SurfaceMesh

CONSTANTS
    MaxVertices,    \* bound on the number of vertices
    MaxPolygons,    \* bound on the number of polygons
    MaxComputed,    \* bound on the number of vertices with a cached list
    NewPolygons,    \* the polygons that are created, lists of vertices
    VertexPermutations, \* permutations of vertices
    Twins           \* whether two polygons may have the same vertices

PermutationsOf(S) == {p \in [S -> S] : IsInjective(p)}

ASSUME BoundsAssumption ==
    /\ MaxVertices \in Nat
    /\ MaxPolygons \in Nat
    /\ MaxComputed \in Nat
    /\ \A vertices \in NewPolygons :
          /\ vertices \in [IndexRange(Size(vertices)) -> Nat]
          /\ IsInjective(vertices)
          /\ Size(vertices) \in Nat
          /\ Size(vertices) >= 3
    /\ \A p \in VertexPermutations : p \in PermutationsOf(IndexRange(Size(p)))
    /\ Twins \in BOOLEAN

VARIABLE mesh

\* The vertices with a cached list.
ComputedVertices(m) == {v \in Vertices(m) : m.cached[v].computed}

SurfaceInit == mesh = EmptyMesh

-----------------------------------------------------------------------------
\* compute_polygon_adjacencies() was called since the last polygon: it would
\* change nothing.
AdjacenciesAreComputed(m) ==
    ComputePolygonAdjacencies(m, Polygons(m)).adjacent = m.adjacent

\* The polygons around v are one fan.
IsManifold(m, v) ==
    ToSet(PolygonsAroundVertex(m, v)) = CornersAt(m, v)

\* The lists that polygons_around_vertex( v ) returns as they are.
ListsInUse(m) ==
    {v \in ComputedVertices(m) : m.around[v] \in ToSet(m.cached[v].polygons)}

\* From m to n no adjacency at a vertex with such a list changes.
KeepsLists(m, n) ==
    \A x \in PolygonVertices(m) : AdjacentOf(n, x) # AdjacentOf(m, x) =>
        EdgeCycle(m, x) \cap ListsInUse(m) = {}

\* No two polygons have the same vertices unless Twins.
IsSimple(m) == Twins \/ IsInjective([p \in Polygons(m) |-> VerticesOf(m, p)])

RunCreatePoint ==
    /\ Size(mesh.around) < MaxVertices
    /\ mesh' = CreatePoint(mesh)

RunCreatePolygon ==
    /\ Size(mesh.polygons) < MaxPolygons
    /\ \E vertices \in NewPolygons :
        /\ \A i \in DOMAIN vertices : vertices[i] \in Vertices(mesh)
        /\ mesh' = CreatePolygon(mesh, vertices)
        /\ IsSimple(mesh')

\* With the edges enabled the adjacencies of an edge of three polygons are
\* lost to a call with two of them.
RunComputePolygonAdjacencies(S) ==
    /\ mesh.enabled => S = Polygons(mesh)
    /\ mesh' = ComputePolygonAdjacencies(mesh, S)

RunUnsetPolygonAdjacents ==
    \E x \in PolygonVertices(mesh) :
        /\ ~IsOnBorder(mesh, x)
        /\ mesh' = UnsetPolygonAdjacents(mesh, x)

\* The fan that holds the polygon around a vertex is not deleted while there
\* is another one: the vertex would count as isolated.
RunDeletePolygons ==
    \E D \in SUBSET Polygons(mesh) :
        /\ \A v \in Vertices(mesh) :
              mesh.around[v][1] \in D =>
                  IsManifold(mesh, v)
                     \/ \E x \in ToSet(PolygonsAroundVertex(mesh, v)) :
                            x[1] \notin D
        /\ mesh' = DeletePolygons(mesh, D)

RunPermutePolygons ==
    \E p \in PermutationsOf(Polygons(mesh)) :
        mesh' = PermutePolygons(mesh, p)

RunDeleteIsolatedVertices ==
    mesh' = DeleteSurfaceVertices(mesh, IsolatedPoints(mesh))

\* An isolated vertex that moves would get a polygon around it.
RunPermuteVertices ==
    \E p \in VertexPermutations :
        /\ DOMAIN p = Vertices(mesh)
        /\ \A v \in IsolatedPoints(mesh) : p[v] = v
        /\ mesh' = PermuteSurfaceVertices(mesh, p)

\* The polygon vertex is on no adjacency, and its vertex keeps another polygon
\* around it or has no other.
RunSetPolygonVertex(x, new) ==
    /\ new \notin VerticesOf(mesh, x[1]) \ {VertexOf(mesh, x)}
    /\ IsOnBorder(mesh, x)
    /\ IsOnBorder(mesh, PreviousPolygonVertex(mesh, x))
    /\ \/ mesh.around[VertexOf(mesh, x)] # x
       \/ CornersAt(mesh, VertexOf(mesh, x)) = {x}
    /\ mesh' = SetPolygonVertex(mesh, x, new)
    /\ IsSimple(mesh')

\* The mappings of one vertex or of two, none of them the image of the other.
Mappings ==
    {f \in UNION {[S -> IndexRange(MaxVertices)] :
                    S \in SUBSET IndexRange(MaxVertices)} :
        Cardinality(DOMAIN f) \in 1 .. 2 /\ Range(f) \cap DOMAIN f = {}}

\* The polygons keep distinct vertices.
StayDistinct(mapping) ==
    \A p \in Polygons(mesh) :
        LET vertices == VerticesOf(mesh, p)
            moved == vertices \cap DOMAIN mapping
        IN  /\ {mapping[v] : v \in moved} \cap vertices = {}
            /\ IsInjective([v \in moved |-> mapping[v]])

RunReplaceVertex ==
    \E old, new \in Vertices(mesh) :
        /\ old = new \/ StayDistinct([v \in {old} |-> new])
        /\ IsManifold(mesh, old)
        /\ mesh' = ReplaceSurfaceVertex(mesh, old, new)
        /\ IsSimple(mesh')

RunReplaceVertices ==
    \E mapping \in Mappings :
        /\ DOMAIN mapping \cup Range(mapping) \subseteq Vertices(mesh)
        /\ StayDistinct(mapping)
        /\ mesh' = ReplaceVertices(mesh, mapping)
        /\ IsSimple(mesh')

\* Bound: no list is cached while the edges are enabled.  No operation uses
\* the ones for the others.
RunEnableEdges ==
    /\ ComputedVertices(mesh) = {}
    /\ mesh' = EnableEdges(mesh)

RunDisableEdges == mesh' = DisableEdges(mesh)

RunDeleteIsolatedEdges ==
    mesh.enabled /\ mesh' = DeleteIsolatedEdges(mesh)

RunCopy == mesh' = CopyMesh(mesh)

\* polygons_around_vertex(), of a vertex or of one of its polygon vertices.
RunQueryPolygonsAround ==
    /\ ~mesh.enabled
    /\ AdjacenciesAreComputed(mesh)
    /\ \E v \in Vertices(mesh) :
          /\ Cardinality(ComputedVertices(mesh) \cup {v}) <= MaxComputed
          /\ \E first \in {mesh.around[v]} \cup CornersAt(mesh, v) :
                mesh' = QueryPolygonsAround(mesh, v, first)

\* compute_polygon_adjacencies() resets no list: one that ends at a border
\* that it connects would be returned as it was.
SurfaceNext ==
    \/ RunCreatePoint
    \/ RunCreatePolygon
    \/ \E S \in SUBSET Polygons(mesh) :
          RunComputePolygonAdjacencies(S) /\ KeepsLists(mesh, mesh')
    \/ RunUnsetPolygonAdjacents
    \/ RunDeletePolygons
    \/ RunPermutePolygons
    \/ RunDeleteIsolatedVertices
    \/ RunPermuteVertices
    \/ \E x \in PolygonVertices(mesh), new \in Vertices(mesh) :
          RunSetPolygonVertex(x, new)
    \/ RunReplaceVertex
    \/ RunReplaceVertices
    \/ RunEnableEdges
    \/ RunDisableEdges
    \/ RunDeleteIsolatedEdges
    \/ RunCopy
    \/ RunQueryPolygonsAround

SurfaceSpec == SurfaceInit /\ [][SurfaceNext]_mesh

-----------------------------------------------------------------------------
\* Every vector of a group of attributes has its size, and every index stored
\* is one of an element.
SurfaceTypeOK ==
    /\ Polygons(mesh) = IndexRange(Size(mesh.polygons))
    /\ Vertices(mesh) = IndexRange(Size(mesh.around))
    /\ DOMAIN mesh.adjacent = Polygons(mesh)
    /\ DOMAIN mesh.cached = Vertices(mesh)
    /\ \A x \in PolygonVertices(mesh) :
          /\ VertexOf(mesh, x) \in Vertices(mesh)
          /\ AdjacentOf(mesh, x) \in Polygons(mesh) \cup {NoId}
    /\ \A v \in Vertices(mesh) :
          /\ mesh.around[v] \in PolygonVertices(mesh) \cup {NoPolygonVertex}
          /\ mesh.cached[v].computed \in BOOLEAN
    /\ mesh.enabled \in BOOLEAN
    /\ IsConsistent(mesh.edges)

\* What polygon_around_vertex() finds is a polygon of the vertex, and it finds
\* one when there is one.
FindsPolygonAround(m, v) ==
    IF CornersAt(m, v) = {}
    THEN m.around[v] = NoPolygonVertex
    ELSE m.around[v] \in CornersAt(m, v)

\* The polygon across an edge is another one, with this one across the edge.
HasMutualAdjacency(m, x) ==
    \/ IsOnBorder(m, x)
    \/ AdjacentOf(m, x) # x[1] /\ IsMutual(m, x)

\* A list that is cached is what polygons_around_vertex() would compute.
HasCurrentList(m, v) ==
    m.cached[v].computed =>
        ToSet(PolygonsAroundVertex(m, v)) =
            ToSet(ComputePolygonsAroundVertex(m, m.around[v]))

\* The edge between two vertices is counted for every polygon edge of theirs.
CountsEdge(m, cycle) ==
    CountOf(m.edges, cycle) =
        Cardinality({x \in PolygonVertices(m) : EdgeCycle(m, x) = cycle})

\* polygon_around_vertex() finds a polygon of the vertex, and finds none, so
\* that the vertex counts as isolated and is deleted as such, only when no
\* polygon has it.
AroundMatchesPolygons ==
    /\ SurfaceTypeOK
    /\ \A v \in Vertices(mesh) : FindsPolygonAround(mesh, v)

\* Whatever is deleted, moved or connected, the polygon across an edge is
\* another one, that has an edge with the same two vertices and this polygon
\* across it: without one polygon_adjacent_edge() throws.
AdjacencyIsMutual ==
    \A x \in PolygonVertices(mesh) : HasMutualAdjacency(mesh, x)

\* polygons_around_vertex() of a vertex returns what it would compute now,
\* although operations reset only some of the lists that they change.
CachedListsAreCurrent ==
    \A v \in Vertices(mesh) : HasCurrentList(mesh, v)

\* Each edge is counted once for every polygon edge with its two vertices, so
\* that delete_isolated_edges() deletes those that no polygon has.
EdgesCountPolygonEdges ==
    mesh.enabled =>
        \A u, v \in Vertices(mesh) : CountsEdge(mesh, {u, v})

\* Meshes for the two algorithms below: this one, and this one with one polygon
\* more than MaxPolygons.  Neither algorithm reads a cached list.
Extended ==
    IF ComputedVertices(mesh) # {}
    THEN {}
    ELSE {mesh} \cup {CreatePolygon(mesh, vertices) : vertices \in
            {p \in NewPolygons : Range(p) \subseteq Vertices(mesh)}}

\* The polygon vertices at the vertex of x that an adjacency joins to x.
Neighbours(m, x) ==
    LET ends == {PolygonAdjacentEdge(m, e) :
                    e \in {x, PreviousPolygonVertex(m, x)}} \ {NoPolygonVertex}
    IN  {y \in ends \cup {NextPolygonVertex(m, z) : z \in ends} :
            VertexOf(m, y) = VertexOf(m, x)}

\* Turning around a vertex, from any of its polygons and whatever way each of
\* them runs, visits once each polygon that adjacencies join to the first,
\* directly or not.  It reads no edge.
TurnsVisitTheFan ==
    mesh.enabled \/ \A m \in Extended \cup
             {ComputePolygonAdjacencies(n, Polygons(n)) : n \in Extended} :
    \A first \in PolygonVertices(m) :
        LET list == ComputePolygonsAroundVertex(m, first)
        IN  /\ IsInjective(list)
            /\ \A x \in ToSet(list) : Neighbours(m, x) \subseteq ToSet(list)

\* compute_polygon_adjacencies(), which meets the polygons of an edge one by
\* one, connects a border edge to another when there are exactly two to
\* connect: an edge of three polygons stays on border for all of them.
ComputeConnectsPairs ==
    \A m \in Extended : \A S \in SUBSET Polygons(m) :
        LET connected == ComputePolygonAdjacencies(m, S)
            Mates(x) == {y \in PolygonVerticesOf(m, S) \ {x} :
                            /\ EdgeCycle(m, y) = EdgeCycle(m, x)
                            /\ m.enabled \/ IsOnBorder(m, y)}
        IN  \A x \in PolygonVerticesOf(m, S) : IsOnBorder(m, x) =>
                AdjacentOf(connected, x) =
                    IF Cardinality(Mates(x)) = 1
                    THEN (CHOOSE y \in Mates(x) : TRUE)[1]
                    ELSE NoId
=============================================================================
