---------------------------- MODULE SurfaceMesh ----------------------------
(***************************************************************************)
(* The data structure of geode::SurfaceMesh and the operations of          *)
(* SurfaceMeshBuilder.                                                     *)
(*                                                                         *)
(* The polygons are lists of vertices; next to them a surface keeps three  *)
(* things that repeat what they say, which each operation updates by hand: *)
(* one polygon around each vertex, the polygon on the other side of each   *)
(* polygon edge, and, when they are enabled, the edges.  A fourth is       *)
(* computed on demand and cached: all the polygons around a vertex, found  *)
(* by turning around it from its polygon through the adjacencies.          *)
(*                                                                         *)
(* A mesh m has                                                            *)
(*   m.polygons   polygon -> [local index -> vertex]                       *)
(*   m.adjacent   polygon -> [local index -> polygon or NoId]              *)
(*   m.around     vertex -> polygon vertex, "polygon_around_vertex"        *)
(*   m.cached     vertex -> list of polygon vertices and whether it is     *)
(*                computed, "polygons_around_vertex"                       *)
(*   m.enabled    whether the edges are enabled                            *)
(*   m.edges      the edges, a FacetStorage                                *)
(***************************************************************************)
EXTENDS FacetStorage

\* PolygonVertex{}, and the absence of an adjacent edge.
NoPolygonVertex == <<NoId, NoId>>

\* A CachedValue after reset().
NotComputed == [computed |-> FALSE, polygons |-> <<>>]

EmptyMesh ==
    [polygons |-> <<>>, adjacent |-> <<>>, around |-> <<>>, cached |-> <<>>,
     enabled |-> FALSE, edges |-> EmptyStorage]

Polygons(m) == DOMAIN m.polygons
Vertices(m) == DOMAIN m.around

\* A pair <<polygon, local index>> is a PolygonVertex, and the PolygonEdge
\* from that vertex to the next one of the polygon.
PolygonVerticesOf(m, S) ==
    UNION {{p} \X DOMAIN m.polygons[p] : p \in S}
PolygonVertices(m) == PolygonVerticesOf(m, Polygons(m))

\* The order of the loops over polygons and their vertices.
Precedes(x, y) == x[1] < y[1] \/ (x[1] = y[1] /\ x[2] < y[2])
FirstOf(S) == CHOOSE x \in S : \A y \in S : x = y \/ Precedes(x, y)
PolygonVertexList(m) ==
    FoldInOrder(LAMBDA list, p :
                list \o [i \in 1 .. Size(m.polygons[p]) |-> <<p, i - 1>>],
             <<>>, Indices(m.polygons))
InOrder(m, S) == Kept(PolygonVertexList(m), S)

\* polygon_vertex()
VertexOf(m, x) == m.polygons[x[1]][x[2]]

VerticesOf(m, p) == {m.polygons[p][i] : i \in DOMAIN m.polygons[p]}

\* The polygon vertices at vertex v.
CornersAt(m, v) == {x \in PolygonVertices(m) : VertexOf(m, x) = v}

\* next_polygon_vertex()
NextPolygonVertex(m, x) == <<x[1], (x[2] + 1) % Size(m.polygons[x[1]])>>

\* previous_polygon_vertex()
PreviousPolygonVertex(m, x) ==
    LET n == Size(m.polygons[x[1]]) IN <<x[1], (x[2] + n - 1) % n>>

\* polygon_edge_vertices(), as a VertexCycle.
EdgeCycle(m, x) == {VertexOf(m, x), VertexOf(m, NextPolygonVertex(m, x))}

\* polygon_adjacent(); is_edge_on_border() when it is NoId.
AdjacentOf(m, x) == m.adjacent[x[1]][x[2]]
IsOnBorder(m, x) == AdjacentOf(m, x) = NoId

\* The edges of the adjacent polygon with the vertices of edge x.
MatchingEdges(m, x) ==
    IF IsOnBorder(m, x)
    THEN {}
    ELSE {y \in PolygonVerticesOf(m, {AdjacentOf(m, x)}) :
            EdgeCycle(m, y) = EdgeCycle(m, x)}

\* The edges whose adjacent polygon is adjacent to theirs by the same edge.
\* polygon_adjacent_edge() throws "Wrong adjacency with polygons" elsewhere.
IsMutual(m, x) ==
    \E y \in MatchingEdges(m, x) : AdjacentOf(m, y) = x[1]

\* polygon_adjacent_edge(), for a mutual adjacency.
PolygonAdjacentEdge(m, x) ==
    LET mutual == {y \in MatchingEdges(m, x) : AdjacentOf(m, y) = x[1]}
    IN  IF IsOnBorder(m, x) THEN NoPolygonVertex ELSE FirstOf(mutual)

-----------------------------------------------------------------------------
\* Mutant: polygons that run along the edge the same way are not told apart.
NextAroundUnoriented(m, w) ==
    LET exit == IF w.isNext THEN w.at ELSE PreviousPolygonVertex(m, w.at)
        adjacent == PolygonAdjacentEdge(m, exit)
    IN  IF adjacent = NoPolygonVertex
        THEN [w EXCEPT !.at = NoPolygonVertex]
        ELSE [w EXCEPT !.at = IF w.isNext
                              THEN NextPolygonVertex(m, adjacent)
                              ELSE adjacent]

\* From an edge to its adjacent edge, and to the other end of it when the two
\* polygons run along it in the same direction.
CrossEdge(m, w, exit, adjacent) ==
    LET isNext == IF VertexOf(m, exit) = VertexOf(m, adjacent)
                  THEN ~w.isNext ELSE w.isNext
    IN  IF adjacent = NoPolygonVertex
        THEN [w EXCEPT !.at = NoPolygonVertex]
        ELSE [w EXCEPT !.isNext = isNext,
                       !.at = IF isNext
                              THEN NextPolygonVertex(m, adjacent)
                              ELSE adjacent]

\* next_polygon_vertex_around(): through the edge that leaves the polygon.
NextAround(m, w) ==
    LET exit == IF w.isNext THEN w.at ELSE PreviousPolygonVertex(m, w.at)
        adjacent == PolygonAdjacentEdge(m, exit)
    IN  CrossEdge(m, w, exit, adjacent)

\* From w.at until the border or the first polygon vertex.  No turn meets
\* more polygon vertices than there are; the code stops at 1000.
Turn(m, first, w) ==
    LET Following(u) == IF u.at \in {NoPolygonVertex, first} THEN u
                        ELSE NextAround(m, [u EXCEPT !.list = Append(@, u.at)])
        turned[n \in 0 .. Cardinality(PolygonVertices(m))] ==
            IF n = 0 THEN NextAround(m, w) ELSE Following(turned[n - 1])
    IN  turned[Cardinality(PolygonVertices(m))]

\* The other way, when a border stopped the first turn.
TurnBack(m, first, turn) ==
    IF turn.at = first
    THEN turn.list
    ELSE Turn(m, first, [turn EXCEPT !.at = first, !.isNext = TRUE]).list

\* compute_polygons_around_vertex()
ComputePolygonsAroundVertex(m, first) ==
    LET turn == Turn(m, first,
            [at |-> first, isNext |-> FALSE, list |-> <<first>>])
    IN  IF first = NoPolygonVertex THEN <<>> ELSE TurnBack(m, first, turn)

\* Mutant: whatever is computed is returned.
AnyComputedPolygons(m, v, first) ==
    IF m.cached[v].computed
    THEN m.cached[v].polygons
    ELSE ComputePolygonsAroundVertex(m, first)

\* updated_polygons_around_vertex(): what is cached will do when it contains
\* the polygon vertex to turn from.
UpdatedPolygonsAroundVertex(m, v, first) ==
    IF m.cached[v].computed /\ first \in ToSet(m.cached[v].polygons)
    THEN m.cached[v].polygons
    ELSE ComputePolygonsAroundVertex(m, first)

\* polygons_around_vertex( v )
PolygonsAroundVertex(m, v) ==
    UpdatedPolygonsAroundVertex(m, v, m.around[v])

\* What a call of polygons_around_vertex() leaves in the cache.
QueryPolygonsAround(m, v, first) ==
    [m EXCEPT !.cached[v] =
        [computed |-> TRUE,
         polygons |-> UpdatedPolygonsAroundVertex(m, v, first)]]

-----------------------------------------------------------------------------
\* reset_polygons_around_vertex(), of each vertex of V.
ResetAround(m, V) ==
    [m EXCEPT !.cached =
        [v \in DOMAIN @ |-> IF v \in V THEN NotComputed ELSE @[v]]]

\* associate_polygon_vertex_to_vertex(), disassociate with NoPolygonVertex.
AssociatePolygonVertex(m, x, v) == [m EXCEPT !.around[v] = x]

\* update_polygon_vertex()
UpdatePolygonVertex(m, x, v) ==
    [ResetAround(AssociatePolygonVertex(m, x, v), {v})
        EXCEPT !.polygons[x[1]][x[2]] = v]

\* update_edge(), when the edges are enabled: the two edges of the polygon at
\* x go from vertex old to new.
UpdateEdge(m, x, old, new) ==
    LET next == VertexOf(m, NextPolygonVertex(m, x))
        previous == VertexOf(m, PreviousPolygonVertex(m, x))
    IN  IF m.enabled
        THEN [m EXCEPT !.edges =
                UpdateFacetVertex(
                    UpdateFacetVertex(@, {old, next}, {new, next}),
                    {previous, old}, {previous, new})]
        ELSE m

\* create_point()
CreatePoint(m) ==
    [m EXCEPT !.around = AppendElement(@, NoPolygonVertex),
              !.cached = AppendElement(@, NotComputed)]

\* The cycles of the edges of the polygons of S, one for each polygon edge.
EdgeCycles(m, S) ==
    LET edges == InOrder(m, PolygonVerticesOf(m, S))
    IN  [i \in DOMAIN edges |-> EdgeCycle(m, edges[i])]

\* Mutant: the polygons around the vertices are those of before.
CreatePolygonUnassociated(m, vertices) ==
    LET p == Size(m.polygons)
        created == [m EXCEPT
            !.polygons = AppendElement(@, vertices),
            !.adjacent = AppendElement(@, [i \in DOMAIN vertices |-> NoId])]
    IN  IF m.enabled
        THEN [created EXCEPT !.edges =
                AddFacets(@, EdgeCycles(created, {p}))]
        ELSE created

\* Each of the polygon vertices of a list becomes the one around its vertex.
AssociateCorners(m, corners) ==
    FoldInOrder(LAMBDA n, x : AssociatePolygonVertex(n, x, VertexOf(n, x)),
                m, corners)

\* create_polygon()
CreatePolygon(m, vertices) ==
    LET p == Size(m.polygons)
        created == [m EXCEPT
            !.polygons = AppendElement(@, vertices),
            !.adjacent = AppendElement(@, [i \in DOMAIN vertices |-> NoId])]
        associated == AssociateCorners(created,
            [i \in 1 .. Size(vertices) |-> <<p, i - 1>>])
    IN  IF m.enabled
        THEN [associated EXCEPT !.edges =
                AddFacets(@, EdgeCycles(created, {p}))]
        ELSE associated

-----------------------------------------------------------------------------
\* set_polygon_adjacent(), unset_polygon_adjacent() with NoId.
SetPolygonAdjacent(m, x, p) ==
    [ResetAround(m, EdgeCycle(m, x)) EXCEPT !.adjacent[x[1]][x[2]] = p]

\* unset_polygon_adjacent() of an edge and of its adjacent edge.
UnsetPolygonAdjacents(m, x) ==
    SetPolygonAdjacent(
        SetPolygonAdjacent(m, x, NoId), PolygonAdjacentEdge(m, x), NoId)

DoSetPolygonAdjacent(m, x, p) == [m EXCEPT !.adjacent[x[1]][x[2]] = p]

\* find_polygon_adjacent_edge()
FindPolygonAdjacentEdge(m, x) ==
    LET matching == MatchingEdges(m, x) IN FirstOf(matching)

\* Mutant: the edge that a third polygon finds connected stays connected.
ConnectEdgeOnly(w, x) ==
    LET cycle == EdgeCycle(w.mesh, x)
        y == w.last[cycle]
    IN  IF ~IsOnBorder(w.mesh, x)
        THEN w
        ELSE IF cycle \notin DOMAIN w.last
        THEN [w EXCEPT !.last = Inserted(@, cycle, x)]
        ELSE [mesh |-> DoSetPolygonAdjacent(
                DoSetPolygonAdjacent(w.mesh, x, y[1]), y, x[1]),
              last |-> [w.last EXCEPT ![cycle] = x]]

\* One polygon edge in compute_polygon_adjacencies(), without edges: the
\* polygon edge met last with the same vertices becomes its adjacent; when
\* that one had an adjacent already, from a polygon before, it keeps it and
\* it is the one before that loses its own.
ConnectEdge(w, x) ==
    LET cycle == EdgeCycle(w.mesh, x)
        y == w.last[cycle]
        set == DoSetPolygonAdjacent(w.mesh, x, y[1])
    IN  IF ~IsOnBorder(w.mesh, x)
        THEN w
        ELSE IF cycle \notin DOMAIN w.last
        THEN [w EXCEPT !.last = Inserted(@, cycle, x)]
        ELSE [mesh |->
                IF IsOnBorder(set, y)
                THEN DoSetPolygonAdjacent(set, y, x[1])
                ELSE DoSetPolygonAdjacent(
                        set, FindPolygonAdjacentEdge(set, y), NoId),
              last |-> [w.last EXCEPT ![cycle] = x]]

ConnectEdges(m, edges) ==
    FoldInOrder(ConnectEdge, [mesh |-> m, last |-> <<>>], edges)

\* The end of it: an edge whose adjacent edge has another adjacent is not
\* manifold, and both are unset.
DisconnectNonManifoldEdge(m, x) ==
    LET y == FindPolygonAdjacentEdge(m, x)
    IN  IF IsOnBorder(m, x) \/ AdjacentOf(m, y) \in {NoId, x[1]}
        THEN m
        ELSE DoSetPolygonAdjacent(DoSetPolygonAdjacent(m, x, NoId), y, NoId)

DisconnectNonManifoldEdges(m, edges) ==
    FoldInOrder(DisconnectNonManifoldEdge, m, edges)

\* The branch of compute_polygon_adjacencies() without edges.
ConnectBorders(m, S) ==
    LET w == ConnectEdges(m, InOrder(m, PolygonVerticesOf(m, S)))
    IN  DisconnectNonManifoldEdges(
            w.mesh, InOrder(m, {w.last[c] : c \in DOMAIN w.last}))

\* The branch with edges: the polygon edges of S are gathered by edge, and an
\* edge with exactly two connects them.
ConnectByEdges(m, S) ==
    LET Others(x) == {y \in PolygonVerticesOf(m, S) \ {x} :
                        EdgeCycle(m, y) = EdgeCycle(m, x)}
    IN  [m EXCEPT !.adjacent = [p \in Polygons(m) |->
            [i \in DOMAIN m.polygons[p] |->
                IF p \in S /\ Cardinality(Others(<<p, i>>)) = 1
                THEN (CHOOSE y \in Others(<<p, i>>) : TRUE)[1]
                ELSE m.adjacent[p][i]]]]

\* compute_polygon_adjacencies( S ).  No list of polygons around a vertex is
\* reset.
ComputePolygonAdjacencies(m, S) ==
    IF m.enabled THEN ConnectByEdges(m, S) ELSE ConnectBorders(m, S)

-----------------------------------------------------------------------------
\* update_polygon_around(): the polygon around a vertex is renumbered, or the
\* first one around it that is left takes its place.  The lists are reset
\* around the polygons that change.
UpdatePolygonAround(m, old2new) ==
    LET Renumbered(x) == <<old2new[x[1]], x[2]>>
        left == {x \in PolygonVertices(m) : old2new[x[1]] # NoId}
        Left(v) == Kept(PolygonsAroundVertex(m, v), left)
        changed == {p \in Polygons(m) : old2new[p] # p}
    IN  [ResetAround(m, UNION {VerticesOf(m, p) : p \in changed}) EXCEPT
            !.around = [v \in Vertices(m) |->
                IF @[v] = NoPolygonVertex
                THEN NoPolygonVertex
                ELSE IF old2new[@[v][1]] # NoId
                THEN Renumbered(@[v])
                ELSE IF Left(v) = <<>>
                THEN NoPolygonVertex
                ELSE Renumbered(Left(v)[1])]]

\* Mutant: only the adjacencies with deleted polygons change.
UnsetDeletedAdjacencies(m, old2new) ==
    [m EXCEPT !.adjacent = [p \in Polygons(m) |->
        [i \in DOMAIN @[p] |->
            IF @[p][i] = NoId \/ old2new[@[p][i]] = NoId
            THEN NoId ELSE @[p][i]]]]

\* update_polygon_adjacencies()
UpdatePolygonAdjacencies(m, old2new) ==
    [m EXCEPT !.adjacent = [p \in Polygons(m) |->
        [i \in DOMAIN @[p] |->
            IF @[p][i] = NoId THEN NoId ELSE old2new[@[p][i]]]]]

\* delete_polygons( D )
DeletePolygons(m, D) ==
    LET old2new == MappingAfterDeletion(Size(m.polygons), D)
        updated == UpdatePolygonAdjacencies(
                        UpdatePolygonAround(m, old2new), old2new)
    IN  IF D = {}
        THEN m
        ELSE [updated EXCEPT
                !.polygons = DeleteElements(@, D),
                !.adjacent = DeleteElements(@, D),
                !.edges = IF m.enabled
                          THEN RemoveFacets(@, EdgeCycles(m, D))
                          ELSE @]

\* permute_polygons()
PermutePolygons(m, permutation) ==
    LET old2new == Old2NewPermutation(permutation)
        updated == UpdatePolygonAdjacencies(
                        UpdatePolygonAround(m, old2new), old2new)
    IN  [updated EXCEPT
            !.polygons = PermuteElements(@, permutation),
            !.adjacent = PermuteElements(@, permutation)]

-----------------------------------------------------------------------------
\* One turn of the loop of update_polygon_around_vertices().  The attributes
\* are renumbered already, so v is a new index, and taken for an old one.
UpdatePolygonAroundVertex(m, old2new, v) ==
    LET new == old2new[v]
    IN  IF new = v
        THEN m
        ELSE IF new # NoId /\ m.around[new] # NoPolygonVertex
        THEN AssociatePolygonVertex(m, m.around[new], v)
        ELSE ResetAround(AssociatePolygonVertex(m, NoPolygonVertex, v), {v})

\* update_polygon_around_vertices()
UpdatePolygonAroundVertices(m, old2new) ==
    FoldInOrder(LAMBDA n, v : UpdatePolygonAroundVertex(n, old2new, v),
                m, Indices(m.around))

\* The vertex of a polygon vertex is renumbered.
RenumberVertexOf(m, old2new, x) ==
    LET new == old2new[VertexOf(m, x)]
    IN  IF new = VertexOf(m, x) THEN m ELSE UpdatePolygonVertex(m, x, new)

RenumberVerticesOf(m, old2new, corners) ==
    FoldInOrder(LAMBDA n, x : RenumberVertexOf(n, old2new, x), m, corners)

\* update_polygon_vertices(), in a mesh whose vertex attributes are renumbered
\* already: the loop over the vertices, then the one over the polygons.
UpdatePolygonVertices(m, old2new) ==
    RenumberVerticesOf(UpdatePolygonAroundVertices(m, old2new), old2new,
                       PolygonVertexList(m))

\* do_delete_vertices(), do_permute_vertices()
RenumberVertices(m, old2new) ==
    LET updated == UpdatePolygonVertices(m, old2new)
    IN  IF m.enabled
        THEN [updated EXCEPT !.edges = UpdateFacetVertices(@, old2new)]
        ELSE updated

\* delete_vertices( D ): the attributes first.  It throws then, in
\* check_no_polygon_to_delete(), when a vertex of D has polygons.
DeleteSurfaceVertices(m, D) ==
    LET deleted == [m EXCEPT !.around = DeleteElements(@, D),
                             !.cached = DeleteElements(@, D)]
    IN  IF D = {}
        THEN m
        ELSE IF \E v \in D : CornersAt(m, v) # {}
        THEN deleted
        ELSE RenumberVertices(deleted,
                              MappingAfterDeletion(Size(m.around), D))

\* The vertices that delete_isolated_vertices() deletes.
IsolatedPoints(m) == {v \in Vertices(m) : m.around[v] = NoPolygonVertex}

\* permute_vertices()
PermuteSurfaceVertices(m, permutation) ==
    RenumberVertices([m EXCEPT !.around = PermuteElements(@, permutation),
                               !.cached = PermuteElements(@, permutation)],
                     Old2NewPermutation(permutation))

-----------------------------------------------------------------------------
\* A polygon vertex goes from vertex old to new, in a loop over several.
MovePolygonVertex(m, x, old, new) ==
    UpdatePolygonVertex(UpdateEdge(m, x, old, new), x, new)

MovePolygonVertices(m, corners, old, new) ==
    FoldInOrder(LAMBDA n, x : MovePolygonVertex(n, x, old, new), m, corners)

\* The polygon around vertex old leaves it.  When another one is found in the
\* list of those around it, that one is associated to the vertex new.
LeaveVertex(m, old, new, list) ==
    IF Len(list) < 2
    THEN AssociatePolygonVertex(m, NoPolygonVertex, old)
    ELSE AssociatePolygonVertex(m, list[2], new)

\* set_polygon_vertex()
SetPolygonVertex(m, x, new) ==
    LET old == VertexOf(m, x)
        list == PolygonsAroundVertex(m, old)
        left == IF m.around[old] = x THEN LeaveVertex(m, old, new, list) ELSE m
    IN  IF old = new
        THEN m
        ELSE MovePolygonVertex(ResetAround(left, {old}), x, old, new)

\* Mutant: the edges of the polygons moved are left as they were.
ReplaceSurfaceVertexOnly(m, old, new) ==
    IF old = new
    THEN m
    ELSE ResetAround(
            FoldInOrder(LAMBDA n, x : UpdatePolygonVertex(n, x, new),
                     AssociatePolygonVertex(m, NoPolygonVertex, old),
                     PolygonsAroundVertex(m, old)),
            {old})

\* replace_vertex()
ReplaceSurfaceVertex(m, old, new) ==
    IF old = new
    THEN m
    ELSE ResetAround(
            MovePolygonVertices(
                AssociatePolygonVertex(m, NoPolygonVertex, old),
                PolygonsAroundVertex(m, old), old, new),
            {old})

\* One polygon vertex in replace_vertices().
ReplaceVertexOf(m, mapping, x) ==
    LET old == VertexOf(m, x)
        left == AssociatePolygonVertex(m, NoPolygonVertex, old)
    IN  IF old \notin DOMAIN mapping \/ mapping[old] = old
        THEN m
        ELSE MovePolygonVertex(ResetAround(left, {old}), x, old, mapping[old])

ReplaceVerticesOf(m, mapping, corners) ==
    FoldInOrder(LAMBDA n, x : ReplaceVertexOf(n, mapping, x), m, corners)

\* replace_vertices(), for a mapping that gives each vertex one image.
ReplaceVertices(m, mapping) ==
    ReplaceVerticesOf(m, mapping, PolygonVertexList(m))

-----------------------------------------------------------------------------
\* enable_edges()
EnableEdges(m) ==
    IF m.enabled
    THEN m
    ELSE [m EXCEPT
            !.enabled = TRUE,
            !.edges = AddFacets(EmptyStorage, EdgeCycles(m, Polygons(m)))]

\* disable_edges()
DisableEdges(m) == [m EXCEPT !.enabled = FALSE, !.edges = EmptyStorage]

\* SurfaceEdgesBuilder::delete_isolated_edges()
DeleteIsolatedEdges(m) == [m EXCEPT !.edges = CleanFacets(@)]

CreateCopies(m, polygons) == FoldInOrder(CreatePolygon, m, polygons)

\* copy() into an empty mesh: the polygons are created one by one, then given
\* the polygons around the vertices, the adjacencies and the edges of m.
\* "polygons_around_vertex" is not transferable.
CopyMesh(m) ==
    LET points == [EmptyMesh EXCEPT
            !.around = [v \in Vertices(m) |-> NoPolygonVertex],
            !.cached = [v \in Vertices(m) |-> NotComputed]]
        polygons == [n \in 1 .. Size(m.polygons) |-> m.polygons[n - 1]]
    IN  [CreateCopies(points, polygons) EXCEPT
            !.around = m.around, !.adjacent = m.adjacent,
            !.enabled = m.enabled, !.edges = m.edges]
=============================================================================
