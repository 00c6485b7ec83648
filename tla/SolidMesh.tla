----------------------------- MODULE SolidMesh -----------------------------
(***************************************************************************)
(* The data structure of geode::SolidMesh and the operations of            *)
(* SolidMeshBuilder, on an OpenGeodePolyhedralSolid.                       *)
(*                                                                         *)
(* As for a surface, next to the polyhedra a solid keeps what repeats them *)
(* and is updated by hand: one polyhedron around each vertex, the          *)
(* polyhedron across each facet, the edges and the facets when they are    *)
(* enabled, and, computed on demand, all the polyhedra around a vertex     *)
(* with whether it is on the border.  There is no turning around a vertex  *)
(* here: its polyhedra are found by a search through the adjacencies, and  *)
(* those around an edge from facet to facet, both ways.                    *)
(*                                                                         *)
(* A mesh m has                                                            *)
(*   m.polyhedra         the polyhedra, a PolyhedralStorage                *)
(*   m.around            vertex -> polyhedron vertex,                      *)
(*                       "polyhedron_around_vertex"                        *)
(*   m.cached            vertex -> list of polyhedron vertices, whether    *)
(*                       the vertex is on the border and whether they are  *)
(*                       computed, "polyhedra_around_vertex"               *)
(*   m.edges_enabled, m.edges     the edges, a FacetStorage                *)
(*   m.facets_enabled, m.facets   the facets, another one                  *)
(***************************************************************************)
EXTENDS FacetStorage, PolyhedralStorage

\* PolyhedronVertex{}, and no PolyhedronFacet.
NoPolyhedronVertex == <<NoId, NoId>>
NoFacet == <<NoId, NoId>>

\* PolyhedraAroundVertexImpl{}: without a polyhedron, on the border.
NoPolyhedraAround == [list |-> <<>>, border |-> TRUE]

\* A CachedValue after reset().
NotComputed == [computed |-> FALSE, value |-> NoPolyhedraAround]

EmptyMesh ==
    [polyhedra |-> NoPolyhedra, around |-> <<>>, cached |-> <<>>,
     edges_enabled |-> FALSE, edges |-> EmptyStorage,
     facets_enabled |-> FALSE, facets |-> EmptyStorage]

Polyhedra(m) == IndexRange(NbPolyhedra(m.polyhedra))
Vertices(m) == DOMAIN m.around

\* Pairs <<polyhedron, local index>>, in the order of the loops.
PolyhedronVerticesOf(m, p) ==
    [i \in 1 .. NbVerticesOf(m.polyhedra, p) |-> <<p, i - 1>>]
FacetsOf(m, p) == [i \in 1 .. NbFacetsOf(m.polyhedra, p) |-> <<p, i - 1>>]

\* The elements of all the polyhedra of S, polyhedron after polyhedron.
Gather(m, S, Of(_, _)) ==
    FoldInOrder(LAMBDA list, p : list \o Of(m, p), <<>>,
        SelectSeq(IndicesBelow(NbPolyhedra(m.polyhedra)), LAMBDA p : p \in S))
PolyhedronVertexList(m) == Gather(m, Polyhedra(m), PolyhedronVerticesOf)
FacetList(m, S) == Gather(m, S, FacetsOf)

\* polyhedron_vertex(), polyhedron_vertices()
VertexOf(m, x) == StoredVertex(m.polyhedra, x[1], x[2])
VerticesOf(m, p) == {VertexOf(m, x) : x \in ToSet(PolyhedronVerticesOf(m, p))}

\* The polyhedron vertices at vertex v.
CornersAt(m, v) == {x \in ToSet(PolyhedronVertexList(m)) : VertexOf(m, x) = v}

\* polyhedron_facet_vertex_id(), for each vertex of a facet, and
\* polyhedron_facet_vertices()
FacetVertexIds(m, f) == FacetRow(m.polyhedra, f[1], f[2])
FacetVertices(m, f) ==
    LET ids == FacetVertexIds(m, f)
    IN  [i \in DOMAIN ids |-> VertexOf(m, <<f[1], ids[i]>>)]

\* A facet as a VertexCycle.
FacetCycle(m, f) ==
    LET ids == FacetVertexIds(m, f)
    IN  {VertexOf(m, <<f[1], ids[i]>>) : i \in DOMAIN ids}

\* polyhedron_adjacent(); is_polyhedron_facet_on_border() when it is NoId.
AdjacentOf(m, f) == StoredAdjacent(m.polyhedra, f[1], f[2])
IsOnBorder(m, f) == AdjacentOf(m, f) = NoId

\* The facets of the adjacent polyhedron, back through facet f.
\* polyhedron_adjacent_facet() throws "Wrong adjacency with polyhedra" when
\* there is none.
FacetsBack(m, f) ==
    IF IsOnBorder(m, f)
    THEN <<>>
    ELSE SelectSeq(FacetsOf(m, AdjacentOf(m, f)), LAMBDA g :
            /\ AdjacentOf(m, g) = f[1]
            /\ FacetCycle(m, g) \subseteq FacetCycle(m, f))

\* polyhedron_adjacent_facet()
AdjacentFacet(m, f) == IF IsOnBorder(m, f) THEN NoFacet ELSE FacetsBack(m, f)[1]

\* polyhedron_vertex_facets()
VertexFacets(m, x) ==
    SelectSeq(FacetsOf(m, x[1]), LAMBDA f : VertexOf(m, x) \in FacetCycle(m, f))

\* is_edge_in_polyhedron_facet()
IsEdgeInFacet(m, f, edge) ==
    LET vertices == FacetVertices(m, f)
    IN  \E i \in DOMAIN vertices :
            {vertices[i], vertices[(i + 1) % Size(vertices)]} = edge

\* polyhedron_edges_vertices(), as VertexCycles: an edge of two facets is in
\* the list once, from the facet where it ascends.
PolyhedronEdges(m, p) ==
    LET Ascending(f) ==
            LET vertices == FacetVertices(m, f)
                Next(i) == vertices[(i + 1) % Size(vertices)]
                list == SelectSeq(Indices(vertices),
                                  LAMBDA i : vertices[i] < Next(i))
            IN  [k \in DOMAIN list |-> {vertices[list[k]], Next(list[k])}]
    IN  FoldInOrder(LAMBDA list, f : list \o Ascending(f), <<>>, FacetsOf(m, p))

\* polyhedron_facets_vertices(), as VertexCycles.
PolyhedronFacets(m, p) ==
    [i \in DOMAIN FacetsOf(m, p) |-> FacetCycle(m, FacetsOf(m, p)[i])]

-----------------------------------------------------------------------------
\* Mutant: only the polyhedra that were taken from the stack are marked.
VisitPolyhedronUnmarked(m, w) ==
    LET x == Last(w.stack)
        Look(u, f) ==
            LET p == AdjacentOf(m, f)
            IN  IF p = NoId
                THEN [u EXCEPT !.border = TRUE]
                ELSE IF p \in u.visited
                THEN u
                ELSE [u EXCEPT !.stack = @ \o
                        SelectSeq(PolyhedronVerticesOf(m, p), LAMBDA y :
                            VertexOf(m, y) = VertexOf(m, x))]
    IN  FoldInOrder(Look,
            [w EXCEPT !.list = Append(@, x), !.stack = Front(@),
                      !.visited = @ \cup {x[1]}],
            VertexFacets(m, x))

\* One turn of the loop of compute_polyhedra_around_vertex(): a polyhedron is
\* taken from the stack, and those across its facets at the vertex are pushed
\* on it, each the first time it is seen.
VisitPolyhedron(m, w) ==
    LET x == Last(w.stack)
        Look(u, f) ==
            LET p == AdjacentOf(m, f)
            IN  IF p = NoId
                THEN [u EXCEPT !.border = TRUE]
                ELSE IF p \in u.visited
                THEN u
                ELSE [u EXCEPT
                        !.visited = @ \cup {p},
                        !.stack = @ \o
                            SelectSeq(PolyhedronVerticesOf(m, p), LAMBDA y :
                                VertexOf(m, y) = VertexOf(m, x))]
    IN  FoldInOrder(Look,
            [w EXCEPT !.list = Append(@, x), !.stack = Front(@)],
            VertexFacets(m, x))

\* compute_polyhedra_around_vertex().  No search takes more polyhedra than
\* twice those there are; the code stops at 40000.
ComputePolyhedraAroundVertex(m, first) ==
    LET searched[n \in Nat] ==
            LET w == searched[n - 1]
            IN  IF n = 0
                THEN [list |-> <<>>, border |-> FALSE, stack |-> <<first>>,
                      visited |-> {first[1]}]
                ELSE IF w.stack = <<>> THEN w ELSE VisitPolyhedron(m, w)
        found == searched[2 * NbPolyhedra(m.polyhedra)]
    IN  IF first = NoPolyhedronVertex
        THEN NoPolyhedraAround
        ELSE [list |-> found.list, border |-> found.border]

\* Mutant: whatever is computed is returned.
AnyComputedPolyhedra(m, v, first) ==
    IF m.cached[v].computed
    THEN m.cached[v].value
    ELSE ComputePolyhedraAroundVertex(m, first)

\* updated_polyhedra_around_vertex(): what is cached will do when it contains
\* the polyhedron vertex to search from.
UpdatedPolyhedraAroundVertex(m, v, first) ==
    IF m.cached[v].computed /\ first \in ToSet(m.cached[v].value.list)
    THEN m.cached[v].value
    ELSE ComputePolyhedraAroundVertex(m, first)

\* polyhedra_around_vertex( v ), is_vertex_on_border( v )
AroundVertex(m, v) == UpdatedPolyhedraAroundVertex(m, v, m.around[v])
PolyhedraAroundVertex(m, v) == AroundVertex(m, v).list
IsVertexOnBorder(m, v) == AroundVertex(m, v).border

\* What a call of one of them leaves in the cache.
QueryPolyhedraAround(m, v, first) ==
    [m EXCEPT !.cached[v] =
        [computed |-> TRUE,
         value |-> UpdatedPolyhedraAroundVertex(m, v, first)]]

\* propagate_around_edge(): from a facet to the polyhedron across it, out by
\* its other facet at the edge, until the border or the first polyhedron.
\* The code counts no turn; none is longer than there are polyhedra.
PropagateAroundEdge(m, facet, edge) ==
    LET Cross(w) ==
            LET entry == AdjacentFacet(m, w.at)
                exits == SelectSeq(FacetsOf(m, entry[1]), LAMBDA g :
                            g # entry /\ IsEdgeInFacet(m, g, edge))
            IN  IF entry = NoFacet
                THEN [w EXCEPT !.at = NoFacet]
                ELSE [w EXCEPT !.at = exits[1],
                               !.list = Append(@, entry[1]),
                               !.found = entry[1] = facet[1]]
        crossed[n \in Nat] ==
            LET w == crossed[n - 1]
            IN  IF n = 0
                THEN [at |-> facet, list |-> <<>>, found |-> FALSE]
                ELSE IF w.found \/ w.at = NoFacet THEN w ELSE Cross(w)
        turn == crossed[NbPolyhedra(m.polyhedra)]
    IN  [list |-> turn.list, found |-> turn.found]

\* The facets of polyhedron p at an edge.
EdgeFacets(m, p, edge) ==
    SelectSeq(FacetsOf(m, p), LAMBDA f : IsEdgeInFacet(m, f, edge))

\* polyhedra_around_edge(), from one of them: all of them by the first facet,
\* or those on one side and those on the other.
PolyhedraAroundEdge(m, edge, first) ==
    LET Add(w, f) ==
            LET turn == PropagateAroundEdge(m, f, edge)
            IN  IF w.found
                THEN w
                ELSE IF turn.found
                THEN turn
                ELSE [w EXCEPT !.list = @ \o turn.list]
    IN  FoldInOrder(Add, [list |-> <<first>>, found |-> FALSE],
                    EdgeFacets(m, first, edge)).list

\* is_edge_on_border(), from one of its polyhedra.
IsEdgeOnBorder(m, edge, first) ==
    ~PropagateAroundEdge(m, EdgeFacets(m, first, edge)[1], edge).found

-----------------------------------------------------------------------------
\* reset_polyhedra_around_vertex(), of each vertex of V.
ResetAround(m, V) ==
    [m EXCEPT !.cached =
        [v \in DOMAIN @ |-> IF v \in V THEN NotComputed ELSE @[v]]]

\* associate_polyhedron_vertex_to_vertex(), disassociate with
\* NoPolyhedronVertex.
Associate(m, x, v) == [m EXCEPT !.around[v] = x]

\* update_polyhedron_vertex().  It resets no list.
UpdatePolyhedronVertex(m, x, v) ==
    [Associate(m, x, v) EXCEPT
        !.polyhedra = SetStoredVertex(@, x[1], x[2], v)]

\* Mutant: an edge is updated in each of its two facets.
UpdateEdgesBothWays(m, f, x, new) ==
    LET ids == FacetVertexIds(m, f)
        Vertex(i) == VertexOf(m, <<f[1], ids[i % Size(ids)]>>)
        i == CHOOSE j \in DOMAIN ids : ids[j] = x[2]
        Update(s, other) ==
            UpdateFacetVertex(s, {Vertex(i), other}, {new, other})
    IN  Update(Update(m.edges, Vertex(i + 1)), Vertex(i + Size(ids) - 1))

\* The edges in one turn of update_edge_and_facet(): those of facet f at x,
\* each only in the facet where it ascends.
UpdateEdges(m, f, x, new) ==
    LET ids == FacetVertexIds(m, f)
        Vertex(i) == VertexOf(m, <<f[1], ids[i % Size(ids)]>>)
        i == CHOOSE j \in DOMAIN ids : ids[j] = x[2]
        Update(s, a, b, other) ==
            IF a < b
            THEN UpdateFacetVertex(s, {a, b}, {new, other})
            ELSE s
        next == Vertex(i + 1)
        previous == Vertex(i + Size(ids) - 1)
    IN  Update(Update(m.edges, Vertex(i), next, next),
               previous, Vertex(i), previous)

\* update_edge_and_facet(): the facets of the polyhedron at x go from the
\* vertex of x to new, and their edges too.
UpdateEdgeAndFacet(m, x, new) ==
    LET cycle(f) == FacetCycle(m, f)
        Update(n, f) ==
            [n EXCEPT
                !.facets =
                    IF m.facets_enabled
                    THEN UpdateFacetVertex(@, cycle(f),
                            (cycle(f) \ {VertexOf(m, x)}) \cup {new})
                    ELSE @,
                !.edges =
                    IF m.edges_enabled THEN UpdateEdges(n, f, x, new) ELSE @]
    IN  FoldInOrder(Update, m, VertexFacets(m, x))

\* create_point()
CreateVertex(m) ==
    [m EXCEPT !.around = AppendElement(@, NoPolyhedronVertex),
              !.cached = AppendElement(@, NotComputed)]

\* The cycles of the edges and of the facets of the polyhedra of S.
EdgeCycles(m, S) == Gather(m, S, PolyhedronEdges)
FacetCycles(m, S) == Gather(m, S, PolyhedronFacets)

\* find_or_create_edge(), find_or_create_facet(), remove_edge() ... of each
\* edge and facet of the polyhedra of S, when they are enabled.
ForEdgesAndFacets(m, S, Change(_, _)) ==
    [m EXCEPT
        !.edges = IF m.edges_enabled
                  THEN FoldInOrder(Change, @, EdgeCycles(m, S)) ELSE @,
        !.facets = IF m.facets_enabled
                   THEN FoldInOrder(Change, @, FacetCycles(m, S)) ELSE @]

\* Mutant: the polyhedra around the vertices are those of before.
CreatePolyhedronUnassociated(m, vertices, facets) ==
    LET created == [m EXCEPT
            !.polyhedra = AddPolyhedron(@, vertices, facets)]
    IN  ForEdgesAndFacets(created, {NbPolyhedra(m.polyhedra)}, AddFacet)

\* create_polyhedron()
CreatePolyhedron(m, vertices, facets) ==
    LET p == NbPolyhedra(m.polyhedra)
        created == [m EXCEPT
            !.polyhedra = AddPolyhedron(@, vertices, facets)]
        associated ==
            FoldInOrder(LAMBDA n, x : Associate(n, x, VertexOf(created, x)),
                        created, PolyhedronVerticesOf(created, p))
    IN  ForEdgesAndFacets(associated, {p}, AddFacet)

-----------------------------------------------------------------------------
\* do_set_polyhedron_adjacent(), do_unset_polyhedron_adjacent() with NoId.
DoSetPolyhedronAdjacent(m, f, p) ==
    [m EXCEPT !.polyhedra = SetStoredAdjacent(@, f[1], f[2], p)]

\* set_polyhedron_adjacent(), unset_polyhedron_adjacent()
SetPolyhedronAdjacent(m, f, p) ==
    DoSetPolyhedronAdjacent(ResetAround(m, FacetCycle(m, f)), f, p)

\* One facet in compute_polyhedron_adjacencies(): it waits for another one
\* with its vertices, or it is that one and connects the two.
ConnectFacet(w, f) ==
    LET cycle == FacetCycle(w.mesh, f)
        g == w.facets[cycle]
    IN  IF ~IsOnBorder(w.mesh, f)
        THEN w
        ELSE IF cycle \notin DOMAIN w.facets
        THEN [w EXCEPT !.facets = @ @@ (cycle :> f)]
        ELSE [mesh |->
                DoSetPolyhedronAdjacent(
                    DoSetPolyhedronAdjacent(w.mesh, g, f[1]), f, g[1]),
              facets |-> [c \in DOMAIN w.facets \ {cycle} |-> w.facets[c]]]

\* compute_polyhedron_adjacencies( S ).  No list of polyhedra around a vertex
\* is reset.
ComputePolyhedronAdjacencies(m, S) ==
    FoldInOrder(ConnectFacet, [mesh |-> m, facets |-> <<>>],
                FacetList(m, S)).mesh

-----------------------------------------------------------------------------
\* update_polyhedron_around_vertices_from_polyhedron(): the polyhedron around
\* a vertex is renumbered, or the first one around it that is left takes its
\* place.  The lists are reset around the polyhedra that change.
UpdatePolyhedronAround(m, old2new) ==
    LET Renumbered(x) == <<old2new[x[1]], x[2]>>
        Left(v) == SelectSeq(PolyhedraAroundVertex(m, v),
                             LAMBDA x : old2new[x[1]] # NoId)
        changed == {p \in Polyhedra(m) : old2new[p] # p}
    IN  [ResetAround(m, UNION {VerticesOf(m, p) : p \in changed}) EXCEPT
            !.around = [v \in Vertices(m) |->
                IF @[v] = NoPolyhedronVertex
                THEN NoPolyhedronVertex
                ELSE IF old2new[@[v][1]] # NoId
                THEN Renumbered(@[v])
                ELSE IF Left(v) = <<>>
                THEN NoPolyhedronVertex
                ELSE Renumbered(Left(v)[1])]]

\* update_polyhedron_adjacencies(), of the polyhedra that are left.
UpdatePolyhedronAdjacencies(m, old2new) ==
    LET Update(n, f) ==
            IF IsOnBorder(n, f)
            THEN n
            ELSE DoSetPolyhedronAdjacent(n, f, old2new[AdjacentOf(n, f)])
    IN  FoldInOrder(Update, m, FacetList(m,
            {p \in Polyhedra(m) : old2new[p] # NoId}))

\* delete_polyhedra( D )
DeletePolyhedra(m, D) ==
    LET old2new == MappingAfterDeletion(NbPolyhedra(m.polyhedra), D)
        removed == ForEdgesAndFacets(m, D, RemoveFacet)
        updated == UpdatePolyhedronAdjacencies(
                        UpdatePolyhedronAround(removed, old2new), old2new)
    IN  IF D = {}
        THEN m
        ELSE [updated EXCEPT !.polyhedra = RemovePolyhedra(@, D)]

\* permute_polyhedra()
PermuteMeshPolyhedra(m, permutation) ==
    LET old2new == Old2NewPermutation(permutation)
        updated == UpdatePolyhedronAdjacencies(
                        UpdatePolyhedronAround(m, old2new), old2new)
    IN  [updated EXCEPT !.polyhedra = PermutePolyhedra(@, permutation)]

-----------------------------------------------------------------------------
\* One turn of update_polyhedron_around_vertices_from_vertices().  The
\* attributes are renumbered already, so v is a new index, and taken for an
\* old one.
UpdatePolyhedronAroundVertex(m, old2new, v) ==
    LET new == old2new[v]
    IN  IF new # NoId /\ m.around[new] # NoPolyhedronVertex
        THEN Associate(m, m.around[new], v)
        ELSE ResetAround(Associate(m, NoPolyhedronVertex, v), {v})

\* update_polyhedron_vertices(), in a mesh whose vertex attributes are
\* renumbered already: the loop over the vertices, then the one over the
\* polyhedra, which corrects it for each vertex of a polyhedron.
UpdatePolyhedronVertices(m, old2new) ==
    FoldInOrder(LAMBDA n, x :
                    UpdatePolyhedronVertex(n, x, old2new[VertexOf(n, x)]),
        FoldInOrder(LAMBDA n, v : UpdatePolyhedronAroundVertex(n, old2new, v),
                    m, Indices(m.around)),
        PolyhedronVertexList(m))

\* do_delete_vertices(), do_permute_vertices()
RenumberVertices(m, old2new) ==
    [UpdatePolyhedronVertices(m, old2new) EXCEPT
        !.facets = IF m.facets_enabled
                   THEN UpdateFacetVertices(@, old2new) ELSE @,
        !.edges = IF m.edges_enabled
                  THEN UpdateFacetVertices(@, old2new) ELSE @]

\* delete_vertices( D ): the attributes first.  It throws then, in
\* check_no_polyhedron_to_delete(), when a vertex of D has polyhedra.
DeleteVertices(m, D) ==
    LET deleted == [m EXCEPT !.around = DeleteElements(@, D),
                             !.cached = DeleteElements(@, D)]
    IN  IF D = {}
        THEN m
        ELSE IF \E v \in D : CornersAt(m, v) # {}
        THEN deleted
        ELSE RenumberVertices(deleted,
                              MappingAfterDeletion(Size(m.around), D))

\* The vertices that delete_isolated_vertices() deletes.
IsolatedVertices(m) == {v \in Vertices(m) : m.around[v] = NoPolyhedronVertex}

\* permute_vertices()
PermuteVertices(m, permutation) ==
    RenumberVertices([m EXCEPT !.around = PermuteElements(@, permutation),
                               !.cached = PermuteElements(@, permutation)],
                     Old2NewPermutation(permutation))

-----------------------------------------------------------------------------
\* A polyhedron vertex goes to vertex new, in a loop over several.
MovePolyhedronVertex(m, x, new) ==
    UpdatePolyhedronVertex(UpdateEdgeAndFacet(m, x, new), x, new)

\* set_polyhedron_vertex().  When x was the polyhedron around its vertex and
\* another one is found there, that one is associated to the vertex x goes to.
SetPolyhedronVertex(m, x, new) ==
    LET old == VertexOf(m, x)
        list == PolyhedraAroundVertex(m, old)
        associated ==
            IF m.around[old] # x
            THEN m
            ELSE IF Len(list) < 2
            THEN Associate(m, NoPolyhedronVertex, old)
            ELSE Associate(m, list[2], new)
    IN  IF old = new
        THEN m
        ELSE MovePolyhedronVertex(ResetAround(associated, {old}), x, new)

\* replace_vertex()
ReplaceVertex(m, old, new) ==
    IF old = new
    THEN m
    ELSE ResetAround(
            FoldInOrder(LAMBDA n, x : MovePolyhedronVertex(n, x, new),
                        Associate(m, NoPolyhedronVertex, old),
                        PolyhedraAroundVertex(m, old)),
            {old})

\* replace_vertices(), for a mapping that gives each vertex one image.
ReplaceVertices(m, mapping) ==
    LET Replace(n, x) ==
            LET old == VertexOf(n, x)
            IN  IF old \notin DOMAIN mapping \/ mapping[old] = old
                THEN n
                ELSE MovePolyhedronVertex(
                        ResetAround(Associate(n, NoPolyhedronVertex, old),
                                    {old}),
                        x, mapping[old])
    IN  FoldInOrder(Replace, m, PolyhedronVertexList(m))

-----------------------------------------------------------------------------
\* enable_edges(), enable_facets()
EnableEdges(m) ==
    IF m.edges_enabled
    THEN m
    ELSE [m EXCEPT
            !.edges_enabled = TRUE,
            !.edges = FoldInOrder(AddFacet, EmptyStorage,
                                  EdgeCycles(m, Polyhedra(m)))]
EnableFacets(m) ==
    IF m.facets_enabled
    THEN m
    ELSE [m EXCEPT
            !.facets_enabled = TRUE,
            !.facets = FoldInOrder(AddFacet, EmptyStorage,
                                   FacetCycles(m, Polyhedra(m)))]

\* disable_edges(), disable_facets()
DisableEdges(m) == [m EXCEPT !.edges_enabled = FALSE, !.edges = EmptyStorage]
DisableFacets(m) ==
    [m EXCEPT !.facets_enabled = FALSE, !.facets = EmptyStorage]

\* SolidEdgesBuilder::delete_isolated_edges(),
\* SolidFacetsBuilder::delete_isolated_facets()
DeleteIsolatedEdges(m) == [m EXCEPT !.edges = CleanFacets(@)]
DeleteIsolatedFacets(m) == [m EXCEPT !.facets = CleanFacets(@)]

\* copy() into an empty mesh: the polyhedra are created one by one, then given
\* the polyhedra around the vertices, the adjacencies, the edges and the
\* facets of m.  "polyhedra_around_vertex" is not transferable.
CopyMesh(m) ==
    LET points == [EmptyMesh EXCEPT
            !.around = [v \in Vertices(m) |-> NoPolyhedronVertex],
            !.cached = [v \in Vertices(m) |-> NotComputed]]
        Create(n, p) == CreatePolyhedron(n, VerticesRow(m.polyhedra, p),
                                         FacetRows(m.polyhedra, p))
        Connect(n, f) ==
            IF IsOnBorder(m, f)
            THEN n
            ELSE SetPolyhedronAdjacent(n, f, AdjacentOf(m, f))
        created ==
            FoldInOrder(Create, points, IndicesBelow(NbPolyhedra(m.polyhedra)))
    IN  FoldInOrder(Connect,
            [created EXCEPT
                !.around = m.around,
                !.edges_enabled = m.edges_enabled, !.edges = m.edges,
                !.facets_enabled = m.facets_enabled, !.facets = m.facets],
            FacetList(m, Polyhedra(m)))
=============================================================================
