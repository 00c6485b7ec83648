-------------------------- MODULE SolidMeshBuilder --------------------------
(***************************************************************************)
(* A solid that is built and changed through SolidMeshBuilder, with or     *)
(* without its edges or its facets enabled, while its users ask for the    *)
(* polyhedra around vertices.                                              *)
(*                                                                         *)
(* Next asks for what the comments of the code ask: that "polyhedron       *)
(* adjacencies are computed" to query the polyhedra around a vertex, that  *)
(* "the mesh is manifold around old vertex" to replace it, and for what    *)
(* else the operations need to leave a sound mesh, each guard with its     *)
(* reason.  No polyhedron has twice the same vertex.                       *)
(***************************************************************************)
EXTENDS SolidMesh

CONSTANTS
    MaxVertices,    \* bound on the number of vertices
    MaxPolyhedra,   \* bound on the number of polyhedra
    MaxComputed,    \* bound on the number of vertices with a cached list
    Facets,         \* the facets of each of them, lists of local vertices
    Shapes,         \* bound on the vertices of a polyhedron, lists of them
    NewPolyhedra,   \* those of Shapes that are created
    Others,         \* sequences of more polyhedra, for the properties
    VertexPermutations \* permutations of vertices

ASSUME BoundsAssumption ==
    /\ MaxVertices \in Nat
    /\ MaxPolyhedra \in Nat
    /\ MaxComputed \in Nat
    /\ NewPolyhedra \subseteq Shapes
    /\ \A vertices \in Shapes : IsInjective(vertices)

VARIABLE mesh

PermutationsOf(S) == {p \in [S -> S] : IsInjective(p)}

\* The vertices with a cached list.
ComputedVertices(m) == {v \in Vertices(m) : m.cached[v].computed}

Init == mesh = EmptyMesh

-----------------------------------------------------------------------------
\* compute_polyhedron_adjacencies() was called since the last polyhedron: it
\* would change nothing.
AdjacenciesAreComputed(m) ==
    ComputePolyhedronAdjacencies(m, Polyhedra(m)) = m

\* Adjacencies join all the polyhedra around v.
IsManifold(m, v) == ToSet(PolyhedraAroundVertex(m, v)) = CornersAt(m, v)

\* Bounds: the polyhedra are in Shapes, and no two have the same vertices.
IsSimple(m) ==
    /\ \A p \in Polyhedra(m) : VerticesRow(m.polyhedra, p) \in Shapes
    /\ IsInjective([p \in Polyhedra(m) |-> VerticesOf(m, p)])

\* Bound: no list is cached while edges or facets are enabled.  No operation
\* uses the ones for the others.
HasNoList(m) == ComputedVertices(m) = {}
HasNoEdgeOrFacet(m) == ~m.edges_enabled /\ ~m.facets_enabled

RunCreateVertex ==
    /\ Size(mesh.around) < MaxVertices
    /\ mesh' = CreateVertex(mesh)

RunCreatePolyhedron ==
    /\ NbPolyhedra(mesh.polyhedra) < MaxPolyhedra
    /\ \E vertices \in NewPolyhedra :
        /\ Range(vertices) \subseteq Vertices(mesh)
        /\ mesh' = CreatePolyhedron(mesh, vertices, Facets)
        /\ IsSimple(mesh')

RunComputePolyhedronAdjacencies ==
    \E S \in SUBSET Polyhedra(mesh) :
        mesh' = ComputePolyhedronAdjacencies(mesh, S)

\* unset_polyhedron_adjacent() of a facet and of its adjacent facet.
RunUnsetPolyhedronAdjacents ==
    \E f \in ToSet(FacetList(mesh, Polyhedra(mesh))) :
        /\ ~IsOnBorder(mesh, f)
        /\ mesh' = SetPolyhedronAdjacent(
                        SetPolyhedronAdjacent(mesh, f, NoId),
                        AdjacentFacet(mesh, f), NoId)

\* The polyhedra that adjacencies join to the one around a vertex are not all
\* deleted while there are others: the vertex would count as isolated.
RunDeletePolyhedra ==
    \E D \in SUBSET Polyhedra(mesh) :
        /\ \A v \in Vertices(mesh) :
              mesh.around[v][1] \in D =>
                  IsManifold(mesh, v)
                     \/ \E x \in ToSet(PolyhedraAroundVertex(mesh, v)) :
                            x[1] \notin D
        /\ mesh' = DeletePolyhedra(mesh, D)

RunPermutePolyhedra ==
    \E p \in PermutationsOf(Polyhedra(mesh)) :
        mesh' = PermuteMeshPolyhedra(mesh, p)

RunDeleteIsolatedVertices ==
    /\ mesh' = DeleteVertices(mesh, IsolatedVertices(mesh))
    /\ IsSimple(mesh')

\* An isolated vertex that moves would get a polyhedron around it.
RunPermuteVertices ==
    \E p \in VertexPermutations :
        /\ DOMAIN p = Vertices(mesh)
        /\ \A v \in IsolatedVertices(mesh) : p[v] = v
        /\ mesh' = PermuteVertices(mesh, p)
        /\ IsSimple(mesh')

\* update_polyhedron_vertex() resets no list, so that a polyhedron that moves to
\* a vertex of V may miss in the list of it, as soon as permute_vertices() takes
\* again another polyhedron around it.
HaveNoList(V) == V \cap ComputedVertices(mesh) = {}

\* The facets at the polyhedron vertex are on the border, and its vertex keeps
\* another polyhedron around it or has no other.
RunSetPolyhedronVertex ==
    \E x \in ToSet(PolyhedronVertexList(mesh)), new \in Vertices(mesh) :
        /\ new \notin VerticesOf(mesh, x[1]) \ {VertexOf(mesh, x)}
        /\ \A f \in ToSet(VertexFacets(mesh, x)) : IsOnBorder(mesh, f)
        /\ \/ mesh.around[VertexOf(mesh, x)] # x
           \/ CornersAt(mesh, VertexOf(mesh, x)) = {x}
        /\ HaveNoList({new})
        /\ mesh' = SetPolyhedronVertex(mesh, x, new)
        /\ IsSimple(mesh')

\* The mappings of one vertex or of two, none of them the image of the other.
Mappings ==
    {f \in UNION {[S -> IndexRange(MaxVertices)] :
                    S \in SUBSET IndexRange(MaxVertices)} :
        Cardinality(DOMAIN f) \in 1 .. 2 /\ Range(f) \cap DOMAIN f = {}}

\* The polyhedra keep distinct vertices.
StayDistinct(mapping) ==
    \A p \in Polyhedra(mesh) :
        LET vertices == VerticesOf(mesh, p)
            moved == vertices \cap DOMAIN mapping
        IN  /\ {mapping[v] : v \in moved} \cap vertices = {}
            /\ IsInjective([v \in moved |-> mapping[v]])

RunReplaceVertex ==
    \E old, new \in Vertices(mesh) :
        /\ old = new \/ StayDistinct(old :> new)
        /\ IsManifold(mesh, old)
        /\ old = new \/ HaveNoList({new})
        /\ mesh' = ReplaceVertex(mesh, old, new)
        /\ IsSimple(mesh')

RunReplaceVertices ==
    \E mapping \in Mappings :
        /\ DOMAIN mapping \cup Range(mapping) \subseteq Vertices(mesh)
        /\ StayDistinct(mapping)
        /\ HaveNoList(Range(mapping))
        /\ mesh' = ReplaceVertices(mesh, mapping)
        /\ IsSimple(mesh')

RunEnableEdges == HasNoList(mesh) /\ mesh' = EnableEdges(mesh)
RunDisableEdges == mesh' = DisableEdges(mesh)
RunDeleteIsolatedEdges ==
    mesh.edges_enabled /\ mesh' = DeleteIsolatedEdges(mesh)

RunEnableFacets == HasNoList(mesh) /\ mesh' = EnableFacets(mesh)
RunDisableFacets == mesh' = DisableFacets(mesh)
RunDeleteIsolatedFacets ==
    mesh.facets_enabled /\ mesh' = DeleteIsolatedFacets(mesh)

RunCopy == mesh' = CopyMesh(mesh)

\* polyhedra_around_vertex(), of a vertex or of one of its polyhedra, and
\* is_vertex_on_border().
RunQueryPolyhedraAround ==
    /\ HasNoEdgeOrFacet(mesh)
    /\ AdjacenciesAreComputed(mesh)
    /\ \E v \in Vertices(mesh) :
          /\ Cardinality(ComputedVertices(mesh) \cup {v}) <= MaxComputed
          /\ \E first \in {mesh.around[v]} \cup CornersAt(mesh, v) :
                mesh' = QueryPolyhedraAround(mesh, v, first)

Next ==
    \/ RunCreateVertex
    \/ RunCreatePolyhedron
    \/ RunComputePolyhedronAdjacencies
    \/ RunUnsetPolyhedronAdjacents
    \/ RunDeletePolyhedra
    \/ RunPermutePolyhedra
    \/ RunDeleteIsolatedVertices
    \/ RunPermuteVertices
    \/ RunSetPolyhedronVertex
    \/ RunReplaceVertex
    \/ RunReplaceVertices
    \/ RunEnableEdges
    \/ RunDisableEdges
    \/ RunDeleteIsolatedEdges
    \/ RunEnableFacets
    \/ RunDisableFacets
    \/ RunDeleteIsolatedFacets
    \/ RunCopy
    \/ RunQueryPolyhedraAround

Spec == Init /\ [][Next]_mesh

-----------------------------------------------------------------------------
\* Every vector of a group of attributes has its size, and every index stored
\* is one of an element.
TypeOK ==
    /\ Vertices(mesh) = IndexRange(Size(mesh.around))
    /\ DOMAIN mesh.cached = Vertices(mesh)
    /\ \A x \in ToSet(PolyhedronVertexList(mesh)) :
          VertexOf(mesh, x) \in Vertices(mesh)
    /\ \A f \in ToSet(FacetList(mesh, Polyhedra(mesh))) :
          AdjacentOf(mesh, f) \in Polyhedra(mesh) \cup {NoId}
    /\ \A v \in Vertices(mesh) : mesh.cached[v].computed \in BOOLEAN
    /\ mesh.edges_enabled \in BOOLEAN /\ mesh.facets_enabled \in BOOLEAN
    /\ IsConsistent(mesh.edges) /\ IsConsistent(mesh.facets)

\* polyhedron_around_vertex() finds a polyhedron of the vertex, and finds
\* none, so that the vertex counts as isolated and is deleted as such, only
\* when no polyhedron has it.
AroundMatchesPolyhedra ==
    /\ TypeOK
    /\ \A v \in Vertices(mesh) :
          IF CornersAt(mesh, v) = {}
          THEN mesh.around[v] = NoPolyhedronVertex
          ELSE mesh.around[v] \in CornersAt(mesh, v)

\* polyhedra_around_vertex() and is_vertex_on_border() return what they would
\* compute now, although operations reset only some of the lists that they
\* change, and update_polyhedron_vertex() none.
CachedListsAreCurrent ==
    \A v \in Vertices(mesh) :
        LET now == ComputePolyhedraAroundVertex(mesh, mesh.around[v])
        IN  /\ ToSet(PolyhedraAroundVertex(mesh, v)) = ToSet(now.list)
            /\ IsVertexOnBorder(mesh, v) = now.border

\* Each edge, and each facet, is counted once for every polyhedron that has it,
\* so that the isolated ones that are deleted are those that none has.
EdgesAndFacetsAreCounted ==
    /\ mesh.edges_enabled =>
        \A cycle \in kSubset(2, Vertices(mesh)) :
            CountOf(mesh.edges, cycle) = Cardinality({p \in Polyhedra(mesh) :
                EdgeFacets(mesh, p, cycle) # <<>>})
    /\ mesh.facets_enabled =>
        \A cycle \in SUBSET Vertices(mesh) :
            CountOf(mesh.facets, cycle) = Cardinality({p \in Polyhedra(mesh) :
                cycle \in ToSet(PolyhedronFacets(mesh, p))})

\* Meshes for the algorithms below: this one, and this one with more polyhedra,
\* connected or not.  The algorithms read neither cached lists nor edges.
WithOthers(m, list) ==
    FoldInOrder(LAMBDA n, shape :
                    CreatePolyhedron(n, shape.vertices, shape.facets),
                m, list)
Extended ==
    IF HasNoList(mesh) /\ HasNoEdgeOrFacet(mesh)
    THEN {mesh} \cup {WithOthers(mesh, list) : list \in
            {o \in Others : \A i \in DOMAIN o :
                Range(o[i].vertices) \subseteq Vertices(mesh)}}
    ELSE {}

\* The search around a vertex finds each polyhedron that adjacencies join to
\* the first around it once, and tells whether one of their facets at the
\* vertex is on the border.
IsSearchComplete(m, first) ==
    LET found == ComputePolyhedraAroundVertex(m, first)
        facets == UNION {ToSet(VertexFacets(m, x)) : x \in ToSet(found.list)}
        joined == {AdjacentOf(m, f) : f \in facets} \ {NoId}
    IN  /\ IsInjective(found.list)
        /\ first \in ToSet(found.list)
        /\ joined \subseteq {x[1] : x \in ToSet(found.list)}
        /\ found.border = (\E f \in facets : IsOnBorder(m, f))

\* The same for the way around an edge.
IsTurnComplete(m, edge, first) ==
    LET list == PolyhedraAroundEdge(m, edge, first)
        facets == UNION {ToSet(EdgeFacets(m, p, edge)) : p \in ToSet(list)}
        joined == {AdjacentOf(m, f) : f \in facets} \ {NoId}
    IN  /\ IsInjective(list)
        /\ first \in ToSet(list)
        /\ joined \subseteq ToSet(list)
        /\ IsEdgeOnBorder(m, edge, first) = (\E f \in facets : IsOnBorder(m, f))

\* The polyhedron across a facet is another one, that has a facet with the
\* same vertices and this polyhedron across it.
AdjacenciesAreMutual(m) ==
    \A f \in ToSet(FacetList(m, Polyhedra(m))) :
        \/ IsOnBorder(m, f)
        \/ /\ AdjacentOf(m, f) # f[1]
           /\ FacetsBack(m, f) # <<>>
           /\ FacetCycle(m, AdjacentFacet(m, f)) = FacetCycle(m, f)

\* Whatever is deleted, moved or connected, polyhedron_adjacent_facet() finds
\* the facet back; and what goes through the adjacencies, around a vertex and
\* around an edge, from any polyhedron, meets each of those they join once.
TraversalsAreComplete ==
    LET connected ==
            {ComputePolyhedronAdjacencies(m, Polyhedra(m)) : m \in Extended}
    IN  /\ AdjacenciesAreMutual(mesh)
        /\ \A m \in Extended \cup connected :
              /\ AdjacenciesAreMutual(m)
              /\ \A x \in ToSet(PolyhedronVertexList(m)) :
                    IsSearchComplete(m, x)
              /\ \A p \in Polyhedra(m) :
                 \A edge \in ToSet(PolyhedronEdges(m, p)) :
                    IsTurnComplete(m, edge, p)

\* The vectors end where their last rows do.
EndsWithRows(s) ==
    /\ Size(s.vertices) = s.vertex_ptr[NbPolyhedra(s)]
    /\ Size(s.adjacents) = s.adjacent_ptr[NbPolyhedra(s)]
    /\ Size(s.facet_ptr) = Size(s.adjacents) + 1
    /\ Size(s.facets) = s.facet_ptr[Size(s.adjacents)]

\* Removing polyhedra, in place, and permuting them, vector after vector, give
\* each of those left the rows of vertices, facets and adjacents that it had,
\* whatever their lengths.
RowsFollowMappings ==
    \A m \in Extended :
        LET s == m.polyhedra
            rows == Rows(s)
        IN  /\ \A D \in SUBSET Polyhedra(m) :
                  LET removed == RemovePolyhedra(s, D)
                  IN  /\ Rows(removed) = DeleteElements(rows, D)
                      /\ EndsWithRows(removed)
            /\ \A p \in PermutationsOf(Polyhedra(m)) :
                  LET permuted == PermutePolyhedra(s, p)
                  IN  /\ Rows(permuted) = PermuteElements(rows, p)
                      /\ EndsWithRows(permuted)
=============================================================================
