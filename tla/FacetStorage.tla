---------------------------- MODULE FacetStorage ----------------------------
(***************************************************************************)
(* detail::FacetStorage: the edges (or facets) of a mesh, shared by the    *)
(* polygons around them.                                                   *)
(*                                                                         *)
(* A facet is known by its vertices, whatever their order: the VertexCycle *)
(* of two vertices is the set of them.  Each has an index, and attributes  *)
(* that repeat its vertices and count its users; one whose count is zero   *)
(* keeps its index until clean_facets().  A storage s has                  *)
(*   s.indices   cycle -> index, facet_indices_                            *)
(*   s.vertices  index -> cycle, the attribute "facet_vertices"            *)
(*   s.counter   index -> number of users, the attribute "counter"         *)
(***************************************************************************)
EXTENDS Loops

EmptyStorage == [indices |-> <<>>, vertices |-> <<>>, counter |-> <<>>]

\* The uses of the facet with these vertices.
CountOf(s, cycle) ==
    IF cycle \in DOMAIN s.indices THEN s.counter[s.indices[cycle]] ELSE 0

\* The map and the attributes describe the same facets.
IsConsistent(s) ==
    /\ DOMAIN s.counter = DOMAIN s.vertices
    /\ DOMAIN s.vertices = IndexRange(Size(s.indices))
    /\ \A cycle \in DOMAIN s.indices :
          s.indices[cycle] \in DOMAIN s.vertices
             /\ s.vertices[s.indices[cycle]] = cycle

-----------------------------------------------------------------------------
\* A map with one more key.
Inserted(f, key, value) ==
    [k \in DOMAIN f \cup {key} |-> IF k = key THEN value ELSE f[k]]

\* AttributeManager::resize() of a vector to n elements.
ResizeElements(f, n, default) ==
    [i \in IndexRange(n) |-> IF i \in DOMAIN f THEN f[i] ELSE default]

\* add_facet(): one more use, of a new facet when there is none.
AddFacet(s, cycle) ==
    LET id == Size(s.indices)
    IN  IF cycle \in DOMAIN s.indices
        THEN [s EXCEPT !.counter[s.indices[cycle]] = @ + 1]
        ELSE [indices |-> Inserted(s.indices, cycle, id),
              vertices |-> [ResizeElements(s.vertices, id + 1, {})
                                EXCEPT ![id] = cycle],
              counter |-> ResizeElements(s.counter, id + 1, 1)]

\* remove_facet(): one use less; an unknown facet is ignored.
RemoveFacet(s, cycle) ==
    IF cycle \in DOMAIN s.indices
    THEN [s EXCEPT !.counter[s.indices[cycle]] = IF @ = 0 THEN 0 ELSE @ - 1]
    ELSE s

\* One use more, or less, for each of a list of cycles.
AddFacets(s, cycles) == FoldInOrder(AddFacet, s, cycles)
RemoveFacets(s, cycles) == FoldInOrder(RemoveFacet, s, cycles)

\* delete_facets()
DeleteFacets(s, D) ==
    LET old2new == MappingAfterDeletion(Size(s.counter), D)
        kept == {c \in DOMAIN s.indices : old2new[s.indices[c]] # NoId}
    IN  [indices |-> [c \in kept |-> old2new[s.indices[c]]],
         vertices |-> DeleteElements(s.vertices, D),
         counter |-> DeleteElements(s.counter, D)]

\* clean_facets(): those without a user.
CleanFacets(s) ==
    DeleteFacets(s, {id \in DOMAIN s.counter : s.counter[id] = 0})

\* update_facet_vertex(): a user goes from a facet to another.
UpdateFacetVertex(s, cycle, updated) ==
    RemoveFacet(AddFacet(s, updated), cycle)

\* update_facet_vertices(): the vertices were renumbered by old2new, which
\* gives no two of those it keeps the same index.  The facets with a deleted
\* vertex go.
UpdateFacetVertices(s, old2new) ==
    LET cycles == {c \in DOMAIN s.indices : \A v \in c : old2new[v] # NoId}
        Updated(c) == {old2new[v] : v \in c}
        D == {s.indices[c] : c \in DOMAIN s.indices \ cycles}
        ids == MappingAfterDeletion(Size(s.indices), D)
        vertices == [id \in DOMAIN s.vertices |->
            IF \E c \in cycles : s.indices[c] = id
            THEN Updated(CHOOSE c \in cycles : s.indices[c] = id)
            ELSE s.vertices[id]]
    IN  [indices |-> [u \in {Updated(c) : c \in cycles} |->
                        ids[s.indices[CHOOSE c \in cycles : Updated(c) = u]]],
         vertices |-> DeleteElements(vertices, D),
         counter |-> DeleteElements(s.counter, D)]
=============================================================================
