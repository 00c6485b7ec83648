------------------------- MODULE PolyhedralStorage -------------------------
(***************************************************************************)
(* OpenGeodePolyhedralSolid::Impl: polyhedra of any number of vertices and *)
(* facets, row after row in six vectors.  A storage s has                  *)
(*   s.vertices    the vertices of the polyhedra, from vertex_ptr[p] on    *)
(*   s.adjacents   the polyhedra across their facets, or NoId, from        *)
(*                 adjacent_ptr[p] on; this numbers the facets as well     *)
(*   s.facets      the vertices of the facets, by their local index, from  *)
(*                 facet_ptr[facet] on                                     *)
(* and the three vectors of pointers, each with one more entry for the end *)
(* of the last row.                                                        *)
(***************************************************************************)
EXTENDS Loops

NoPolyhedra ==
    LET ends == [i \in {0} |-> 0]
    IN  [vertices |-> <<>>, vertex_ptr |-> ends, adjacents |-> <<>>,
         adjacent_ptr |-> ends, facets |-> <<>>, facet_ptr |-> ends]

NbPolyhedra(s) == Size(s.vertex_ptr) - 1

NbVerticesOf(s, p) == s.vertex_ptr[p + 1] - s.vertex_ptr[p]
StoredVertex(s, p, v) == s.vertices[s.vertex_ptr[p] + v]

NbFacetsOf(s, p) == s.adjacent_ptr[p + 1] - s.adjacent_ptr[p]
StoredAdjacent(s, p, f) == s.adjacents[s.adjacent_ptr[p] + f]

\* get_facet_id()
FacetId(s, p, f) == s.adjacent_ptr[p] + f
NbFacetVertices(s, p, f) ==
    s.facet_ptr[FacetId(s, p, f) + 1] - s.facet_ptr[FacetId(s, p, f)]
\* get_polyhedron_facet_vertex_id()
FacetVertexId(s, p, f, v) == s.facets[s.facet_ptr[FacetId(s, p, f)] + v]

\* The rows of a polyhedron.
VerticesRow(s, p) ==
    [v \in IndexRange(NbVerticesOf(s, p)) |-> StoredVertex(s, p, v)]
FacetRow(s, p, f) ==
    [v \in IndexRange(NbFacetVertices(s, p, f)) |-> FacetVertexId(s, p, f, v)]
FacetRows(s, p) == [f \in IndexRange(NbFacetsOf(s, p)) |-> FacetRow(s, p, f)]
AdjacentsRow(s, p) ==
    [f \in IndexRange(NbFacetsOf(s, p)) |-> StoredAdjacent(s, p, f)]

Rows(s) ==
    [p \in IndexRange(NbPolyhedra(s)) |->
        [vertices |-> VerticesRow(s, p), facets |-> FacetRows(s, p),
         adjacents |-> AdjacentsRow(s, p)]]

\* A vector, followed by another.
Extend(f, g) ==
    LET n == Size(f) IN f @@ [i \in n .. n + Size(g) - 1 |-> g[i - n]]

\* A vector of pointers, and one more row of length n.
ExtendPointers(ptr, n) == ptr @@ (Size(ptr) :> ptr[Size(ptr) - 1] + n)

\* The first n elements of a vector.
FirstElements(f, n) == [i \in IndexRange(n) |-> f[i]]

-----------------------------------------------------------------------------
\* add_polyhedron()
AddPolyhedron(s, vertices, facets) ==
    LET AddFacetRow(t, f) ==
            [t EXCEPT !.facets = Extend(@, facets[f]),
                      !.facet_ptr = ExtendPointers(@, Size(facets[f]))]
    IN  FoldInOrder(AddFacetRow,
            [s EXCEPT !.vertices = Extend(@, vertices),
                      !.vertex_ptr = ExtendPointers(@, Size(vertices)),
                      !.adjacents = Extend(@, [f \in DOMAIN facets |-> NoId]),
                      !.adjacent_ptr = ExtendPointers(@, Size(facets))],
            Indices(facets))

\* In remove_polyhedra() the rows that stay move down, each element onto
\* what was read before.  A state w of the loop has the storage w.s, the
\* number of rows removed, and the next places to write.
KeepVertices(w, p) ==
    LET n == NbVerticesOf(w.s, p)
        Move(u, v) ==
            [u EXCEPT !.s.vertices[u.vertex] = StoredVertex(u.s, p, v),
                      !.vertex = @ + 1]
        moved == FoldInOrder(Move, w, IndicesBelow(n))
        row == p - w.removed
    IN  [moved EXCEPT !.s.vertex_ptr[row + 1] = w.s.vertex_ptr[row] + n]

\* Mutant: the adjacent is read under the new index of the polyhedron.
KeepFacetRenumbered(w, p, f) ==
    LET n == NbFacetVertices(w.s, p, f)
        Move(u, v) ==
            [u EXCEPT !.s.facets[u.facet] = FacetVertexId(u.s, p, f, v),
                      !.facet = @ + 1]
        moved == FoldInOrder(Move, w, IndicesBelow(n))
    IN  [moved EXCEPT
            !.s.facet_ptr[w.adjacent + 1] = w.s.facet_ptr[w.adjacent] + n,
            !.s.adjacents[w.adjacent] = StoredAdjacent(w.s, p - w.removed, f),
            !.adjacent = @ + 1]

KeepFacet(w, p, f) ==
    LET n == NbFacetVertices(w.s, p, f)
        Move(u, v) ==
            [u EXCEPT !.s.facets[u.facet] = FacetVertexId(u.s, p, f, v),
                      !.facet = @ + 1]
        moved == FoldInOrder(Move, w, IndicesBelow(n))
    IN  [moved EXCEPT
            !.s.facet_ptr[w.adjacent + 1] = w.s.facet_ptr[w.adjacent] + n,
            !.s.adjacents[w.adjacent] = StoredAdjacent(w.s, p, f),
            !.adjacent = @ + 1]

KeepFacets(w, p) ==
    LET n == NbFacetsOf(w.s, p)
        row == p - w.removed
        moved == FoldInOrder(LAMBDA u, f : KeepFacet(u, p, f), w,
                             IndicesBelow(n))
    IN  [moved EXCEPT !.s.adjacent_ptr[row + 1] = w.s.adjacent_ptr[row] + n]

\* remove_polyhedra()
RemovePolyhedra(s, D) ==
    LET Keep(w, p) ==
            IF p \in D THEN [w EXCEPT !.removed = @ + 1]
            ELSE KeepFacets(KeepVertices(w, p), p)
        w == FoldInOrder(Keep,
            [s |-> s, removed |-> 0, vertex |-> 0, facet |-> 0, adjacent |-> 0],
            IndicesBelow(NbPolyhedra(s)))
        rows == NbPolyhedra(s) - w.removed
    IN  [vertices |-> FirstElements(w.s.vertices, w.vertex),
         vertex_ptr |-> FirstElements(w.s.vertex_ptr, rows + 1),
         adjacents |-> FirstElements(w.s.adjacents, w.adjacent),
         adjacent_ptr |-> FirstElements(w.s.adjacent_ptr, rows + 1),
         facets |-> FirstElements(w.s.facets, w.facet),
         facet_ptr |-> FirstElements(w.s.facet_ptr, w.adjacent + 1)]

\* permute_polyhedra(): the six vectors are computed anew one after another,
\* and what is left to compute is read through those that are replaced.
PermutePolyhedra(s, permutation) ==
    LET order == [i \in 1 .. Size(permutation) |-> permutation[i - 1]]
        \* The facets <<polyhedron, facet>> in the same order.
        FacetsInOrder(t) ==
            FoldInOrder(LAMBDA list, p : list \o
                [i \in 1 .. NbFacetsOf(t, p) |-> <<p, i - 1>>], <<>>, order)
        Concatenation(Row(_), list) ==
            FoldInOrder(LAMBDA f, x : Extend(f, Row(x)), <<>>, list)
        Pointers(Length(_), list) ==
            FoldInOrder(LAMBDA ptr, x : ExtendPointers(ptr, Length(x)),
                        [i \in {0} |-> 0], list)
        s1 == [s EXCEPT !.vertices =
            Concatenation(LAMBDA p : VerticesRow(s, p), order)]
        s2 == [s1 EXCEPT !.vertex_ptr =
            Pointers(LAMBDA p : NbVerticesOf(s1, p), order)]
        s3 == [s2 EXCEPT !.facets = Concatenation(
            LAMBDA x : FacetRow(s2, x[1], x[2]), FacetsInOrder(s2))]
        s4 == [s3 EXCEPT !.facet_ptr = Pointers(
            LAMBDA x : NbFacetVertices(s3, x[1], x[2]), FacetsInOrder(s3))]
        s5 == [s4 EXCEPT !.adjacents =
            Concatenation(LAMBDA p : AdjacentsRow(s4, p), order)]
    IN  [s5 EXCEPT !.adjacent_ptr =
            Pointers(LAMBDA p : NbFacetsOf(s5, p), order)]

\* set_polyhedron_vertex(), set_polyhedron_adjacent()
SetStoredVertex(s, p, v, vertex) ==
    [s EXCEPT !.vertices[s.vertex_ptr[p] + v] = vertex]
SetStoredAdjacent(s, p, f, adjacent) ==
    [s EXCEPT !.adjacents[s.adjacent_ptr[p] + f] = adjacent]
=============================================================================
