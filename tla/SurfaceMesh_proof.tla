------------------------- MODULE SurfaceMesh_proof --------------------------
(***************************************************************************)
(* What the steps of the operations of SurfaceMesh do to a surface,        *)
(* however large it is.                                                    *)
(*                                                                         *)
(* A surface that nothing is wrong with is IsSurface. An adjacency that is *)
(* stored has another edge across it, IsAcross; since no polygon has twice *)
(* the same vertex it has only one, which polygon_adjacent_edge() finds.   *)
(* Each vertex that has polygon vertices has one of them around it. A list *)
(* that is cached holds polygon vertices of its vertex, each once, which   *)
(* is what set_polygon_vertex() and update_polygon_around() ask of it.     *)
(*                                                                         *)
(* Turning around a vertex is a walk, IsWalk: each place follows the one   *)
(* before through an adjacency, and can be followed back. A walk never     *)
(* meets a polygon vertex again, the way it went or the other way, unless  *)
(* it comes back to its start, so a list ends at the start or at a border. *)
(*                                                                         *)
(* A list that polygons_around_vertex() returns as it was cached is a fan, *)
(* IsFan: the polygon vertices of a walk that nothing can prolong. Two     *)
(* such walks that meet have the same polygon vertices, so a turn that     *)
(* starts in a fan lists that fan. A list outlives an operation that does  *)
(* not reset it, and stays a fan because that operation changes nothing    *)
(* that the turns around its vertex read, KeepsTurns.                      *)
(*                                                                         *)
(* Inside compute_polygon_adjacencies() the adjacencies are not mutual:    *)
(* the third polygon of an edge leaves a chain of three, IsChain, until    *)
(* the last loop unsets it.                                                *)
(*                                                                         *)
(* Each loop is a recursive function of the number of turns that are done, *)
(* and each argument an induction on that number.                          *)
(***************************************************************************)
EXTENDS SurfaceMeshBuilder, Graph_proof

-----------------------------------------------------------------------------
(* Polygons, their vertices and their edges. *)

\* One step forward and one step back in a vector that is closed.
LEMMA StepsAround ==
    ASSUME NEW n \in Nat, n > 0, NEW i \in IndexRange(n)
    PROVE  /\ (i + 1) % n = IF i + 1 = n THEN 0 ELSE i + 1
           /\ (i + n - 1) % n = IF i = 0 THEN n - 1 ELSE i - 1
<1>1. i \in Nat /\ i < n
    BY DEF IndexRange
<1>2. (i + 1) % n = IF i + 1 = n THEN 0 ELSE i + 1
    BY <1>1
<1>3. (i + n - 1) % n = IF i = 0 THEN n - 1 ELSE i - 1
    BY <1>1
<1>4. QED
    BY <1>2, <1>3

\* A list of at least three vertices, none of them twice.
IsPolygon(vertices, nv) ==
    /\ Size(vertices) \in Nat
    /\ Size(vertices) >= 3
    /\ vertices \in [IndexRange(Size(vertices)) -> IndexRange(nv)]
    /\ \A i, j \in DOMAIN vertices : vertices[i] = vertices[j] => i = j

HasPolygons(m) ==
    /\ Size(m.polygons) \in Nat
    /\ Size(m.around) \in Nat
    /\ Polygons(m) = IndexRange(Size(m.polygons))
    /\ Vertices(m) = IndexRange(Size(m.around))
    /\ m.polygons = [p \in Polygons(m) |-> m.polygons[p]]
    /\ \A p \in Polygons(m) : IsPolygon(m.polygons[p], Size(m.around))

\* The edge y of another polygon is x seen from there.
IsAcross(m, x, y) ==
    /\ y \in PolygonVertices(m)
    /\ y[1] = AdjacentOf(m, x)
    /\ y[1] # x[1]
    /\ EdgeCycle(m, y) = EdgeCycle(m, x)
    /\ AdjacentOf(m, y) = x[1]

\* There is a place for the adjacent of each edge.
HasPlaces(m) ==
    /\ m.adjacent = [p \in Polygons(m) |-> m.adjacent[p]]
    /\ \A p \in Polygons(m) :
          m.adjacent[p] = [i \in DOMAIN m.polygons[p] |-> m.adjacent[p][i]]

HasAdjacencies(m) ==
    /\ HasPlaces(m)
    /\ \A x \in PolygonVertices(m) :
          ~IsOnBorder(m, x) => \E y : IsAcross(m, x, y)

\* The polygon vertices of a mesh.
LEMMA CornerIsPair ==
    ASSUME NEW m, NEW S, NEW x
    PROVE  /\ x \in PolygonVerticesOf(m, S) <=>
                /\ x = <<x[1], x[2]>>
                /\ x[1] \in S
                /\ x[2] \in DOMAIN m.polygons[x[1]]
           /\ x \in PolygonVertices(m) <=>
                /\ x = <<x[1], x[2]>>
                /\ x[1] \in Polygons(m)
                /\ x[2] \in DOMAIN m.polygons[x[1]]
BY DEF PolygonVerticesOf, PolygonVertices

\* Around a polygon, from a vertex to the next one and back.
LEMMA StepsInPolygon ==
    ASSUME NEW m, HasPolygons(m), NEW x \in PolygonVertices(m)
    PROVE  LET next == NextPolygonVertex(m, x)
               previous == PreviousPolygonVertex(m, x)
           IN  /\ next \in PolygonVertices(m)
               /\ next[1] = x[1]
               /\ next # x
               /\ NextPolygonVertex(m, next) # x
               /\ PreviousPolygonVertex(m, next) = x
               /\ previous \in PolygonVertices(m)
               /\ previous[1] = x[1]
               /\ previous # x
               /\ NextPolygonVertex(m, previous) = x
<1> DEFINE p == x[1]
           i == x[2]
           n == Size(m.polygons[p])
<1>1. x = <<p, i>> /\ p \in Polygons(m) /\ i \in DOMAIN m.polygons[p]
    BY CornerIsPair
<1>2. n \in Nat /\ n >= 3 /\ DOMAIN m.polygons[p] = IndexRange(n)
    BY <1>1 DEF HasPolygons, IsPolygon
<1>3. NextPolygonVertex(m, x) = <<p, (i + 1) % n>>
      /\ PreviousPolygonVertex(m, x) = <<p, (i + n - 1) % n>>
    BY DEF NextPolygonVertex, PreviousPolygonVertex
<1> DEFINE j == IF i + 1 = n THEN 0 ELSE i + 1
           k == IF i = 0 THEN n - 1 ELSE i - 1
<1>4. (i + 1) % n = j /\ (i + n - 1) % n = k
    BY <1>1, <1>2, StepsAround
<1>5. i \in IndexRange(n) /\ j \in IndexRange(n) /\ k \in IndexRange(n)
    BY <1>1, <1>2 DEF IndexRange
<1> HIDE DEF n
<1>6. \A l \in IndexRange(n) :
        /\ NextPolygonVertex(m, <<p, l>>)
                = <<p, IF l + 1 = n THEN 0 ELSE l + 1>>
        /\ PreviousPolygonVertex(m, <<p, l>>)
                = <<p, IF l = 0 THEN n - 1 ELSE l - 1>>
    <2>1. TAKE l \in IndexRange(n)
    <2>2. (l + 1) % n = (IF l + 1 = n THEN 0 ELSE l + 1)
          /\ (l + n - 1) % n = (IF l = 0 THEN n - 1 ELSE l - 1)
        BY <1>2, StepsAround
    <2>3. QED
        BY <2>2 DEF NextPolygonVertex, PreviousPolygonVertex, n
<1>7. /\ <<p, j>> \in PolygonVertices(m)
      /\ <<p, k>> \in PolygonVertices(m)
    BY <1>1, <1>2, <1>5, CornerIsPair
<1>8. /\ NextPolygonVertex(m, x) = <<p, j>>
      /\ PreviousPolygonVertex(m, x) = <<p, k>>
    BY <1>3, <1>4 DEF n
<1>9. /\ NextPolygonVertex(m, <<p, j>>)
            = <<p, IF j + 1 = n THEN 0 ELSE j + 1>>
      /\ PreviousPolygonVertex(m, <<p, j>>)
            = <<p, IF j = 0 THEN n - 1 ELSE j - 1>>
      /\ NextPolygonVertex(m, <<p, k>>)
            = <<p, IF k + 1 = n THEN 0 ELSE k + 1>>
    BY <1>5, <1>6
<1>10. /\ (IF j = 0 THEN n - 1 ELSE j - 1) = i
       /\ (IF k + 1 = n THEN 0 ELSE k + 1) = i
       /\ (IF j + 1 = n THEN 0 ELSE j + 1) # i
       /\ j # i
       /\ k # i
    BY <1>2, <1>5 DEF IndexRange
<1> HIDE DEF j, k
<1>11. QED
    BY <1>1, <1>7, <1>8, <1>9, <1>10

\* The polygon vertices of a polygon have different vertices.
LEMMA VerticesApart ==
    ASSUME NEW m, HasPolygons(m),
           NEW x \in PolygonVertices(m), NEW y \in PolygonVertices(m),
           x[1] = y[1], VertexOf(m, x) = VertexOf(m, y)
    PROVE  x = y
<1>1. /\ x = <<x[1], x[2]>>
      /\ y = <<x[1], y[2]>>
      /\ x[1] \in Polygons(m)
      /\ x[2] \in DOMAIN m.polygons[x[1]]
      /\ y[2] \in DOMAIN m.polygons[x[1]]
    BY CornerIsPair
<1>2. x[2] = y[2]
    BY <1>1 DEF HasPolygons, IsPolygon, VertexOf
<1>3. QED
    BY <1>1, <1>2

\* The vertex of a polygon vertex is one of the mesh.
LEMMA VertexIsKnown ==
    ASSUME NEW m, HasPolygons(m), NEW x \in PolygonVertices(m)
    PROVE  VertexOf(m, x) \in Vertices(m)
<1>1. /\ x[1] \in Polygons(m)
      /\ x[2] \in DOMAIN m.polygons[x[1]]
    BY CornerIsPair
<1>2. /\ Vertices(m) = IndexRange(Size(m.around))
      /\ m.polygons[x[1]] \in [DOMAIN m.polygons[x[1]] ->
                                    IndexRange(Size(m.around))]
    BY <1>1 DEF HasPolygons, IsPolygon
<1>3. QED
    BY <1>1, <1>2 DEF VertexOf

\* The edges of a polygon have different vertices.
LEMMA EdgesApart ==
    ASSUME NEW m, HasPolygons(m),
           NEW x \in PolygonVertices(m), NEW y \in PolygonVertices(m),
           x[1] = y[1], EdgeCycle(m, x) = EdgeCycle(m, y)
    PROVE  x = y
<1> DEFINE a == NextPolygonVertex(m, x)
           b == NextPolygonVertex(m, y)
<1>1. /\ a \in PolygonVertices(m) /\ a[1] = x[1] /\ a # x
      /\ b \in PolygonVertices(m) /\ b[1] = x[1] /\ b # y
      /\ NextPolygonVertex(m, a) # x
    BY StepsInPolygon
<1>2. {VertexOf(m, x), VertexOf(m, a)} = {VertexOf(m, y), VertexOf(m, b)}
    BY DEF EdgeCycle
<1>3. SUFFICES ASSUME VertexOf(m, x) # VertexOf(m, y) PROVE FALSE
    BY VerticesApart
<1>4. VertexOf(m, x) = VertexOf(m, b) /\ VertexOf(m, a) = VertexOf(m, y)
    BY <1>2, <1>3
<1>5. x = b /\ a = y
    BY <1>1, <1>4, VerticesApart
<1>6. QED
    BY <1>1, <1>5

\* polygon_adjacent_edge() finds the edge across another one.
LEMMA AcrossIsFound ==
    ASSUME NEW m, HasPolygons(m), NEW x \in PolygonVertices(m),
           NEW y, IsAcross(m, x, y)
    PROVE  /\ AdjacentOf(m, x) \in Polygons(m)
           /\ MatchingEdges(m, x) = {y}
           /\ FindPolygonAdjacentEdge(m, x) = y
           /\ PolygonAdjacentEdge(m, x) = y
           /\ IsAcross(m, y, x)
           /\ HasMutualAdjacency(m, x)
<1>1. /\ y = <<y[1], y[2]>>
      /\ y[1] \in Polygons(m)
      /\ y[2] \in DOMAIN m.polygons[y[1]]
      /\ y \in PolygonVertices(m)
      /\ y[1] = AdjacentOf(m, x)
    BY CornerIsPair DEF IsAcross
<1>2. ~IsOnBorder(m, x)
    BY <1>1 DEF IsOnBorder, HasPolygons, IndexRange, NoId
<1>3. \A z : z \in PolygonVerticesOf(m, {AdjacentOf(m, x)}) <=>
                z \in PolygonVertices(m) /\ z[1] = y[1]
    BY <1>1, CornerIsPair
<1>4. MatchingEdges(m, x)
        = {z \in PolygonVerticesOf(m, {AdjacentOf(m, x)}) :
                EdgeCycle(m, z) = EdgeCycle(m, x)}
    BY <1>2 DEF MatchingEdges
<1>5. \A z : z \in MatchingEdges(m, x) <=> z = y
    <2>1. TAKE z
    <2>2. ASSUME z \in MatchingEdges(m, x) PROVE z = y
        BY <1>1, <1>3, <1>4, <2>2, EdgesApart DEF IsAcross
    <2>3. y \in MatchingEdges(m, x)
        BY <1>1, <1>3, <1>4 DEF IsAcross
    <2>4. QED
        BY <2>2, <2>3
<1>6. MatchingEdges(m, x) = {y}
    BY <1>5
<1>7. FirstOf({y}) = y
    BY DEF FirstOf
<1>8. {z \in MatchingEdges(m, x) : AdjacentOf(m, z) = x[1]} = {y}
    BY <1>6 DEF IsAcross
<1>9. PolygonAdjacentEdge(m, x) = y
    BY <1>2, <1>7, <1>8 DEF PolygonAdjacentEdge
<1>10. FindPolygonAdjacentEdge(m, x) = y
    BY <1>6, <1>7 DEF FindPolygonAdjacentEdge
<1>11. IsAcross(m, y, x)
    BY DEF IsAcross
<1>12. HasMutualAdjacency(m, x)
    BY <1>6 DEF IsAcross, HasMutualAdjacency, IsMutual
<1>13. QED
    BY <1>1, <1>6, <1>9, <1>10, <1>11, <1>12

\* The edge across is the only one that a polygon edge can have.
LEMMA AcrossIsUnique ==
    ASSUME NEW m, HasPolygons(m), NEW x \in PolygonVertices(m),
           NEW y \in PolygonVertices(m), NEW z, IsAcross(m, x, z),
           y[1] = AdjacentOf(m, x), EdgeCycle(m, y) = EdgeCycle(m, x)
    PROVE  y = z
BY EdgesApart DEF IsAcross

-----------------------------------------------------------------------------
(* Polygons that are renumbered. *)

\* The polygon vertex x after its polygon was renumbered.
Renumbered(old2new, x) == <<old2new[x[1]], x[2]>>

\* The polygons of r are those of m that old2new keeps.
HasRenumbered(m, r, old2new) ==
    /\ Size(r.polygons) \in Nat
    /\ Polygons(r) = IndexRange(Size(r.polygons))
    /\ Size(r.around) = Size(m.around)
    /\ Vertices(r) = Vertices(m)
    /\ r.polygons = [q \in Polygons(r) |-> r.polygons[q]]
    /\ r.adjacent = [q \in Polygons(r) |-> r.adjacent[q]]
    /\ \A p \in Polygons(m) : old2new[p] # NoId =>
          /\ old2new[p] \in Polygons(r)
          /\ r.polygons[old2new[p]] = m.polygons[p]
          /\ r.adjacent[old2new[p]] = [i \in DOMAIN m.polygons[p] |->
                IF m.adjacent[p][i] = NoId
                THEN NoId ELSE old2new[m.adjacent[p][i]]]
    /\ \A p, q \in Polygons(m) :
          old2new[p] # NoId /\ old2new[p] = old2new[q] => p = q
    /\ \A q \in Polygons(r) : \E p \in Polygons(m) : old2new[p] = q

\* The polygon vertices and edges of the polygons that are kept.
LEMMA RenumberedCorner ==
    ASSUME NEW m, NEW r, NEW old2new, HasPolygons(m),
           HasRenumbered(m, r, old2new),
           NEW x \in PolygonVertices(m), old2new[x[1]] # NoId
    PROVE  LET y == Renumbered(old2new, x)
           IN  /\ y \in PolygonVertices(r)
               /\ VertexOf(r, y) = VertexOf(m, x)
               /\ EdgeCycle(r, y) = EdgeCycle(m, x)
               /\ AdjacentOf(r, y) = IF AdjacentOf(m, x) = NoId
                                     THEN NoId ELSE old2new[AdjacentOf(m, x)]
<1> DEFINE p == x[1]
           q == old2new[p]
           y == Renumbered(old2new, x)
           next == NextPolygonVertex(m, x)
<1>1. /\ p \in Polygons(m)
      /\ x[2] \in DOMAIN m.polygons[p]
    BY CornerIsPair
<1>2. /\ q \in Polygons(r)
      /\ r.polygons[q] = m.polygons[p]
      /\ r.adjacent[q] = [i \in DOMAIN m.polygons[p] |->
            IF m.adjacent[p][i] = NoId
            THEN NoId ELSE old2new[m.adjacent[p][i]]]
    BY <1>1 DEF HasRenumbered
<1>3. y = <<q, x[2]>> /\ y[1] = q /\ y[2] = x[2]
    BY DEF Renumbered
<1>4. y \in PolygonVertices(r)
    BY <1>1, <1>2, <1>3, CornerIsPair
<1>5. VertexOf(r, y) = VertexOf(m, x)
    BY <1>2, <1>3 DEF VertexOf
<1>6. /\ NextPolygonVertex(r, y) = <<q, (x[2] + 1) % Size(m.polygons[p])>>
      /\ NextPolygonVertex(m, x) = <<p, (x[2] + 1) % Size(m.polygons[p])>>
    BY <1>2, <1>3 DEF NextPolygonVertex
<1>7. VertexOf(r, NextPolygonVertex(r, y)) = VertexOf(m, next)
    BY <1>2, <1>6 DEF VertexOf
<1>8. EdgeCycle(r, y) = EdgeCycle(m, x)
    BY <1>5, <1>7 DEF EdgeCycle
<1>9. AdjacentOf(r, y) = IF AdjacentOf(m, x) = NoId
                         THEN NoId ELSE old2new[AdjacentOf(m, x)]
    BY <1>1, <1>2, <1>3 DEF AdjacentOf
<1>10. QED
    BY <1>4, <1>5, <1>8, <1>9

\* Each polygon vertex is one that was kept.
LEMMA RenumberedFrom ==
    ASSUME NEW m, NEW r, NEW old2new, HasPolygons(m),
           HasRenumbered(m, r, old2new), NEW y \in PolygonVertices(r)
    PROVE  \E x \in PolygonVertices(m) :
              old2new[x[1]] # NoId /\ y = Renumbered(old2new, x)
<1>1. /\ y = <<y[1], y[2]>>
      /\ y[1] \in Polygons(r)
      /\ y[2] \in DOMAIN r.polygons[y[1]]
    BY CornerIsPair
<1>2. PICK p \in Polygons(m) : old2new[p] = y[1]
    BY <1>1 DEF HasRenumbered
<1>3. old2new[p] # NoId
    BY <1>1, <1>2 DEF HasRenumbered, IndexRange, NoId
<1>4. y[2] \in DOMAIN m.polygons[p]
    BY <1>1, <1>2, <1>3 DEF HasRenumbered
<1>5. <<p, y[2]>> \in PolygonVertices(m)
    BY <1>4, CornerIsPair
<1>6. y = Renumbered(old2new, <<p, y[2]>>)
    BY <1>1, <1>2 DEF Renumbered
<1>7. QED
    BY <1>3, <1>5, <1>6

\* Renumbered polygons stay polygons whose adjacencies are mutual.
LEMMA RenumberedPolygons ==
    ASSUME NEW m, NEW r, NEW old2new, HasPolygons(m), HasAdjacencies(m),
           HasRenumbered(m, r, old2new)
    PROVE  HasPolygons(r) /\ HasAdjacencies(r)
<1>1. \A q \in Polygons(r) : \E p \in Polygons(m) :
        /\ old2new[p] = q
        /\ r.polygons[q] = m.polygons[p]
        /\ r.adjacent[q] = [i \in DOMAIN r.polygons[q] |-> r.adjacent[q][i]]
    <2>1. TAKE q \in Polygons(r)
    <2>2. PICK p \in Polygons(m) : old2new[p] = q
        BY DEF HasRenumbered
    <2>3. q # NoId
        BY DEF HasRenumbered, IndexRange, NoId
    <2>4. /\ r.polygons[q] = m.polygons[p]
          /\ r.adjacent[q] = [i \in DOMAIN m.polygons[p] |->
                IF m.adjacent[p][i] = NoId
                THEN NoId ELSE old2new[m.adjacent[p][i]]]
        BY <2>2, <2>3 DEF HasRenumbered
    <2>5. r.adjacent[q] = [i \in DOMAIN r.polygons[q] |-> r.adjacent[q][i]]
        BY <2>4
    <2>6. QED
        BY <2>2, <2>4, <2>5
<1>2. HasPolygons(r)
    BY <1>1 DEF HasPolygons, HasRenumbered
<1>3. ASSUME NEW y \in PolygonVertices(r), ~IsOnBorder(r, y)
      PROVE  \E z : IsAcross(r, y, z)
    <2>1. PICK x \in PolygonVertices(m) :
                old2new[x[1]] # NoId /\ y = Renumbered(old2new, x)
        BY RenumberedFrom
    <2>2. /\ EdgeCycle(r, y) = EdgeCycle(m, x)
          /\ AdjacentOf(r, y) = IF AdjacentOf(m, x) = NoId
                                THEN NoId ELSE old2new[AdjacentOf(m, x)]
        BY <2>1, RenumberedCorner
    <2>3. AdjacentOf(m, x) # NoId /\ old2new[AdjacentOf(m, x)] # NoId
        BY <1>3, <2>2 DEF IsOnBorder
    <2>4. PICK w : IsAcross(m, x, w)
        BY <2>3 DEF HasAdjacencies, IsOnBorder
    <2> DEFINE z == Renumbered(old2new, w)
    <2>5. w \in PolygonVertices(m) /\ old2new[w[1]] # NoId
        BY <2>3, <2>4 DEF IsAcross
    <2>6. /\ z \in PolygonVertices(r)
          /\ EdgeCycle(r, z) = EdgeCycle(m, w)
          /\ AdjacentOf(r, z) = IF AdjacentOf(m, w) = NoId
                                THEN NoId ELSE old2new[AdjacentOf(m, w)]
        BY <2>5, RenumberedCorner
    <2>7. z[1] = old2new[w[1]] /\ y[1] = old2new[x[1]]
        BY <2>1 DEF Renumbered
    <2>8. x[1] \in Polygons(m) /\ w[1] \in Polygons(m)
        BY <2>5, CornerIsPair
    <2>9. x[1] # NoId
        BY <2>8 DEF HasPolygons, IndexRange, NoId
    <2>10. z[1] # y[1]
        BY <2>1, <2>4, <2>7, <2>8 DEF HasRenumbered, IsAcross
    <2>11. IsAcross(r, y, z)
        BY <2>2, <2>3, <2>4, <2>6, <2>7, <2>9, <2>10 DEF IsAcross
    <2>12. QED
        BY <2>11
<1>4. HasAdjacencies(r)
    BY <1>1, <1>3 DEF HasAdjacencies, HasPlaces, HasRenumbered
<1>5. QED
    BY <1>2, <1>4

-----------------------------------------------------------------------------
(* Vertices that are renamed. *)

\* The polygons of r are those of m with vertex v renamed into image[v].
HasRenamed(m, r, image) ==
    /\ Size(r.around) \in Nat
    /\ Vertices(r) = IndexRange(Size(r.around))
    /\ r.polygons = [p \in Polygons(m) |-> r.polygons[p]]
    /\ \A p \in Polygons(m) : r.polygons[p] =
          [i \in DOMAIN m.polygons[p] |-> image[m.polygons[p][i]]]
    /\ r.adjacent = m.adjacent
    /\ \A x \in PolygonVertices(m) : image[VertexOf(m, x)] \in Vertices(r)
    /\ \A x, y \in PolygonVertices(m) :
          /\ x[1] = y[1]
          /\ image[VertexOf(m, x)] = image[VertexOf(m, y)]
          => x = y

\* A polygon vertex after its vertex was renamed.
LEMMA RenamedCorner ==
    ASSUME NEW m, NEW r, NEW image, HasPolygons(m), HasRenamed(m, r, image)
    PROVE  /\ Polygons(r) = Polygons(m)
           /\ PolygonVertices(r) = PolygonVertices(m)
           /\ \A x \in PolygonVertices(m) :
                /\ VertexOf(r, x) = image[VertexOf(m, x)]
                /\ NextPolygonVertex(r, x) = NextPolygonVertex(m, x)
                /\ EdgeCycle(r, x) = {image[v] : v \in EdgeCycle(m, x)}
                /\ AdjacentOf(r, x) = AdjacentOf(m, x)
<1>1. Polygons(r) = Polygons(m)
    BY DEF HasRenamed, Polygons
<1>2. \A p \in Polygons(m) :
        /\ DOMAIN r.polygons[p] = DOMAIN m.polygons[p]
        /\ Size(r.polygons[p]) = Size(m.polygons[p])
    BY DEF HasRenamed, Size
<1>3. PolygonVertices(r) = PolygonVertices(m)
    BY <1>1, <1>2 DEF PolygonVertices, PolygonVerticesOf
<1>4. ASSUME NEW x \in PolygonVertices(m)
      PROVE  /\ VertexOf(r, x) = image[VertexOf(m, x)]
             /\ NextPolygonVertex(r, x) = NextPolygonVertex(m, x)
    <2>1. x[1] \in Polygons(m) /\ x[2] \in DOMAIN m.polygons[x[1]]
        BY CornerIsPair
    <2>2. VertexOf(r, x) = image[VertexOf(m, x)]
        <3>1. r.polygons[x[1]] = [i \in DOMAIN m.polygons[x[1]] |->
                                    image[m.polygons[x[1]][i]]]
            BY <2>1 DEF HasRenamed
        <3>2. QED
            BY <2>1, <3>1 DEF VertexOf
    <2>3. NextPolygonVertex(r, x) = NextPolygonVertex(m, x)
        BY <1>2, <2>1 DEF NextPolygonVertex
    <2>4. QED
        BY <2>2, <2>3
<1>5. ASSUME NEW x \in PolygonVertices(m)
      PROVE  EdgeCycle(r, x) = {image[v] : v \in EdgeCycle(m, x)}
    <2>1. NextPolygonVertex(m, x) \in PolygonVertices(m)
        BY StepsInPolygon
    <2>2. EdgeCycle(r, x) = {image[VertexOf(m, x)],
                             image[VertexOf(m, NextPolygonVertex(m, x))]}
        BY <1>4, <2>1 DEF EdgeCycle
    <2>3. QED
        BY <2>2 DEF EdgeCycle
<1>6. \A x \in PolygonVertices(m) : AdjacentOf(r, x) = AdjacentOf(m, x)
    BY DEF HasRenamed, AdjacentOf
<1>7. QED
    BY <1>1, <1>3, <1>4, <1>5, <1>6

\* Renamed polygons stay polygons whose adjacencies are mutual.
LEMMA RenamedPolygons ==
    ASSUME NEW m, NEW r, NEW image, HasPolygons(m), HasAdjacencies(m),
           HasRenamed(m, r, image)
    PROVE  HasPolygons(r) /\ HasAdjacencies(r)
<1>1. /\ Polygons(r) = Polygons(m)
      /\ PolygonVertices(r) = PolygonVertices(m)
      /\ \A x \in PolygonVertices(m) :
            /\ VertexOf(r, x) = image[VertexOf(m, x)]
            /\ EdgeCycle(r, x) = {image[v] : v \in EdgeCycle(m, x)}
            /\ AdjacentOf(r, x) = AdjacentOf(m, x)
    BY RenamedCorner
<1>2. Size(r.polygons) = Size(m.polygons)
    BY <1>1 DEF Size, Polygons
<1>3. ASSUME NEW p \in Polygons(m)
      PROVE  IsPolygon(r.polygons[p], Size(r.around))
    <2> DEFINE n == Size(m.polygons[p])
    <2>1. /\ n \in Nat /\ n >= 3
          /\ DOMAIN m.polygons[p] = IndexRange(n)
        BY <1>3 DEF HasPolygons, IsPolygon
    <2>2. r.polygons[p] = [i \in IndexRange(n) |-> image[m.polygons[p][i]]]
        BY <1>3, <2>1 DEF HasRenamed
    <2>3. Size(r.polygons[p]) = n
        BY <2>1, <2>2 DEF Size
    <2>4. ASSUME NEW i \in IndexRange(n)
          PROVE  /\ <<p, i>> \in PolygonVertices(m)
                 /\ VertexOf(m, <<p, i>>) = m.polygons[p][i]
        BY <1>3, <2>1, <2>4, CornerIsPair DEF VertexOf
    <2>5. \A i \in IndexRange(n) :
                r.polygons[p][i] \in IndexRange(Size(r.around))
        <3>1. TAKE i \in IndexRange(n)
        <3>2. image[VertexOf(m, <<p, i>>)] \in Vertices(r)
            BY <2>4 DEF HasRenamed
        <3>3. r.polygons[p][i] = image[VertexOf(m, <<p, i>>)]
            BY <2>2, <2>4
        <3>4. QED
            BY <3>2, <3>3 DEF HasRenamed
    <2>6. \A i, j \in IndexRange(n) :
                r.polygons[p][i] = r.polygons[p][j] => i = j
        <3>1. TAKE i, j \in IndexRange(n)
        <3>2. HAVE r.polygons[p][i] = r.polygons[p][j]
        <3>3. image[VertexOf(m, <<p, i>>)] = image[VertexOf(m, <<p, j>>)]
            BY <2>2, <2>4, <3>2
        <3>4. <<p, i>> = <<p, j>>
            BY <2>4, <3>3 DEF HasRenamed
        <3>5. QED
            BY <3>4
    <2> HIDE DEF n
    <2>7. QED
        BY <2>1, <2>2, <2>3, <2>5, <2>6 DEF IsPolygon
<1>4. HasPolygons(r)
    BY <1>1, <1>2, <1>3 DEF HasPolygons, HasRenamed
<1>5. \A x \in PolygonVertices(m) : \A y :
        IsAcross(m, x, y) => IsAcross(r, x, y)
    BY <1>1 DEF IsAcross
<1>6. \A p \in Polygons(m) : DOMAIN r.polygons[p] = DOMAIN m.polygons[p]
    BY DEF HasRenamed
<1>7. HasAdjacencies(r)
    BY <1>1, <1>5, <1>6 DEF HasAdjacencies, HasPlaces, HasRenamed, IsOnBorder
<1>8. QED
    BY <1>4, <1>7

-----------------------------------------------------------------------------
(* What the steps of the operations change. *)

HasFields(m) ==
    m = [polygons |-> m.polygons, adjacent |-> m.adjacent,
         around |-> m.around, cached |-> m.cached,
         enabled |-> m.enabled, edges |-> m.edges]

\* reset_polygons_around_vertex() writes to the lists only.
LEMMA ResetFields ==
    ASSUME NEW m, HasFields(m), NEW V
    PROVE  LET r == ResetAround(m, V)
           IN  /\ HasFields(r)
               /\ r.polygons = m.polygons
               /\ r.adjacent = m.adjacent
               /\ r.around = m.around
               /\ r.cached = [v \in DOMAIN m.cached |->
                        IF v \in V THEN NotComputed ELSE m.cached[v]]
               /\ r.enabled = m.enabled
               /\ r.edges = m.edges
BY DEF HasFields, ResetAround

\* associate_polygon_vertex_to_vertex() writes to one vertex only.
LEMMA AssociateFields ==
    ASSUME NEW m, HasFields(m), NEW x, NEW v
    PROVE  LET r == AssociatePolygonVertex(m, x, v)
           IN  /\ HasFields(r)
               /\ r.polygons = m.polygons
               /\ r.adjacent = m.adjacent
               /\ r.around = [m.around EXCEPT ![v] = x]
               /\ r.cached = m.cached
               /\ r.enabled = m.enabled
               /\ r.edges = m.edges
BY DEF HasFields, AssociatePolygonVertex

\* f with another value at polygon vertex x.
WithSlot(f, x, e) == [f EXCEPT ![x[1]][x[2]] = e]

\* Polygon vertex x goes to vertex v.
IsMove(k, r, x, v) ==
    /\ HasFields(r)
    /\ r.polygons = WithSlot(k.polygons, x, v)
    /\ r.adjacent = k.adjacent
    /\ r.enabled = k.enabled
    /\ r.around = [k.around EXCEPT ![v] = x]
    /\ r.cached = [w \in DOMAIN k.cached |->
            IF w = v THEN NotComputed ELSE k.cached[w]]

\* update_polygon_vertex() moves a polygon vertex.
LEMMA VertexIsMoved ==
    ASSUME NEW m, HasFields(m), NEW x, NEW v
    PROVE  LET r == UpdatePolygonVertex(m, x, v)
           IN  IsMove(m, r, x, v) /\ r.edges = m.edges
<1> DEFINE a == AssociatePolygonVertex(m, x, v)
           b == ResetAround(a, {v})
           r == UpdatePolygonVertex(m, x, v)
<1>1. /\ HasFields(a)
      /\ a.polygons = m.polygons
      /\ a.adjacent = m.adjacent
      /\ a.around = [m.around EXCEPT ![v] = x]
      /\ a.cached = m.cached
      /\ a.enabled = m.enabled
      /\ a.edges = m.edges
    BY AssociateFields
<1> HIDE DEF a
<1>2. /\ HasFields(b)
      /\ b.polygons = a.polygons
      /\ b.adjacent = a.adjacent
      /\ b.around = a.around
      /\ b.cached = [w \in DOMAIN a.cached |->
            IF w \in {v} THEN NotComputed ELSE a.cached[w]]
      /\ b.enabled = a.enabled
      /\ b.edges = a.edges
    BY <1>1, ResetFields
<1>3. r = [b EXCEPT !.polygons[x[1]][x[2]] = v]
    BY DEF UpdatePolygonVertex, a
<1> HIDE DEF b, r
<1>4. /\ HasFields(r)
      /\ r.polygons = [b.polygons EXCEPT ![x[1]][x[2]] = v]
      /\ r.adjacent = b.adjacent
      /\ r.around = b.around
      /\ r.cached = b.cached
      /\ r.enabled = b.enabled
      /\ r.edges = b.edges
    BY <1>2, <1>3 DEF HasFields
<1>5. b.cached = [w \in DOMAIN m.cached |->
            IF w = v THEN NotComputed ELSE m.cached[w]]
    BY <1>1, <1>2
<1>6. QED
    BY <1>1, <1>2, <1>4, <1>5 DEF r, IsMove, WithSlot

\* update_edge() writes to the edges only.
LEMMA UpdateEdgeFields ==
    ASSUME NEW m, HasFields(m), NEW x, NEW old, NEW new
    PROVE  LET r == UpdateEdge(m, x, old, new)
           IN  /\ HasFields(r)
               /\ r.polygons = m.polygons
               /\ r.adjacent = m.adjacent
               /\ r.around = m.around
               /\ r.cached = m.cached
               /\ r.enabled = m.enabled
               /\ ~m.enabled => r.edges = m.edges
<1> DEFINE next == VertexOf(m, NextPolygonVertex(m, x))
           previous == VertexOf(m, PreviousPolygonVertex(m, x))
           edges == UpdateFacetVertex(
                        UpdateFacetVertex(m.edges, {old, next}, {new, next}),
                        {previous, old}, {previous, new})
<1>1. UpdateEdge(m, x, old, new)
        = IF m.enabled THEN [m EXCEPT !.edges = edges] ELSE m
    BY DEF UpdateEdge
<1> HIDE DEF edges
<1>2. QED
    BY <1>1 DEF HasFields

\* So does a loop that moves its edges too.
LEMMA VertexIsMovedWithEdges ==
    ASSUME NEW m, HasFields(m), NEW x, NEW old, NEW new
    PROVE  LET r == MovePolygonVertex(m, x, old, new)
           IN  /\ IsMove(m, r, x, new)
               /\ r.edges = UpdateEdge(m, x, old, new).edges
<1> DEFINE u == UpdateEdge(m, x, old, new)
<1>1. /\ HasFields(u)
      /\ u.polygons = m.polygons
      /\ u.adjacent = m.adjacent
      /\ u.around = m.around
      /\ u.cached = m.cached
      /\ u.enabled = m.enabled
      /\ ~m.enabled => u.edges = m.edges
    BY UpdateEdgeFields
<1>2. MovePolygonVertex(m, x, old, new) = UpdatePolygonVertex(u, x, new)
    BY DEF MovePolygonVertex
<1> DEFINE r == UpdatePolygonVertex(u, x, new)
<1> HIDE DEF u
<1>3. IsMove(u, r, x, new) /\ r.edges = u.edges
    BY <1>1, VertexIsMoved
<1> HIDE DEF r
<1>4. IsMove(m, r, x, new)
    BY <1>1, <1>3 DEF IsMove
<1>5. QED
    BY <1>2, <1>3, <1>4 DEF r, u

-----------------------------------------------------------------------------
(* The lists around vertices. *)

HasAround(m) ==
    /\ m.around = [v \in Vertices(m) |-> m.around[v]]
    /\ \A v \in Vertices(m) : FindsPolygonAround(m, v)

\* Polygon vertices at v, each once.
IsListAround(m, v, list) ==
    /\ list \in Seq(CornersAt(m, v))
    /\ NoRepeat(list)

IsCached(m, v) ==
    /\ m.cached[v].computed \in BOOLEAN
    /\ IF m.cached[v].computed
       THEN IsListAround(m, v, m.cached[v].polygons)
       ELSE m.cached[v] = NotComputed

HasLists(m) ==
    /\ DOMAIN m.cached = Vertices(m)
    /\ m.cached = [v \in Vertices(m) |-> m.cached[v]]
    /\ \A v \in Vertices(m) : IsCached(m, v)

\* What polygons, adjacencies, polygons around vertices and lists say.
IsSurface(m) ==
    /\ HasFields(m)
    /\ HasPolygons(m)
    /\ HasAdjacencies(m)
    /\ HasAround(m)
    /\ HasLists(m)
    /\ m.enabled \in BOOLEAN

\* The polygon vertices depend on the polygons only.
LEMMA SamePolygons ==
    ASSUME NEW m, NEW r, r.polygons = m.polygons
    PROVE  /\ Polygons(r) = Polygons(m)
           /\ PolygonVertices(r) = PolygonVertices(m)
           /\ \A x : /\ VertexOf(r, x) = VertexOf(m, x)
                     /\ NextPolygonVertex(r, x) = NextPolygonVertex(m, x)
                     /\ PreviousPolygonVertex(r, x)
                            = PreviousPolygonVertex(m, x)
                     /\ EdgeCycle(r, x) = EdgeCycle(m, x)
           /\ \A v : CornersAt(r, v) = CornersAt(m, v)
           /\ \A S : PolygonVerticesOf(r, S) = PolygonVerticesOf(m, S)
<1>1. Polygons(r) = Polygons(m)
    BY DEF Polygons
<1>2. PolygonVertices(r) = PolygonVertices(m)
    BY DEF PolygonVertices, PolygonVerticesOf, Polygons
<1>3. \A x : /\ VertexOf(r, x) = VertexOf(m, x)
             /\ NextPolygonVertex(r, x) = NextPolygonVertex(m, x)
             /\ PreviousPolygonVertex(r, x) = PreviousPolygonVertex(m, x)
    BY DEF VertexOf, NextPolygonVertex, PreviousPolygonVertex
<1>4. \A x : EdgeCycle(r, x) = EdgeCycle(m, x)
    BY <1>3 DEF EdgeCycle
<1>5. \A v : CornersAt(r, v) = CornersAt(m, v)
    BY <1>2, <1>3 DEF CornersAt
<1>6. \A S : PolygonVerticesOf(r, S) = PolygonVerticesOf(m, S)
    BY DEF PolygonVerticesOf
<1>7. QED
    BY <1>1, <1>2, <1>3, <1>4, <1>5, <1>6

\* Lists that are kept or reset stay right when the polygons do.
LEMMA SameLists ==
    ASSUME NEW m, NEW r, r.polygons = m.polygons, r.around = m.around,
           HasPolygons(m), HasAround(m), HasLists(m),
           r.cached = [v \in DOMAIN m.cached |-> r.cached[v]],
           \A v \in Vertices(m) : r.cached[v] \in {m.cached[v], NotComputed}
    PROVE  /\ HasPolygons(r)
           /\ HasAround(r)
           /\ HasLists(r)
<1>1. /\ Polygons(r) = Polygons(m)
      /\ \A v : CornersAt(r, v) = CornersAt(m, v)
    BY SamePolygons
<1>2. Vertices(r) = Vertices(m)
    BY DEF Vertices
<1>3. HasPolygons(r)
    BY <1>1, <1>2 DEF HasPolygons
<1>4. HasAround(r)
    BY <1>1, <1>2 DEF HasAround, FindsPolygonAround
<1>5. ASSUME NEW v \in Vertices(m) PROVE IsCached(r, v)
    <2>1. CASE r.cached[v] = NotComputed
        <3>1. NotComputed.computed = FALSE
            BY DEF NotComputed
        <3>2. r.cached[v].computed = FALSE
            BY <2>1, <3>1
        <3>3. QED
            BY <2>1, <3>2 DEF IsCached
    <2>2. CASE r.cached[v] = m.cached[v]
        <3>1. IsCached(m, v)
            BY DEF HasLists
        <3>2. QED
            BY <1>1, <2>2, <3>1 DEF IsCached, IsListAround
    <2>3. QED
        BY <2>1, <2>2
<1>6. HasLists(r)
    BY <1>2, <1>5 DEF HasLists
<1>7. QED
    BY <1>3, <1>4, <1>6

-----------------------------------------------------------------------------
(* The loops, turn by turn. *)

\* The turns of AssociateCorners().
LEMMA TurnsOfAssociateCorners ==
    ASSUME NEW m, NEW T, NEW corners \in Seq(T)
    PROVE  \E f : /\ f[0] = m
                  /\ \A n \in 1 .. Len(corners) : f[n] =
                        AssociatePolygonVertex(f[n - 1], corners[n],
                                               VertexOf(f[n - 1], corners[n]))
                  /\ AssociateCorners(m, corners) = f[Len(corners)]
<1> DEFINE list == corners
           N == Len(list)
           first == m
           turn(acc, x) == AssociatePolygonVertex(acc, x, VertexOf(acc, x))
           Runs(f, n) == /\ f = [k \in 0 .. n |-> f[k]]
                         /\ f[0] = first
                         /\ \A k \in 1 .. n : f[k] = turn(f[k - 1], list[k])
           IsFold(f) == f = [n \in 0 .. N |-> IF n = 0 THEN first
                                            ELSE turn(f[n - 1], list[n])]
           fold == CHOOSE f : IsFold(f)
           R == {n \in Nat : \E f : Runs(f, n)}
<1>1. N \in Nat
    OBVIOUS
<1>2. AssociateCorners(m, corners) = fold[N]
    BY DEF AssociateCorners, FoldInOrder
<1> HIDE DEF turn, list, first
<1>3. 0 \in R
    <2>1. Runs([n \in 0 .. 0 |-> first], 0)
        OBVIOUS
    <2>2. QED
        BY <2>1
<1>4. ASSUME NEW n \in Nat, n \in R
      PROVE  n + 1 \in R
    <2>1. PICK f : Runs(f, n)
        BY <1>4
    <2> DEFINE g == [k \in 0 .. n + 1 |->
                        IF k = n + 1 THEN turn(f[n], list[n + 1]) ELSE f[k]]
    <2>2. \A k \in 1 .. n + 1 : g[k] = turn(g[k - 1], list[k])
        <3>1. \A k \in 1 .. n : g[k] = f[k] /\ g[k - 1] = f[k - 1]
            OBVIOUS
        <3>2. g[n + 1] = turn(f[n], list[n + 1]) /\ g[n] = f[n]
            OBVIOUS
        <3>3. (n + 1) - 1 = n /\ 1 .. n + 1 = (1 .. n) \cup {n + 1}
            OBVIOUS
        <3> HIDE DEF g
        <3>4. QED
            BY <2>1, <3>1, <3>2, <3>3
    <2>3. g = [k \in 0 .. n + 1 |-> g[k]] /\ g[0] = first
        BY <2>1
    <2> HIDE DEF g
    <2>4. Runs(g, n + 1)
        BY <2>2, <2>3
    <2> HIDE DEF Runs
    <2>5. QED
        BY <2>4
<1>5. N \in R
    <2> HIDE DEF R, N
    <2>1. Nat \subseteq R
        BY <1>3, <1>4, SetInduction
    <2>2. QED
        BY <1>1, <2>1
<1>6. PICK f : Runs(f, N)
    BY <1>5
<1>7. IsFold(f)
    <2>1. f = [n \in 0 .. N |-> f[n]]
        BY <1>6
    <2>2. \A n \in 0 .. N : f[n] = IF n = 0 THEN first
                                          ELSE turn(f[n - 1], list[n])
        <3> HIDE DEF N
        <3>1. TAKE n \in 0 .. N
        <3>2. n = 0 \/ n \in 1 .. N
            BY <1>1
        <3>3. 0 # n => f[n] = turn(f[n - 1], list[n])
            BY <1>6, <3>2
        <3>4. QED
            BY <1>6, <3>3
    <2> HIDE DEF turn, N
    <2>3. QED
        BY <2>1, <2>2
<1>8. IsFold(fold)
    BY <1>7
<1>9. /\ fold[0] = first
      /\ \A n \in 1 .. N : fold[n] = turn(fold[n - 1], list[n])
    <2> HIDE DEF fold
    <2>1. QED
        BY <1>1, <1>8
<1> HIDE DEF fold, N
<1>10. QED
    BY <1>1, <1>2, <1>9 DEF turn, list, first, N

\* The turns of ConnectEdges().
LEMMA TurnsOfConnectEdges ==
    ASSUME NEW m, NEW T, NEW edges \in Seq(T)
    PROVE  \E f : /\ f[0] = [mesh |-> m, last |-> <<>>]
                  /\ \A n \in 1 .. Len(edges) : f[n] =
                        ConnectEdge(f[n - 1], edges[n])
                  /\ ConnectEdges(m, edges) = f[Len(edges)]
<1> DEFINE list == edges
           N == Len(list)
           first == [mesh |-> m, last |-> <<>>]
           turn(acc, x) == ConnectEdge(acc, x)
           Runs(f, n) == /\ f = [k \in 0 .. n |-> f[k]]
                         /\ f[0] = first
                         /\ \A k \in 1 .. n : f[k] = turn(f[k - 1], list[k])
           IsFold(f) == f = [n \in 0 .. N |-> IF n = 0 THEN first
                                            ELSE turn(f[n - 1], list[n])]
           fold == CHOOSE f : IsFold(f)
           R == {n \in Nat : \E f : Runs(f, n)}
<1>1. N \in Nat
    OBVIOUS
<1>2. ConnectEdges(m, edges) = fold[N]
    BY DEF ConnectEdges, FoldInOrder
<1> HIDE DEF turn, list, first
<1>3. 0 \in R
    <2>1. Runs([n \in 0 .. 0 |-> first], 0)
        OBVIOUS
    <2>2. QED
        BY <2>1
<1>4. ASSUME NEW n \in Nat, n \in R
      PROVE  n + 1 \in R
    <2>1. PICK f : Runs(f, n)
        BY <1>4
    <2> DEFINE g == [k \in 0 .. n + 1 |->
                        IF k = n + 1 THEN turn(f[n], list[n + 1]) ELSE f[k]]
    <2>2. \A k \in 1 .. n + 1 : g[k] = turn(g[k - 1], list[k])
        <3>1. \A k \in 1 .. n : g[k] = f[k] /\ g[k - 1] = f[k - 1]
            OBVIOUS
        <3>2. g[n + 1] = turn(f[n], list[n + 1]) /\ g[n] = f[n]
            OBVIOUS
        <3>3. (n + 1) - 1 = n /\ 1 .. n + 1 = (1 .. n) \cup {n + 1}
            OBVIOUS
        <3> HIDE DEF g
        <3>4. QED
            BY <2>1, <3>1, <3>2, <3>3
    <2>3. g = [k \in 0 .. n + 1 |-> g[k]] /\ g[0] = first
        BY <2>1
    <2> HIDE DEF g
    <2>4. Runs(g, n + 1)
        BY <2>2, <2>3
    <2> HIDE DEF Runs
    <2>5. QED
        BY <2>4
<1>5. N \in R
    <2> HIDE DEF R, N
    <2>1. Nat \subseteq R
        BY <1>3, <1>4, SetInduction
    <2>2. QED
        BY <1>1, <2>1
<1>6. PICK f : Runs(f, N)
    BY <1>5
<1>7. IsFold(f)
    <2>1. f = [n \in 0 .. N |-> f[n]]
        BY <1>6
    <2>2. \A n \in 0 .. N : f[n] = IF n = 0 THEN first
                                          ELSE turn(f[n - 1], list[n])
        <3> HIDE DEF N
        <3>1. TAKE n \in 0 .. N
        <3>2. n = 0 \/ n \in 1 .. N
            BY <1>1
        <3>3. 0 # n => f[n] = turn(f[n - 1], list[n])
            BY <1>6, <3>2
        <3>4. QED
            BY <1>6, <3>3
    <2> HIDE DEF turn, N
    <2>3. QED
        BY <2>1, <2>2
<1>8. IsFold(fold)
    BY <1>7
<1>9. /\ fold[0] = first
      /\ \A n \in 1 .. N : fold[n] = turn(fold[n - 1], list[n])
    <2> HIDE DEF fold
    <2>1. QED
        BY <1>1, <1>8
<1> HIDE DEF fold, N
<1>10. QED
    BY <1>1, <1>2, <1>9 DEF turn, list, first, N

\* The turns of DisconnectNonManifoldEdges().
LEMMA TurnsOfDisconnectNonManifoldEdges ==
    ASSUME NEW m, NEW T, NEW edges \in Seq(T)
    PROVE  \E f : /\ f[0] = m
                  /\ \A n \in 1 .. Len(edges) : f[n] =
                        DisconnectNonManifoldEdge(f[n - 1], edges[n])
                  /\ DisconnectNonManifoldEdges(m, edges) = f[Len(edges)]
<1> DEFINE list == edges
           N == Len(list)
           first == m
           turn(acc, x) == DisconnectNonManifoldEdge(acc, x)
           Runs(f, n) == /\ f = [k \in 0 .. n |-> f[k]]
                         /\ f[0] = first
                         /\ \A k \in 1 .. n : f[k] = turn(f[k - 1], list[k])
           IsFold(f) == f = [n \in 0 .. N |-> IF n = 0 THEN first
                                            ELSE turn(f[n - 1], list[n])]
           fold == CHOOSE f : IsFold(f)
           R == {n \in Nat : \E f : Runs(f, n)}
<1>1. N \in Nat
    OBVIOUS
<1>2. DisconnectNonManifoldEdges(m, edges) = fold[N]
    BY DEF DisconnectNonManifoldEdges, FoldInOrder
<1> HIDE DEF turn, list, first
<1>3. 0 \in R
    <2>1. Runs([n \in 0 .. 0 |-> first], 0)
        OBVIOUS
    <2>2. QED
        BY <2>1
<1>4. ASSUME NEW n \in Nat, n \in R
      PROVE  n + 1 \in R
    <2>1. PICK f : Runs(f, n)
        BY <1>4
    <2> DEFINE g == [k \in 0 .. n + 1 |->
                        IF k = n + 1 THEN turn(f[n], list[n + 1]) ELSE f[k]]
    <2>2. \A k \in 1 .. n + 1 : g[k] = turn(g[k - 1], list[k])
        <3>1. \A k \in 1 .. n : g[k] = f[k] /\ g[k - 1] = f[k - 1]
            OBVIOUS
        <3>2. g[n + 1] = turn(f[n], list[n + 1]) /\ g[n] = f[n]
            OBVIOUS
        <3>3. (n + 1) - 1 = n /\ 1 .. n + 1 = (1 .. n) \cup {n + 1}
            OBVIOUS
        <3> HIDE DEF g
        <3>4. QED
            BY <2>1, <3>1, <3>2, <3>3
    <2>3. g = [k \in 0 .. n + 1 |-> g[k]] /\ g[0] = first
        BY <2>1
    <2> HIDE DEF g
    <2>4. Runs(g, n + 1)
        BY <2>2, <2>3
    <2> HIDE DEF Runs
    <2>5. QED
        BY <2>4
<1>5. N \in R
    <2> HIDE DEF R, N
    <2>1. Nat \subseteq R
        BY <1>3, <1>4, SetInduction
    <2>2. QED
        BY <1>1, <2>1
<1>6. PICK f : Runs(f, N)
    BY <1>5
<1>7. IsFold(f)
    <2>1. f = [n \in 0 .. N |-> f[n]]
        BY <1>6
    <2>2. \A n \in 0 .. N : f[n] = IF n = 0 THEN first
                                          ELSE turn(f[n - 1], list[n])
        <3> HIDE DEF N
        <3>1. TAKE n \in 0 .. N
        <3>2. n = 0 \/ n \in 1 .. N
            BY <1>1
        <3>3. 0 # n => f[n] = turn(f[n - 1], list[n])
            BY <1>6, <3>2
        <3>4. QED
            BY <1>6, <3>3
    <2> HIDE DEF turn, N
    <2>3. QED
        BY <2>1, <2>2
<1>8. IsFold(fold)
    BY <1>7
<1>9. /\ fold[0] = first
      /\ \A n \in 1 .. N : fold[n] = turn(fold[n - 1], list[n])
    <2> HIDE DEF fold
    <2>1. QED
        BY <1>1, <1>8
<1> HIDE DEF fold, N
<1>10. QED
    BY <1>1, <1>2, <1>9 DEF turn, list, first, N

\* The turns of RenumberVerticesOf().
LEMMA TurnsOfRenumberVerticesOf ==
    ASSUME NEW m, NEW old2new, NEW T, NEW corners \in Seq(T)
    PROVE  \E f : /\ f[0] = m
                  /\ \A n \in 1 .. Len(corners) : f[n] =
                        RenumberVertexOf(f[n - 1], old2new, corners[n])
                  /\ RenumberVerticesOf(m, old2new, corners) = f[Len(corners)]
<1> DEFINE list == corners
           N == Len(list)
           first == m
           turn(acc, x) == RenumberVertexOf(acc, old2new, x)
           Runs(f, n) == /\ f = [k \in 0 .. n |-> f[k]]
                         /\ f[0] = first
                         /\ \A k \in 1 .. n : f[k] = turn(f[k - 1], list[k])
           IsFold(f) == f = [n \in 0 .. N |-> IF n = 0 THEN first
                                            ELSE turn(f[n - 1], list[n])]
           fold == CHOOSE f : IsFold(f)
           R == {n \in Nat : \E f : Runs(f, n)}
<1>1. N \in Nat
    OBVIOUS
<1>2. RenumberVerticesOf(m, old2new, corners) = fold[N]
    BY DEF RenumberVerticesOf, FoldInOrder
<1> HIDE DEF turn, list, first
<1>3. 0 \in R
    <2>1. Runs([n \in 0 .. 0 |-> first], 0)
        OBVIOUS
    <2>2. QED
        BY <2>1
<1>4. ASSUME NEW n \in Nat, n \in R
      PROVE  n + 1 \in R
    <2>1. PICK f : Runs(f, n)
        BY <1>4
    <2> DEFINE g == [k \in 0 .. n + 1 |->
                        IF k = n + 1 THEN turn(f[n], list[n + 1]) ELSE f[k]]
    <2>2. \A k \in 1 .. n + 1 : g[k] = turn(g[k - 1], list[k])
        <3>1. \A k \in 1 .. n : g[k] = f[k] /\ g[k - 1] = f[k - 1]
            OBVIOUS
        <3>2. g[n + 1] = turn(f[n], list[n + 1]) /\ g[n] = f[n]
            OBVIOUS
        <3>3. (n + 1) - 1 = n /\ 1 .. n + 1 = (1 .. n) \cup {n + 1}
            OBVIOUS
        <3> HIDE DEF g
        <3>4. QED
            BY <2>1, <3>1, <3>2, <3>3
    <2>3. g = [k \in 0 .. n + 1 |-> g[k]] /\ g[0] = first
        BY <2>1
    <2> HIDE DEF g
    <2>4. Runs(g, n + 1)
        BY <2>2, <2>3
    <2> HIDE DEF Runs
    <2>5. QED
        BY <2>4
<1>5. N \in R
    <2> HIDE DEF R, N
    <2>1. Nat \subseteq R
        BY <1>3, <1>4, SetInduction
    <2>2. QED
        BY <1>1, <2>1
<1>6. PICK f : Runs(f, N)
    BY <1>5
<1>7. IsFold(f)
    <2>1. f = [n \in 0 .. N |-> f[n]]
        BY <1>6
    <2>2. \A n \in 0 .. N : f[n] = IF n = 0 THEN first
                                          ELSE turn(f[n - 1], list[n])
        <3> HIDE DEF N
        <3>1. TAKE n \in 0 .. N
        <3>2. n = 0 \/ n \in 1 .. N
            BY <1>1
        <3>3. 0 # n => f[n] = turn(f[n - 1], list[n])
            BY <1>6, <3>2
        <3>4. QED
            BY <1>6, <3>3
    <2> HIDE DEF turn, N
    <2>3. QED
        BY <2>1, <2>2
<1>8. IsFold(fold)
    BY <1>7
<1>9. /\ fold[0] = first
      /\ \A n \in 1 .. N : fold[n] = turn(fold[n - 1], list[n])
    <2> HIDE DEF fold
    <2>1. QED
        BY <1>1, <1>8
<1> HIDE DEF fold, N
<1>10. QED
    BY <1>1, <1>2, <1>9 DEF turn, list, first, N

\* The turns of MovePolygonVertices().
LEMMA TurnsOfMovePolygonVertices ==
    ASSUME NEW m, NEW old, NEW new, NEW T, NEW corners \in Seq(T)
    PROVE  \E f : /\ f[0] = m
                  /\ \A n \in 1 .. Len(corners) : f[n] =
                        MovePolygonVertex(f[n - 1], corners[n], old, new)
                  /\ MovePolygonVertices(m, corners, old, new)
                        = f[Len(corners)]
<1> DEFINE list == corners
           N == Len(list)
           first == m
           turn(acc, x) == MovePolygonVertex(acc, x, old, new)
           Runs(f, n) == /\ f = [k \in 0 .. n |-> f[k]]
                         /\ f[0] = first
                         /\ \A k \in 1 .. n : f[k] = turn(f[k - 1], list[k])
           IsFold(f) == f = [n \in 0 .. N |-> IF n = 0 THEN first
                                            ELSE turn(f[n - 1], list[n])]
           fold == CHOOSE f : IsFold(f)
           R == {n \in Nat : \E f : Runs(f, n)}
<1>1. N \in Nat
    OBVIOUS
<1>2. MovePolygonVertices(m, corners, old, new) = fold[N]
    BY DEF MovePolygonVertices, FoldInOrder
<1> HIDE DEF turn, list, first
<1>3. 0 \in R
    <2>1. Runs([n \in 0 .. 0 |-> first], 0)
        OBVIOUS
    <2>2. QED
        BY <2>1
<1>4. ASSUME NEW n \in Nat, n \in R
      PROVE  n + 1 \in R
    <2>1. PICK f : Runs(f, n)
        BY <1>4
    <2> DEFINE g == [k \in 0 .. n + 1 |->
                        IF k = n + 1 THEN turn(f[n], list[n + 1]) ELSE f[k]]
    <2>2. \A k \in 1 .. n + 1 : g[k] = turn(g[k - 1], list[k])
        <3>1. \A k \in 1 .. n : g[k] = f[k] /\ g[k - 1] = f[k - 1]
            OBVIOUS
        <3>2. g[n + 1] = turn(f[n], list[n + 1]) /\ g[n] = f[n]
            OBVIOUS
        <3>3. (n + 1) - 1 = n /\ 1 .. n + 1 = (1 .. n) \cup {n + 1}
            OBVIOUS
        <3> HIDE DEF g
        <3>4. QED
            BY <2>1, <3>1, <3>2, <3>3
    <2>3. g = [k \in 0 .. n + 1 |-> g[k]] /\ g[0] = first
        BY <2>1
    <2> HIDE DEF g
    <2>4. Runs(g, n + 1)
        BY <2>2, <2>3
    <2> HIDE DEF Runs
    <2>5. QED
        BY <2>4
<1>5. N \in R
    <2> HIDE DEF R, N
    <2>1. Nat \subseteq R
        BY <1>3, <1>4, SetInduction
    <2>2. QED
        BY <1>1, <2>1
<1>6. PICK f : Runs(f, N)
    BY <1>5
<1>7. IsFold(f)
    <2>1. f = [n \in 0 .. N |-> f[n]]
        BY <1>6
    <2>2. \A n \in 0 .. N : f[n] = IF n = 0 THEN first
                                          ELSE turn(f[n - 1], list[n])
        <3> HIDE DEF N
        <3>1. TAKE n \in 0 .. N
        <3>2. n = 0 \/ n \in 1 .. N
            BY <1>1
        <3>3. 0 # n => f[n] = turn(f[n - 1], list[n])
            BY <1>6, <3>2
        <3>4. QED
            BY <1>6, <3>3
    <2> HIDE DEF turn, N
    <2>3. QED
        BY <2>1, <2>2
<1>8. IsFold(fold)
    BY <1>7
<1>9. /\ fold[0] = first
      /\ \A n \in 1 .. N : fold[n] = turn(fold[n - 1], list[n])
    <2> HIDE DEF fold
    <2>1. QED
        BY <1>1, <1>8
<1> HIDE DEF fold, N
<1>10. QED
    BY <1>1, <1>2, <1>9 DEF turn, list, first, N

\* The turns of ReplaceVerticesOf().
LEMMA TurnsOfReplaceVerticesOf ==
    ASSUME NEW m, NEW mapping, NEW T, NEW corners \in Seq(T)
    PROVE  \E f : /\ f[0] = m
                  /\ \A n \in 1 .. Len(corners) : f[n] =
                        ReplaceVertexOf(f[n - 1], mapping, corners[n])
                  /\ ReplaceVerticesOf(m, mapping, corners) = f[Len(corners)]
<1> DEFINE list == corners
           N == Len(list)
           first == m
           turn(acc, x) == ReplaceVertexOf(acc, mapping, x)
           Runs(f, n) == /\ f = [k \in 0 .. n |-> f[k]]
                         /\ f[0] = first
                         /\ \A k \in 1 .. n : f[k] = turn(f[k - 1], list[k])
           IsFold(f) == f = [n \in 0 .. N |-> IF n = 0 THEN first
                                            ELSE turn(f[n - 1], list[n])]
           fold == CHOOSE f : IsFold(f)
           R == {n \in Nat : \E f : Runs(f, n)}
<1>1. N \in Nat
    OBVIOUS
<1>2. ReplaceVerticesOf(m, mapping, corners) = fold[N]
    BY DEF ReplaceVerticesOf, FoldInOrder
<1> HIDE DEF turn, list, first
<1>3. 0 \in R
    <2>1. Runs([n \in 0 .. 0 |-> first], 0)
        OBVIOUS
    <2>2. QED
        BY <2>1
<1>4. ASSUME NEW n \in Nat, n \in R
      PROVE  n + 1 \in R
    <2>1. PICK f : Runs(f, n)
        BY <1>4
    <2> DEFINE g == [k \in 0 .. n + 1 |->
                        IF k = n + 1 THEN turn(f[n], list[n + 1]) ELSE f[k]]
    <2>2. \A k \in 1 .. n + 1 : g[k] = turn(g[k - 1], list[k])
        <3>1. \A k \in 1 .. n : g[k] = f[k] /\ g[k - 1] = f[k - 1]
            OBVIOUS
        <3>2. g[n + 1] = turn(f[n], list[n + 1]) /\ g[n] = f[n]
            OBVIOUS
        <3>3. (n + 1) - 1 = n /\ 1 .. n + 1 = (1 .. n) \cup {n + 1}
            OBVIOUS
        <3> HIDE DEF g
        <3>4. QED
            BY <2>1, <3>1, <3>2, <3>3
    <2>3. g = [k \in 0 .. n + 1 |-> g[k]] /\ g[0] = first
        BY <2>1
    <2> HIDE DEF g
    <2>4. Runs(g, n + 1)
        BY <2>2, <2>3
    <2> HIDE DEF Runs
    <2>5. QED
        BY <2>4
<1>5. N \in R
    <2> HIDE DEF R, N
    <2>1. Nat \subseteq R
        BY <1>3, <1>4, SetInduction
    <2>2. QED
        BY <1>1, <2>1
<1>6. PICK f : Runs(f, N)
    BY <1>5
<1>7. IsFold(f)
    <2>1. f = [n \in 0 .. N |-> f[n]]
        BY <1>6
    <2>2. \A n \in 0 .. N : f[n] = IF n = 0 THEN first
                                          ELSE turn(f[n - 1], list[n])
        <3> HIDE DEF N
        <3>1. TAKE n \in 0 .. N
        <3>2. n = 0 \/ n \in 1 .. N
            BY <1>1
        <3>3. 0 # n => f[n] = turn(f[n - 1], list[n])
            BY <1>6, <3>2
        <3>4. QED
            BY <1>6, <3>3
    <2> HIDE DEF turn, N
    <2>3. QED
        BY <2>1, <2>2
<1>8. IsFold(fold)
    BY <1>7
<1>9. /\ fold[0] = first
      /\ \A n \in 1 .. N : fold[n] = turn(fold[n - 1], list[n])
    <2> HIDE DEF fold
    <2>1. QED
        BY <1>1, <1>8
<1> HIDE DEF fold, N
<1>10. QED
    BY <1>1, <1>2, <1>9 DEF turn, list, first, N

\* The turns of CreateCopies().
LEMMA TurnsOfCreateCopies ==
    ASSUME NEW m, NEW T, NEW polygons \in Seq(T)
    PROVE  \E f : /\ f[0] = m
                  /\ \A n \in 1 .. Len(polygons) : f[n] =
                        CreatePolygon(f[n - 1], polygons[n])
                  /\ CreateCopies(m, polygons) = f[Len(polygons)]
<1> DEFINE list == polygons
           N == Len(list)
           first == m
           turn(acc, x) == CreatePolygon(acc, x)
           Runs(f, n) == /\ f = [k \in 0 .. n |-> f[k]]
                         /\ f[0] = first
                         /\ \A k \in 1 .. n : f[k] = turn(f[k - 1], list[k])
           IsFold(f) == f = [n \in 0 .. N |-> IF n = 0 THEN first
                                            ELSE turn(f[n - 1], list[n])]
           fold == CHOOSE f : IsFold(f)
           R == {n \in Nat : \E f : Runs(f, n)}
<1>1. N \in Nat
    OBVIOUS
<1>2. CreateCopies(m, polygons) = fold[N]
    BY DEF CreateCopies, FoldInOrder
<1> HIDE DEF turn, list, first
<1>3. 0 \in R
    <2>1. Runs([n \in 0 .. 0 |-> first], 0)
        OBVIOUS
    <2>2. QED
        BY <2>1
<1>4. ASSUME NEW n \in Nat, n \in R
      PROVE  n + 1 \in R
    <2>1. PICK f : Runs(f, n)
        BY <1>4
    <2> DEFINE g == [k \in 0 .. n + 1 |->
                        IF k = n + 1 THEN turn(f[n], list[n + 1]) ELSE f[k]]
    <2>2. \A k \in 1 .. n + 1 : g[k] = turn(g[k - 1], list[k])
        <3>1. \A k \in 1 .. n : g[k] = f[k] /\ g[k - 1] = f[k - 1]
            OBVIOUS
        <3>2. g[n + 1] = turn(f[n], list[n + 1]) /\ g[n] = f[n]
            OBVIOUS
        <3>3. (n + 1) - 1 = n /\ 1 .. n + 1 = (1 .. n) \cup {n + 1}
            OBVIOUS
        <3> HIDE DEF g
        <3>4. QED
            BY <2>1, <3>1, <3>2, <3>3
    <2>3. g = [k \in 0 .. n + 1 |-> g[k]] /\ g[0] = first
        BY <2>1
    <2> HIDE DEF g
    <2>4. Runs(g, n + 1)
        BY <2>2, <2>3
    <2> HIDE DEF Runs
    <2>5. QED
        BY <2>4
<1>5. N \in R
    <2> HIDE DEF R, N
    <2>1. Nat \subseteq R
        BY <1>3, <1>4, SetInduction
    <2>2. QED
        BY <1>1, <2>1
<1>6. PICK f : Runs(f, N)
    BY <1>5
<1>7. IsFold(f)
    <2>1. f = [n \in 0 .. N |-> f[n]]
        BY <1>6
    <2>2. \A n \in 0 .. N : f[n] = IF n = 0 THEN first
                                          ELSE turn(f[n - 1], list[n])
        <3> HIDE DEF N
        <3>1. TAKE n \in 0 .. N
        <3>2. n = 0 \/ n \in 1 .. N
            BY <1>1
        <3>3. 0 # n => f[n] = turn(f[n - 1], list[n])
            BY <1>6, <3>2
        <3>4. QED
            BY <1>6, <3>3
    <2> HIDE DEF turn, N
    <2>3. QED
        BY <2>1, <2>2
<1>8. IsFold(fold)
    BY <1>7
<1>9. /\ fold[0] = first
      /\ \A n \in 1 .. N : fold[n] = turn(fold[n - 1], list[n])
    <2> HIDE DEF fold
    <2>1. QED
        BY <1>1, <1>8
<1> HIDE DEF fold, N
<1>10. QED
    BY <1>1, <1>2, <1>9 DEF turn, list, first, N

\* The turns of AddFacets().
LEMMA TurnsOfAddFacets ==
    ASSUME NEW s, NEW T, NEW cycles \in Seq(T)
    PROVE  \E f : /\ f[0] = s
                  /\ \A n \in 1 .. Len(cycles) : f[n] =
                        AddFacet(f[n - 1], cycles[n])
                  /\ AddFacets(s, cycles) = f[Len(cycles)]
<1> DEFINE list == cycles
           N == Len(list)
           first == s
           turn(acc, x) == AddFacet(acc, x)
           Runs(f, n) == /\ f = [k \in 0 .. n |-> f[k]]
                         /\ f[0] = first
                         /\ \A k \in 1 .. n : f[k] = turn(f[k - 1], list[k])
           IsFold(f) == f = [n \in 0 .. N |-> IF n = 0 THEN first
                                            ELSE turn(f[n - 1], list[n])]
           fold == CHOOSE f : IsFold(f)
           R == {n \in Nat : \E f : Runs(f, n)}
<1>1. N \in Nat
    OBVIOUS
<1>2. AddFacets(s, cycles) = fold[N]
    BY DEF AddFacets, FoldInOrder
<1> HIDE DEF turn, list, first
<1>3. 0 \in R
    <2>1. Runs([n \in 0 .. 0 |-> first], 0)
        OBVIOUS
    <2>2. QED
        BY <2>1
<1>4. ASSUME NEW n \in Nat, n \in R
      PROVE  n + 1 \in R
    <2>1. PICK f : Runs(f, n)
        BY <1>4
    <2> DEFINE g == [k \in 0 .. n + 1 |->
                        IF k = n + 1 THEN turn(f[n], list[n + 1]) ELSE f[k]]
    <2>2. \A k \in 1 .. n + 1 : g[k] = turn(g[k - 1], list[k])
        <3>1. \A k \in 1 .. n : g[k] = f[k] /\ g[k - 1] = f[k - 1]
            OBVIOUS
        <3>2. g[n + 1] = turn(f[n], list[n + 1]) /\ g[n] = f[n]
            OBVIOUS
        <3>3. (n + 1) - 1 = n /\ 1 .. n + 1 = (1 .. n) \cup {n + 1}
            OBVIOUS
        <3> HIDE DEF g
        <3>4. QED
            BY <2>1, <3>1, <3>2, <3>3
    <2>3. g = [k \in 0 .. n + 1 |-> g[k]] /\ g[0] = first
        BY <2>1
    <2> HIDE DEF g
    <2>4. Runs(g, n + 1)
        BY <2>2, <2>3
    <2> HIDE DEF Runs
    <2>5. QED
        BY <2>4
<1>5. N \in R
    <2> HIDE DEF R, N
    <2>1. Nat \subseteq R
        BY <1>3, <1>4, SetInduction
    <2>2. QED
        BY <1>1, <2>1
<1>6. PICK f : Runs(f, N)
    BY <1>5
<1>7. IsFold(f)
    <2>1. f = [n \in 0 .. N |-> f[n]]
        BY <1>6
    <2>2. \A n \in 0 .. N : f[n] = IF n = 0 THEN first
                                          ELSE turn(f[n - 1], list[n])
        <3> HIDE DEF N
        <3>1. TAKE n \in 0 .. N
        <3>2. n = 0 \/ n \in 1 .. N
            BY <1>1
        <3>3. 0 # n => f[n] = turn(f[n - 1], list[n])
            BY <1>6, <3>2
        <3>4. QED
            BY <1>6, <3>3
    <2> HIDE DEF turn, N
    <2>3. QED
        BY <2>1, <2>2
<1>8. IsFold(fold)
    BY <1>7
<1>9. /\ fold[0] = first
      /\ \A n \in 1 .. N : fold[n] = turn(fold[n - 1], list[n])
    <2> HIDE DEF fold
    <2>1. QED
        BY <1>1, <1>8
<1> HIDE DEF fold, N
<1>10. QED
    BY <1>1, <1>2, <1>9 DEF turn, list, first, N

\* The turns of RemoveFacets().
LEMMA TurnsOfRemoveFacets ==
    ASSUME NEW s, NEW T, NEW cycles \in Seq(T)
    PROVE  \E f : /\ f[0] = s
                  /\ \A n \in 1 .. Len(cycles) : f[n] =
                        RemoveFacet(f[n - 1], cycles[n])
                  /\ RemoveFacets(s, cycles) = f[Len(cycles)]
<1> DEFINE list == cycles
           N == Len(list)
           first == s
           turn(acc, x) == RemoveFacet(acc, x)
           Runs(f, n) == /\ f = [k \in 0 .. n |-> f[k]]
                         /\ f[0] = first
                         /\ \A k \in 1 .. n : f[k] = turn(f[k - 1], list[k])
           IsFold(f) == f = [n \in 0 .. N |-> IF n = 0 THEN first
                                            ELSE turn(f[n - 1], list[n])]
           fold == CHOOSE f : IsFold(f)
           R == {n \in Nat : \E f : Runs(f, n)}
<1>1. N \in Nat
    OBVIOUS
<1>2. RemoveFacets(s, cycles) = fold[N]
    BY DEF RemoveFacets, FoldInOrder
<1> HIDE DEF turn, list, first
<1>3. 0 \in R
    <2>1. Runs([n \in 0 .. 0 |-> first], 0)
        OBVIOUS
    <2>2. QED
        BY <2>1
<1>4. ASSUME NEW n \in Nat, n \in R
      PROVE  n + 1 \in R
    <2>1. PICK f : Runs(f, n)
        BY <1>4
    <2> DEFINE g == [k \in 0 .. n + 1 |->
                        IF k = n + 1 THEN turn(f[n], list[n + 1]) ELSE f[k]]
    <2>2. \A k \in 1 .. n + 1 : g[k] = turn(g[k - 1], list[k])
        <3>1. \A k \in 1 .. n : g[k] = f[k] /\ g[k - 1] = f[k - 1]
            OBVIOUS
        <3>2. g[n + 1] = turn(f[n], list[n + 1]) /\ g[n] = f[n]
            OBVIOUS
        <3>3. (n + 1) - 1 = n /\ 1 .. n + 1 = (1 .. n) \cup {n + 1}
            OBVIOUS
        <3> HIDE DEF g
        <3>4. QED
            BY <2>1, <3>1, <3>2, <3>3
    <2>3. g = [k \in 0 .. n + 1 |-> g[k]] /\ g[0] = first
        BY <2>1
    <2> HIDE DEF g
    <2>4. Runs(g, n + 1)
        BY <2>2, <2>3
    <2> HIDE DEF Runs
    <2>5. QED
        BY <2>4
<1>5. N \in R
    <2> HIDE DEF R, N
    <2>1. Nat \subseteq R
        BY <1>3, <1>4, SetInduction
    <2>2. QED
        BY <1>1, <2>1
<1>6. PICK f : Runs(f, N)
    BY <1>5
<1>7. IsFold(f)
    <2>1. f = [n \in 0 .. N |-> f[n]]
        BY <1>6
    <2>2. \A n \in 0 .. N : f[n] = IF n = 0 THEN first
                                          ELSE turn(f[n - 1], list[n])
        <3> HIDE DEF N
        <3>1. TAKE n \in 0 .. N
        <3>2. n = 0 \/ n \in 1 .. N
            BY <1>1
        <3>3. 0 # n => f[n] = turn(f[n - 1], list[n])
            BY <1>6, <3>2
        <3>4. QED
            BY <1>6, <3>3
    <2> HIDE DEF turn, N
    <2>3. QED
        BY <2>1, <2>2
<1>8. IsFold(fold)
    BY <1>7
<1>9. /\ fold[0] = first
      /\ \A n \in 1 .. N : fold[n] = turn(fold[n - 1], list[n])
    <2> HIDE DEF fold
    <2>1. QED
        BY <1>1, <1>8
<1> HIDE DEF fold, N
<1>10. QED
    BY <1>1, <1>2, <1>9 DEF turn, list, first, N

\* The turns of UpdatePolygonAroundVertices().
LEMMA TurnsOfUpdatePolygonAroundVertices ==
    ASSUME NEW m, NEW old2new, NEW T,
           Indices(m.around) \in Seq(T)
    PROVE  \E f : /\ f[0] = m
                  /\ \A n \in 1 .. Len(Indices(m.around)) : f[n] =
                        UpdatePolygonAroundVertex(f[n - 1], old2new,
                                                  Indices(m.around)[n])
                  /\ UpdatePolygonAroundVertices(m, old2new)
                        = f[Len(Indices(m.around))]
<1> DEFINE list == Indices(m.around)
           N == Len(list)
           first == m
           turn(acc, x) == UpdatePolygonAroundVertex(acc, old2new, x)
           Runs(f, n) == /\ f = [k \in 0 .. n |-> f[k]]
                         /\ f[0] = first
                         /\ \A k \in 1 .. n : f[k] = turn(f[k - 1], list[k])
           IsFold(f) == f = [n \in 0 .. N |-> IF n = 0 THEN first
                                            ELSE turn(f[n - 1], list[n])]
           fold == CHOOSE f : IsFold(f)
           R == {n \in Nat : \E f : Runs(f, n)}
<1>1. N \in Nat
    OBVIOUS
<1>2. UpdatePolygonAroundVertices(m, old2new) = fold[N]
    BY DEF UpdatePolygonAroundVertices, FoldInOrder
<1> HIDE DEF turn, list, first
<1>3. 0 \in R
    <2>1. Runs([n \in 0 .. 0 |-> first], 0)
        OBVIOUS
    <2>2. QED
        BY <2>1
<1>4. ASSUME NEW n \in Nat, n \in R
      PROVE  n + 1 \in R
    <2>1. PICK f : Runs(f, n)
        BY <1>4
    <2> DEFINE g == [k \in 0 .. n + 1 |->
                        IF k = n + 1 THEN turn(f[n], list[n + 1]) ELSE f[k]]
    <2>2. \A k \in 1 .. n + 1 : g[k] = turn(g[k - 1], list[k])
        <3>1. \A k \in 1 .. n : g[k] = f[k] /\ g[k - 1] = f[k - 1]
            OBVIOUS
        <3>2. g[n + 1] = turn(f[n], list[n + 1]) /\ g[n] = f[n]
            OBVIOUS
        <3>3. (n + 1) - 1 = n /\ 1 .. n + 1 = (1 .. n) \cup {n + 1}
            OBVIOUS
        <3> HIDE DEF g
        <3>4. QED
            BY <2>1, <3>1, <3>2, <3>3
    <2>3. g = [k \in 0 .. n + 1 |-> g[k]] /\ g[0] = first
        BY <2>1
    <2> HIDE DEF g
    <2>4. Runs(g, n + 1)
        BY <2>2, <2>3
    <2> HIDE DEF Runs
    <2>5. QED
        BY <2>4
<1>5. N \in R
    <2> HIDE DEF R, N
    <2>1. Nat \subseteq R
        BY <1>3, <1>4, SetInduction
    <2>2. QED
        BY <1>1, <2>1
<1>6. PICK f : Runs(f, N)
    BY <1>5
<1>7. IsFold(f)
    <2>1. f = [n \in 0 .. N |-> f[n]]
        BY <1>6
    <2>2. \A n \in 0 .. N : f[n] = IF n = 0 THEN first
                                          ELSE turn(f[n - 1], list[n])
        <3> HIDE DEF N
        <3>1. TAKE n \in 0 .. N
        <3>2. n = 0 \/ n \in 1 .. N
            BY <1>1
        <3>3. 0 # n => f[n] = turn(f[n - 1], list[n])
            BY <1>6, <3>2
        <3>4. QED
            BY <1>6, <3>3
    <2> HIDE DEF turn, N
    <2>3. QED
        BY <2>1, <2>2
<1>8. IsFold(fold)
    BY <1>7
<1>9. /\ fold[0] = first
      /\ \A n \in 1 .. N : fold[n] = turn(fold[n - 1], list[n])
    <2> HIDE DEF fold
    <2>1. QED
        BY <1>1, <1>8
<1> HIDE DEF fold, N
<1>10. QED
    BY <1>1, <1>2, <1>9 DEF turn, list, first, N

\* The turns of PolygonVertexList().
LEMMA TurnsOfPolygonVertexList ==
    ASSUME NEW m, NEW T, Indices(m.polygons) \in Seq(T)
    PROVE  \E f : /\ f[0] = <<>>
                  /\ \A n \in 1 .. Len(Indices(m.polygons)) :
                     LET p == Indices(m.polygons)[n]
                     IN  f[n] = f[n - 1] \o
                            [i \in 1 .. Size(m.polygons[p]) |-> <<p, i - 1>>]
                  /\ PolygonVertexList(m) = f[Len(Indices(m.polygons))]
<1> DEFINE list == Indices(m.polygons)
           N == Len(list)
           first == <<>>
           turn(acc, x) == acc \o [i \in 1 .. Size(m.polygons[x]) |->
                            <<x, i - 1>>]
           Runs(f, n) == /\ f = [k \in 0 .. n |-> f[k]]
                         /\ f[0] = first
                         /\ \A k \in 1 .. n : f[k] = turn(f[k - 1], list[k])
           IsFold(f) == f = [n \in 0 .. N |-> IF n = 0 THEN first
                                            ELSE turn(f[n - 1], list[n])]
           fold == CHOOSE f : IsFold(f)
           R == {n \in Nat : \E f : Runs(f, n)}
<1>1. N \in Nat
    OBVIOUS
<1>2. PolygonVertexList(m) = fold[N]
    BY DEF PolygonVertexList, FoldInOrder
<1> HIDE DEF turn, list, first
<1>3. 0 \in R
    <2>1. Runs([n \in 0 .. 0 |-> first], 0)
        OBVIOUS
    <2>2. QED
        BY <2>1
<1>4. ASSUME NEW n \in Nat, n \in R
      PROVE  n + 1 \in R
    <2>1. PICK f : Runs(f, n)
        BY <1>4
    <2> DEFINE g == [k \in 0 .. n + 1 |->
                        IF k = n + 1 THEN turn(f[n], list[n + 1]) ELSE f[k]]
    <2>2. \A k \in 1 .. n + 1 : g[k] = turn(g[k - 1], list[k])
        <3>1. \A k \in 1 .. n : g[k] = f[k] /\ g[k - 1] = f[k - 1]
            OBVIOUS
        <3>2. g[n + 1] = turn(f[n], list[n + 1]) /\ g[n] = f[n]
            OBVIOUS
        <3>3. (n + 1) - 1 = n /\ 1 .. n + 1 = (1 .. n) \cup {n + 1}
            OBVIOUS
        <3> HIDE DEF g
        <3>4. QED
            BY <2>1, <3>1, <3>2, <3>3
    <2>3. g = [k \in 0 .. n + 1 |-> g[k]] /\ g[0] = first
        BY <2>1
    <2> HIDE DEF g
    <2>4. Runs(g, n + 1)
        BY <2>2, <2>3
    <2> HIDE DEF Runs
    <2>5. QED
        BY <2>4
<1>5. N \in R
    <2> HIDE DEF R, N
    <2>1. Nat \subseteq R
        BY <1>3, <1>4, SetInduction
    <2>2. QED
        BY <1>1, <2>1
<1>6. PICK f : Runs(f, N)
    BY <1>5
<1>7. IsFold(f)
    <2>1. f = [n \in 0 .. N |-> f[n]]
        BY <1>6
    <2>2. \A n \in 0 .. N : f[n] = IF n = 0 THEN first
                                          ELSE turn(f[n - 1], list[n])
        <3> HIDE DEF N
        <3>1. TAKE n \in 0 .. N
        <3>2. n = 0 \/ n \in 1 .. N
            BY <1>1
        <3>3. 0 # n => f[n] = turn(f[n - 1], list[n])
            BY <1>6, <3>2
        <3>4. QED
            BY <1>6, <3>3
    <2> HIDE DEF turn, N
    <2>3. QED
        BY <2>1, <2>2
<1>8. IsFold(fold)
    BY <1>7
<1>9. /\ fold[0] = first
      /\ \A n \in 1 .. N : fold[n] = turn(fold[n - 1], list[n])
    <2> HIDE DEF fold
    <2>1. QED
        BY <1>1, <1>8
<1> HIDE DEF fold, N
<1>10. QED
    BY <1>1, <1>2, <1>9 DEF turn, list, first, N

\* Induction on the turns of a loop.
LEMMA TurnInduction ==
    ASSUME NEW N \in Nat, NEW S, 0 \in S,
           \A n \in Nat : n < N /\ n \in S => n + 1 \in S
    PROVE  \A n \in 0 .. N : n \in S
<1> DEFINE R == {n \in Nat : n <= N => n \in S}
<1>1. 0 \in R
    OBVIOUS
<1>2. \A n \in Nat : n \in R => n + 1 \in R
    OBVIOUS
<1> HIDE DEF R
<1>3. Nat \subseteq R
    BY <1>1, <1>2, SetInduction
<1>4. QED
    BY <1>3 DEF R

-----------------------------------------------------------------------------
(* The lists that the loops run through. *)

\* A list after another one.
LEMMA ListAfterList ==
    ASSUME NEW S, NEW list \in Seq(S), NEW more \in Seq(S),
           NoRepeat(list), NoRepeat(more),
           ToSet(list) \cap ToSet(more) = {}
    PROVE  /\ list \o more \in Seq(S)
           /\ NoRepeat(list \o more)
           /\ ToSet(list \o more) = ToSet(list) \cup ToSet(more)
<1> DEFINE both == list \o more
           a == Len(list)
           b == Len(more)
<1>1. /\ both \in Seq(S)
      /\ Len(both) = a + b
      /\ a \in Nat /\ b \in Nat
      /\ \A i \in 1 .. a : both[i] = list[i]
      /\ \A i \in 1 .. a + b : i > a => both[i] = more[i - a]
    OBVIOUS
<1>2. /\ \A i \in 1 .. a : list[i] \in ToSet(list)
      /\ \A i \in 1 .. b : more[i] \in ToSet(more)
      /\ \A x \in ToSet(list) : \E i \in 1 .. a : list[i] = x
      /\ \A x \in ToSet(more) : \E i \in 1 .. b : more[i] = x
    BY DEF ToSet
<1>3. /\ \A i, j \in 1 .. a : list[i] = list[j] => i = j
      /\ \A i, j \in 1 .. b : more[i] = more[j] => i = j
    BY DEF NoRepeat
<1> HIDE DEF both, a, b
<1>4. \A i \in 1 .. a + b : i > a => i - a \in 1 .. b
    BY <1>1
<1>5. \A i \in 1 .. b : i + a \in 1 .. a + b /\ i + a > a /\ (i + a) - a = i
    BY <1>1
<1>6. ASSUME NEW i \in 1 .. a + b, NEW j \in 1 .. a + b, both[i] = both[j]
      PROVE  i = j
    <2>1. CASE i > a /\ j > a
        <3>1. more[i - a] = more[j - a]
            BY <1>1, <1>6, <2>1
        <3>2. i - a = j - a
            BY <1>3, <1>4, <2>1, <3>1
        <3>3. QED
            BY <1>1, <3>2
    <2>2. CASE ~(i > a) /\ ~(j > a)
        <3>1. i \in 1 .. a /\ j \in 1 .. a
            BY <1>1, <2>2
        <3>2. QED
            BY <1>1, <1>3, <1>6, <3>1
    <2>3. CASE i > a /\ ~(j > a)
        <3>1. j \in 1 .. a
            BY <1>1, <2>3
        <3>2. both[i] \in ToSet(more) /\ both[j] \in ToSet(list)
            BY <1>1, <1>2, <1>4, <2>3, <3>1
        <3>3. QED
            BY <1>6, <3>2
    <2>4. CASE ~(i > a) /\ j > a
        <3>1. i \in 1 .. a
            BY <1>1, <2>4
        <3>2. both[j] \in ToSet(more) /\ both[i] \in ToSet(list)
            BY <1>1, <1>2, <1>4, <2>4, <3>1
        <3>3. QED
            BY <1>6, <3>2
    <2>5. QED
        BY <2>1, <2>2, <2>3, <2>4
<1>7. NoRepeat(both)
    <2>1. DOMAIN both = 1 .. a + b
        BY <1>1
    <2>2. QED
        BY <1>6, <2>1 DEF NoRepeat
<1>8. ToSet(both) = ToSet(list) \cup ToSet(more)
    <2>1. ASSUME NEW i \in 1 .. a + b
          PROVE  both[i] \in ToSet(list) \cup ToSet(more)
        <3>1. CASE i > a
            BY <1>1, <1>2, <1>4, <3>1
        <3>2. CASE ~(i > a)
            <4>1. i \in 1 .. a
                BY <1>1, <3>2
            <4>2. QED
                BY <1>1, <1>2, <4>1
        <3>3. QED
            BY <3>1, <3>2
    <2>2. ASSUME NEW x \in ToSet(list) PROVE \E i \in 1 .. a + b : both[i] = x
        <3>1. PICK i \in 1 .. a : list[i] = x
            BY <1>2
        <3>2. i \in 1 .. a + b
            BY <1>1
        <3>3. QED
            BY <1>1, <3>1, <3>2
    <2>3. ASSUME NEW x \in ToSet(more) PROVE \E i \in 1 .. a + b : both[i] = x
        <3>1. PICK i \in 1 .. b : more[i] = x
            BY <1>2
        <3>2. both[i + a] = x
            BY <1>1, <1>5, <3>1
        <3>3. QED
            BY <1>5, <3>2
    <2>4. ToSet(both) = {both[i] : i \in 1 .. a + b}
        <3>1. DOMAIN both = 1 .. a + b
            BY <1>1
        <3>2. QED
            BY <3>1 DEF ToSet
    <2>5. QED
        BY <2>1, <2>2, <2>3, <2>4
<1>9. QED
    BY <1>1, <1>7, <1>8 DEF both

\* The indices of a vector in a list.
LEMMA IndicesListed ==
    ASSUME NEW f, Size(f) \in Nat
    PROVE  /\ Indices(f) \in Seq(IndexRange(Size(f)))
           /\ Len(Indices(f)) = Size(f)
           /\ \A n \in 1 .. Size(f) : Indices(f)[n] = n - 1
<1> DEFINE n == Size(f)
<1>1. Indices(f) = [i \in 1 .. n |-> i - 1]
    BY DEF Indices, IndicesBelow
<1> HIDE DEF n
<1>2. n \in Nat
    BY DEF n
<1>3. [i \in 1 .. n |-> i - 1] \in [1 .. n -> IndexRange(n)]
    BY <1>2 DEF IndexRange
<1>4. [i \in 1 .. n |-> i - 1] \in Seq(IndexRange(n))
    BY <1>2, <1>3
<1>5. QED
    BY <1>1, <1>2, <1>4 DEF n

\* The polygon vertices of one polygon in a list.
LEMMA CornersOfPolygon ==
    ASSUME NEW m, HasPolygons(m), NEW p \in Polygons(m)
    PROVE  LET list == [i \in 1 .. Size(m.polygons[p]) |-> <<p, i - 1>>]
           IN  /\ list \in Seq(PolygonVertices(m))
               /\ Len(list) = Size(m.polygons[p])
               /\ NoRepeat(list)
               /\ ToSet(list) = {x \in PolygonVertices(m) : x[1] = p}
<1> DEFINE n == Size(m.polygons[p])
           list == [i \in 1 .. n |-> <<p, i - 1>>]
<1>1. n \in Nat /\ DOMAIN m.polygons[p] = IndexRange(n)
    BY DEF HasPolygons, IsPolygon
<1>2. \A i \in 1 .. n : i - 1 \in IndexRange(n)
    BY <1>1 DEF IndexRange
<1>3. \A i \in 1 .. n : <<p, i - 1>> \in PolygonVertices(m)
    BY <1>1, <1>2, CornerIsPair
<1> HIDE DEF n
<1>4. list \in Seq(PolygonVertices(m)) /\ Len(list) = n
    BY <1>1, <1>3
<1>5. NoRepeat(list)
    BY <1>1 DEF NoRepeat
<1>6. ASSUME NEW x \in PolygonVertices(m), x[1] = p
      PROVE  \E i \in 1 .. n : list[i] = x
    <2>1. x = <<p, x[2]>> /\ x[2] \in IndexRange(n)
        BY <1>1, <1>6, CornerIsPair
    <2>2. x[2] + 1 \in 1 .. n /\ (x[2] + 1) - 1 = x[2]
        BY <1>1, <2>1 DEF IndexRange
    <2>3. list[x[2] + 1] = <<p, (x[2] + 1) - 1>>
        BY <2>2
    <2>4. QED
        BY <2>1, <2>2, <2>3
<1>7. ToSet(list) = {x \in PolygonVertices(m) : x[1] = p}
    <2>1. ToSet(list) = {list[i] : i \in 1 .. n}
        BY DEF ToSet
    <2>2. \A i \in 1 .. n : list[i] \in PolygonVertices(m) /\ list[i][1] = p
        BY <1>3
    <2> HIDE DEF list
    <2>3. QED
        BY <1>6, <2>1, <2>2
<1>8. QED
    BY <1>1, <1>4, <1>5, <1>7 DEF n

\* All polygon vertices, each once.
LEMMA CornersListed ==
    ASSUME NEW m, HasPolygons(m)
    PROVE  /\ PolygonVertexList(m) \in Seq(PolygonVertices(m))
           /\ NoRepeat(PolygonVertexList(m))
           /\ ToSet(PolygonVertexList(m)) = PolygonVertices(m)
<1> DEFINE np == Size(m.polygons)
           PV == PolygonVertices(m)
           corners(p) == [i \in 1 .. Size(m.polygons[p]) |-> <<p, i - 1>>]
           Good(list, n) == /\ list \in Seq(PV)
                            /\ NoRepeat(list)
                            /\ ToSet(list) = {x \in PV : x[1] < n}
<1>1. np \in Nat /\ Polygons(m) = IndexRange(np)
    BY DEF HasPolygons
<1>2. /\ Indices(m.polygons) \in Seq(IndexRange(np))
      /\ Len(Indices(m.polygons)) = np
      /\ \A n \in 1 .. np : Indices(m.polygons)[n] = n - 1
    BY <1>1, IndicesListed
<1>3. PICK f : /\ f[0] = <<>>
               /\ \A n \in 1 .. np : f[n] = f[n - 1] \o corners(n - 1)
               /\ PolygonVertexList(m) = f[np]
    <2>1. PICK f : /\ f[0] = <<>>
                   /\ \A n \in 1 .. Len(Indices(m.polygons)) :
                        f[n] = f[n - 1] \o corners(Indices(m.polygons)[n])
                   /\ PolygonVertexList(m) = f[Len(Indices(m.polygons))]
        BY <1>2, TurnsOfPolygonVertexList
    <2>2. QED
        BY <1>2, <2>1
<1>4. \A x \in PV : x[1] \in IndexRange(np)
    BY <1>1, CornerIsPair
<1>5. \A p \in IndexRange(np) :
        /\ corners(p) \in Seq(PV)
        /\ NoRepeat(corners(p))
        /\ ToSet(corners(p)) = {x \in PV : x[1] = p}
    BY <1>1, CornersOfPolygon
<1> HIDE DEF np, PV, corners
<1> DEFINE R == {n \in Nat : n <= np => Good(f[n], n)}
<1>6. 0 \in R
    <2>1. <<>> \in Seq(PV) /\ NoRepeat(<<>>) /\ ToSet(<<>>) = {}
        BY DEF NoRepeat, ToSet
    <2>2. {x \in PV : x[1] < 0} = {}
        BY <1>1, <1>4 DEF IndexRange
    <2>3. QED
        BY <1>3, <2>1, <2>2
<1>7. ASSUME NEW n \in Nat, n \in R
      PROVE  n + 1 \in R
    <2>1. SUFFICES ASSUME n + 1 <= np PROVE Good(f[n + 1], n + 1)
        OBVIOUS
    <2>2. n \in IndexRange(np) /\ n + 1 \in 1 .. np /\ (n + 1) - 1 = n
        BY <1>1, <2>1 DEF IndexRange
    <2>3. Good(f[n], n)
        BY <1>1, <1>7, <2>1
    <2>4. f[n + 1] = f[n] \o corners(n)
        BY <1>3, <2>2
    <2>5. /\ corners(n) \in Seq(PV)
          /\ NoRepeat(corners(n))
          /\ ToSet(corners(n)) = {x \in PV : x[1] = n}
        BY <1>5, <2>2
    <2>6. ToSet(f[n]) \cap ToSet(corners(n)) = {}
        BY <2>3, <2>5
    <2>7. /\ f[n + 1] \in Seq(PV)
          /\ NoRepeat(f[n + 1])
          /\ ToSet(f[n + 1]) = ToSet(f[n]) \cup ToSet(corners(n))
        BY <2>3, <2>4, <2>5, <2>6, ListAfterList
    <2>8. \A x \in PV : x[1] < n + 1 <=> x[1] < n \/ x[1] = n
        BY <1>1, <1>4 DEF IndexRange
    <2>9. ToSet(f[n + 1]) = {x \in PV : x[1] < n + 1}
        BY <2>3, <2>5, <2>7, <2>8
    <2>10. QED
        BY <2>7, <2>9
<1>8. np \in R
    <2> HIDE DEF R
    <2>1. Nat \subseteq R
        BY <1>6, <1>7, SetInduction
    <2>2. QED
        BY <1>1, <2>1
<1>9. Good(PolygonVertexList(m), np)
    BY <1>1, <1>3, <1>8
<1>10. {x \in PV : x[1] < np} = PV
    BY <1>1, <1>4 DEF IndexRange
<1>11. QED
    BY <1>9, <1>10 DEF PV

\* Some of them, each once.
LEMMA CornersInOrder ==
    ASSUME NEW m, HasPolygons(m), NEW S \in SUBSET PolygonVertices(m)
    PROVE  /\ InOrder(m, S) \in Seq(S)
           /\ NoRepeat(InOrder(m, S))
           /\ ToSet(InOrder(m, S)) = S
<1> DEFINE list == InOrder(m, S)
<1>1. /\ list \in Seq(PolygonVertices(m))
      /\ NoRepeat(list)
      /\ ToSet(list) = S
    <2> DEFINE l == PolygonVertexList(m)
               PV == PolygonVertices(m)
    <2>1. l \in Seq(PV) /\ NoRepeat(l) /\ ToSet(l) = PV /\ S \subseteq PV
        BY CornersListed
    <2>2. list = Kept(l, S)
        BY DEF InOrder
    <2> HIDE DEF l, PV, list
    <2>3. /\ Kept(l, S) \in Seq(PV)
          /\ NoRepeat(Kept(l, S))
          /\ ToSet(Kept(l, S)) = ToSet(l) \cap S
        BY <2>1, KeptList
    <2>4. ToSet(list) = S
        BY <2>1, <2>2, <2>3
    <2>5. QED
        BY <2>2, <2>3, <2>4 DEF PV
<1> HIDE DEF list
<1>2. \A n \in 1 .. Len(list) : list[n] \in S
    BY <1>1 DEF ToSet
<1>3. list \in Seq(S)
    BY <1>1, <1>2
<1>4. QED
    BY <1>1, <1>3 DEF list

\* What is kept of a list that may have an element several times.
LEMMA KeptElements ==
    ASSUME NEW T, NEW list \in Seq(T), NEW S
    PROVE  /\ Kept(list, S) \in Seq(T)
           /\ ToSet(Kept(list, S)) = ToSet(list) \cap S
<1> DEFINE N == Len(list)
<1>1. N \in Nat /\ \A n \in 1 .. N : list[n] \in T
    OBVIOUS
<1>2. PICK f : /\ f[0] = <<>>
               /\ \A n \in 1 .. N :
                    f[n] = (IF list[n] \in S THEN Append(f[n - 1], list[n])
                                             ELSE f[n - 1])
               /\ Kept(list, S) = f[N]
    <2>1. PICK f : KeptTurns(list, S, f)
        BY TurnsOfKept
    <2>2. QED
        BY <2>1 DEF KeptTurns
<1> DEFINE Good(n) == /\ f[n] \in Seq(T)
                      /\ ToSet(f[n]) = {list[i] : i \in 1 .. n} \cap S
           R == {n \in Nat : n <= N => Good(n)}
<1> HIDE DEF N
<1>3. 0 \in R
    <2>1. <<>> \in Seq(T) /\ ToSet(<<>>) = {}
        BY DEF ToSet
    <2>2. {list[i] : i \in 1 .. 0} = {}
        OBVIOUS
    <2>3. QED
        BY <1>2, <2>1, <2>2
<1>4. ASSUME NEW n \in Nat, n \in R
      PROVE  n + 1 \in R
    <2>1. SUFFICES ASSUME n + 1 <= N PROVE Good(n + 1)
        OBVIOUS
    <2>2. n + 1 \in 1 .. N /\ (n + 1) - 1 = n
        BY <1>1, <2>1
    <2>3. Good(n)
        BY <1>1, <1>4, <2>1
    <2>4. list[n + 1] \in T
        BY <1>1, <2>2
    <2>5. f[n + 1] = IF list[n + 1] \in S
                     THEN Append(f[n], list[n + 1]) ELSE f[n]
        BY <1>2, <2>2
    <2>6. {list[i] : i \in 1 .. n + 1}
            = {list[i] : i \in 1 .. n} \cup {list[n + 1]}
        <3>1. 1 .. n + 1 = (1 .. n) \cup {n + 1}
            OBVIOUS
        <3>2. QED
            BY <3>1
    <2>7. ToSet(Append(f[n], list[n + 1])) = ToSet(f[n]) \cup {list[n + 1]}
        <3> DEFINE l == f[n]
                   y == list[n + 1]
        <3>1. l \in Seq(T) /\ y \in T
            BY <2>3, <2>4
        <3> HIDE DEF l, y
        <3>2. /\ Len(Append(l, y)) = Len(l) + 1
              /\ DOMAIN Append(l, y) = 1 .. Len(l) + 1
              /\ DOMAIN l = 1 .. Len(l)
              /\ Len(l) \in Nat
              /\ \A i \in 1 .. Len(l) : Append(l, y)[i] = l[i]
              /\ Append(l, y)[Len(l) + 1] = y
            BY <3>1
        <3>3. 1 .. Len(l) + 1 = (1 .. Len(l)) \cup {Len(l) + 1}
            BY <3>2
        <3>4. QED
            <4>1. ToSet(Append(l, y)) = ToSet(l) \cup {y}
                BY <3>2, <3>3 DEF ToSet
            <4>2. QED
                BY <4>1 DEF l, y
    <2>8. CASE list[n + 1] \in S
        BY <2>3, <2>4, <2>5, <2>6, <2>7, <2>8
    <2>9. CASE list[n + 1] \notin S
        BY <2>3, <2>5, <2>6, <2>9
    <2>10. QED
        BY <2>8, <2>9
<1>5. N \in R
    <2> HIDE DEF R
    <2>1. Nat \subseteq R
        BY <1>3, <1>4, SetInduction
    <2>2. QED
        BY <1>1, <2>1
<1>6. ToSet(list) = {list[i] : i \in 1 .. N}
    BY DEF ToSet, N
<1>7. QED
    BY <1>1, <1>2, <1>5, <1>6

-----------------------------------------------------------------------------
(* Adjacencies that are set one by one. *)

\* Nothing but adjacencies changed from m to r.
SameButAdjacent(m, r) ==
    /\ HasFields(r)
    /\ r.polygons = m.polygons
    /\ r.around = m.around
    /\ r.cached = m.cached
    /\ r.enabled = m.enabled
    /\ r.edges = m.edges
    /\ HasPlaces(r)

\* do_set_polygon_adjacent() writes one adjacency.
LEMMA AdjacentIsSet ==
    ASSUME NEW m, HasFields(m), HasPolygons(m), HasPlaces(m),
           NEW x \in PolygonVertices(m), NEW p,
           NEW r, HasFields(r), r.polygons = m.polygons,
           r.adjacent = [m.adjacent EXCEPT ![x[1]][x[2]] = p]
    PROVE  /\ HasPlaces(r)
           /\ \A y \in PolygonVertices(m) : AdjacentOf(r, y) =
                IF y = x THEN p ELSE AdjacentOf(m, y)
<1>1. /\ x = <<x[1], x[2]>>
      /\ x[1] \in Polygons(m)
      /\ x[2] \in DOMAIN m.polygons[x[1]]
    BY CornerIsPair
<1>2. /\ m.adjacent = [q \in Polygons(m) |-> m.adjacent[q]]
      /\ \A q \in Polygons(m) :
            m.adjacent[q] = [i \in DOMAIN m.polygons[q] |-> m.adjacent[q][i]]
    BY DEF HasPlaces
<1>3. Polygons(r) = Polygons(m)
    BY DEF Polygons
<1>4. DOMAIN m.adjacent = Polygons(m)
      /\ \A q \in Polygons(m) : DOMAIN m.adjacent[q] = DOMAIN m.polygons[q]
    <2>1. DOMAIN [q \in Polygons(m) |-> m.adjacent[q]] = Polygons(m)
        OBVIOUS
    <2>2. DOMAIN m.adjacent = Polygons(m)
        BY <1>2, <2>1, Zenon
    <2>3. ASSUME NEW q \in Polygons(m)
          PROVE  DOMAIN m.adjacent[q] = DOMAIN m.polygons[q]
        <3>1. DOMAIN [i \in DOMAIN m.polygons[q] |-> m.adjacent[q][i]]
                = DOMAIN m.polygons[q]
            OBVIOUS
        <3>2. m.adjacent[q]
                = [i \in DOMAIN m.polygons[q] |-> m.adjacent[q][i]]
            BY <1>2
        <3>3. QED
            BY <3>1, <3>2, Zenon
    <2>4. QED
        BY <2>2, <2>3
<1>5. r.adjacent = [q \in Polygons(m) |->
            IF q = x[1] THEN [m.adjacent[q] EXCEPT ![x[2]] = p]
                        ELSE m.adjacent[q]]
    BY <1>1, <1>4
<1>6. ASSUME NEW q \in Polygons(m)
      PROVE  r.adjacent[q] = [i \in DOMAIN m.polygons[q] |->
                IF q = x[1] /\ i = x[2] THEN p ELSE m.adjacent[q][i]]
    <2>1. CASE q = x[1]
        <3>1. r.adjacent[q] = [m.adjacent[q] EXCEPT ![x[2]] = p]
            BY <1>5, <2>1
        <3>2. QED
            BY <1>4, <2>1, <3>1
    <2>2. CASE q # x[1]
        <3>1. r.adjacent[q] = m.adjacent[q]
            BY <1>5, <2>2
        <3>2. QED
            BY <1>2, <2>2, <3>1
    <2>3. QED
        BY <2>1, <2>2
<1>7. HasPlaces(r)
    <2>1. r.adjacent = [q \in Polygons(r) |-> r.adjacent[q]]
        BY <1>3, <1>5
    <2>2. \A q \in Polygons(r) :
            r.adjacent[q] = [i \in DOMAIN r.polygons[q] |-> r.adjacent[q][i]]
        BY <1>3, <1>6
    <2>3. QED
        BY <2>1, <2>2 DEF HasPlaces
<1>8. ASSUME NEW y \in PolygonVertices(m)
      PROVE  AdjacentOf(r, y) = IF y = x THEN p ELSE AdjacentOf(m, y)
    <2>1. /\ y = <<y[1], y[2]>>
          /\ y[1] \in Polygons(m)
          /\ y[2] \in DOMAIN m.polygons[y[1]]
        BY CornerIsPair
    <2>2. AdjacentOf(r, y) = IF y[1] = x[1] /\ y[2] = x[2]
                             THEN p ELSE m.adjacent[y[1]][y[2]]
        <3> DEFINE a == m.adjacent
                   ps == m.polygons
        <3>1. r.adjacent[y[1]] = [i \in DOMAIN ps[y[1]] |->
                IF y[1] = x[1] /\ i = x[2] THEN p ELSE a[y[1]][i]]
            BY <1>6, <2>1
        <3> HIDE DEF a, ps
        <3>2. y[2] \in DOMAIN ps[y[1]]
            BY <2>1 DEF ps
        <3>3. r.adjacent[y[1]][y[2]] = IF y[1] = x[1] /\ y[2] = x[2]
                                       THEN p ELSE a[y[1]][y[2]]
            BY <3>1, <3>2
        <3>4. QED
            BY <3>3 DEF AdjacentOf, a
    <2>3. y = x <=> y[1] = x[1] /\ y[2] = x[2]
        BY <1>1, <2>1
    <2>4. QED
        BY <2>2, <2>3 DEF AdjacentOf
<1>9. QED
    BY <1>7, <1>8

\* Setting one adjacency.
LEMMA OneIsSet ==
    ASSUME NEW m, HasFields(m), HasPolygons(m), HasPlaces(m),
           NEW x \in PolygonVertices(m), NEW p
    PROVE  LET r == DoSetPolygonAdjacent(m, x, p)
           IN  /\ SameButAdjacent(m, r)
               /\ \A y \in PolygonVertices(m) : AdjacentOf(r, y) =
                    IF y = x THEN p ELSE AdjacentOf(m, y)
<1> DEFINE r == DoSetPolygonAdjacent(m, x, p)
<1>1. /\ HasFields(r)
      /\ r.polygons = m.polygons
      /\ r.adjacent = [m.adjacent EXCEPT ![x[1]][x[2]] = p]
      /\ r.around = m.around
      /\ r.cached = m.cached
      /\ r.enabled = m.enabled
      /\ r.edges = m.edges
    BY DEF DoSetPolygonAdjacent, HasFields
<1> HIDE DEF r
<1>2. /\ HasPlaces(r)
      /\ \A y \in PolygonVertices(m) : AdjacentOf(r, y) =
            IF y = x THEN p ELSE AdjacentOf(m, y)
    BY <1>1, AdjacentIsSet
<1>3. SameButAdjacent(m, r)
    BY <1>1, <1>2 DEF SameButAdjacent
<1>4. QED
    BY <1>2, <1>3 DEF r

\* A mesh where only adjacencies changed has the same polygons.
LEMMA SameMesh ==
    ASSUME NEW m, HasPolygons(m), NEW r, SameButAdjacent(m, r)
    PROVE  /\ HasFields(r)
           /\ HasPolygons(r)
           /\ HasPlaces(r)
           /\ PolygonVertices(r) = PolygonVertices(m)
           /\ \A x : EdgeCycle(r, x) = EdgeCycle(m, x)
           /\ \A k : SameButAdjacent(r, k) => SameButAdjacent(m, k)
<1>1. Polygons(r) = Polygons(m) /\ Vertices(r) = Vertices(m)
    BY DEF SameButAdjacent, Polygons, Vertices
<1>2. HasPolygons(r)
    BY <1>1 DEF HasPolygons, SameButAdjacent
<1>3. /\ PolygonVertices(r) = PolygonVertices(m)
      /\ \A x : EdgeCycle(r, x) = EdgeCycle(m, x)
    BY SamePolygons DEF SameButAdjacent
<1>4. QED
    BY <1>2, <1>3 DEF SameButAdjacent

\* Setting two.
LEMMA TwoAreSet ==
    ASSUME NEW m, HasFields(m), HasPolygons(m), HasPlaces(m),
           NEW x \in PolygonVertices(m), NEW p,
           NEW y \in PolygonVertices(m), NEW q
    PROVE  LET r == DoSetPolygonAdjacent(DoSetPolygonAdjacent(m, x, p), y, q)
           IN  /\ SameButAdjacent(m, r)
               /\ \A z \in PolygonVertices(m) : AdjacentOf(r, z) =
                    IF z = y THEN q
                    ELSE IF z = x THEN p ELSE AdjacentOf(m, z)
<1> DEFINE a == DoSetPolygonAdjacent(m, x, p)
           r == DoSetPolygonAdjacent(a, y, q)
<1>1. /\ SameButAdjacent(m, a)
      /\ \A z \in PolygonVertices(m) : AdjacentOf(a, z) =
            IF z = x THEN p ELSE AdjacentOf(m, z)
    BY OneIsSet
<1> HIDE DEF a
<1>2. /\ HasFields(a)
      /\ HasPolygons(a)
      /\ HasPlaces(a)
      /\ PolygonVertices(a) = PolygonVertices(m)
      /\ \A k : SameButAdjacent(a, k) => SameButAdjacent(m, k)
    BY <1>1, SameMesh
<1>3. /\ SameButAdjacent(a, r)
      /\ \A z \in PolygonVertices(m) : AdjacentOf(r, z) =
            IF z = y THEN q ELSE AdjacentOf(a, z)
    BY <1>2, OneIsSet
<1> HIDE DEF r
<1>4. QED
    BY <1>1, <1>2, <1>3 DEF r, a

\* find_polygon_adjacent_edge() finds the edge of the adjacent polygon with the
\* same vertices, whatever its own adjacent is.
LEMMA EdgeIsFound ==
    ASSUME NEW m, HasPolygons(m), NEW x \in PolygonVertices(m),
           NEW y \in PolygonVertices(m), y[1] = AdjacentOf(m, x),
           EdgeCycle(m, y) = EdgeCycle(m, x)
    PROVE  FindPolygonAdjacentEdge(m, x) = y /\ ~IsOnBorder(m, x)
<1>1. y[1] \in Polygons(m)
    BY CornerIsPair
<1>2. ~IsOnBorder(m, x)
    BY <1>1 DEF IsOnBorder, HasPolygons, IndexRange, NoId
<1>3. \A z : z \in PolygonVerticesOf(m, {AdjacentOf(m, x)}) <=>
                z \in PolygonVertices(m) /\ z[1] = y[1]
    BY <1>1, CornerIsPair
<1>4. \A z : z \in MatchingEdges(m, x) <=> z = y
    BY <1>2, <1>3, EdgesApart DEF MatchingEdges
<1>5. MatchingEdges(m, x) = {y}
    BY <1>4
<1>6. FindPolygonAdjacentEdge(m, x) = y
    BY <1>5 DEF FindPolygonAdjacentEdge, FirstOf
<1>7. QED
    BY <1>2, <1>6

-----------------------------------------------------------------------------
(* The adjacencies of polygons that share an edge, while they are computed. *)

\* An edge is on border or has one across.
IsConnected(m, x) == IsOnBorder(m, x) \/ \E y : IsAcross(m, x, y)

\* All the edges with these vertices are.
IsSettled(m, cycle) ==
    \A x \in PolygonVertices(m) :
        EdgeCycle(m, x) = cycle => IsConnected(m, x)

\* Three edges in a chain: the first one has the second for adjacent, which has
\* the third, which is on border.
IsChain(m, x, y, z) ==
    /\ {x, y, z} \subseteq PolygonVertices(m)
    /\ EdgeCycle(m, y) = EdgeCycle(m, x)
    /\ EdgeCycle(m, z) = EdgeCycle(m, x)
    /\ x[1] # y[1]
    /\ y[1] # z[1]
    /\ x[1] # z[1]
    /\ AdjacentOf(m, x) = y[1]
    /\ AdjacentOf(m, y) = z[1]
    /\ IsOnBorder(m, z)
    /\ \A u \in PolygonVertices(m) \ {x, y} :
          EdgeCycle(m, u) = EdgeCycle(m, x) => IsConnected(m, u)

IsChained(m, x) == \E y, z : IsChain(m, x, y, z)

\* The edges of other vertices do not change when those of a cycle do.
LEMMA OthersStaySettled ==
    ASSUME NEW m, NEW r, HasPolygons(m), SameButAdjacent(m, r),
           NEW cycle,
           \A x \in PolygonVertices(m) : EdgeCycle(m, x) # cycle =>
                AdjacentOf(r, x) = AdjacentOf(m, x),
           NEW other, other # cycle
    PROVE  /\ IsSettled(m, other) => IsSettled(r, other)
           /\ \A x : EdgeCycle(m, x) = other /\ IsChained(m, x)
                        => IsChained(r, x)
<1>1. /\ PolygonVertices(r) = PolygonVertices(m)
      /\ \A x : EdgeCycle(r, x) = EdgeCycle(m, x)
    BY SameMesh
<1>2. ASSUME NEW u \in PolygonVertices(m), EdgeCycle(m, u) = other,
             IsConnected(m, u)
      PROVE  IsConnected(r, u)
    <2>1. CASE IsOnBorder(m, u)
        BY <1>2, <2>1 DEF IsConnected, IsOnBorder
    <2>2. CASE ~IsOnBorder(m, u)
        <3>1. PICK v : IsAcross(m, u, v)
            BY <1>2, <2>2 DEF IsConnected
        <3>2. EdgeCycle(m, v) = other /\ v \in PolygonVertices(m)
            BY <1>2, <3>1 DEF IsAcross
        <3>3. AdjacentOf(r, u) = AdjacentOf(m, u)
              /\ AdjacentOf(r, v) = AdjacentOf(m, v)
            BY <1>2, <3>2
        <3>4. IsAcross(r, u, v)
            BY <1>1, <3>1, <3>3 DEF IsAcross
        <3>5. QED
            BY <3>4 DEF IsConnected
    <2>3. QED
        BY <2>1, <2>2
<1>3. IsSettled(m, other) => IsSettled(r, other)
    BY <1>1, <1>2 DEF IsSettled
<1>4. ASSUME NEW x, EdgeCycle(m, x) = other, IsChained(m, x)
      PROVE  IsChained(r, x)
    <2>1. PICK y, z : IsChain(m, x, y, z)
        BY <1>4 DEF IsChained
    <2>2. \A u \in {x, y, z} : AdjacentOf(r, u) = AdjacentOf(m, u)
        BY <1>4, <2>1 DEF IsChain
    <2>3. \A u \in PolygonVertices(m) \ {x, y} :
            EdgeCycle(m, u) = EdgeCycle(m, x) => IsConnected(r, u)
        BY <1>2, <1>4, <2>1 DEF IsChain
    <2>4. IsChain(r, x, y, z)
        BY <1>1, <2>1, <2>2, <2>3 DEF IsChain, IsOnBorder
    <2>5. QED
        BY <2>4 DEF IsChained
<1>5. QED
    BY <1>3, <1>4

\* The last edge of a cycle that was met, and what is known of the others.
IsMet(m, last, cycle) ==
    IF cycle \in DOMAIN last
    THEN /\ last[cycle] \in PolygonVertices(m)
         /\ EdgeCycle(m, last[cycle]) = cycle
         /\ IsSettled(m, cycle) \/ IsChained(m, last[cycle])
    ELSE IsSettled(m, cycle)

\* The edge y has a for adjacent, and the other edges are settled.
IsLinked(m, y, a) ==
    /\ y \in PolygonVertices(m)
    /\ a \in PolygonVertices(m)
    /\ EdgeCycle(m, a) = EdgeCycle(m, y)
    /\ AdjacentOf(m, y) = a[1]
    /\ a[1] # y[1]
    /\ ~IsOnBorder(m, a)
    /\ \A u \in PolygonVertices(m) \ {y, a} :
          EdgeCycle(m, u) = EdgeCycle(m, y) =>
            IsOnBorder(m, u) \/ \E v : IsAcross(m, u, v) /\ v \notin {y, a}

\* The last edge met is on border, with all others settled, or has an adjacent.
LEMMA LastIsLinked ==
    ASSUME NEW m, HasPolygons(m), NEW y \in PolygonVertices(m),
           IsSettled(m, EdgeCycle(m, y)) \/ IsChained(m, y),
           ~IsOnBorder(m, y)
    PROVE  \E a : IsLinked(m, y, a)
<1> DEFINE cycle == EdgeCycle(m, y)
<1>1. ASSUME NEW u \in PolygonVertices(m)
      PROVE  u[1] # NoId
    <2>1. u[1] \in Polygons(m)
        BY CornerIsPair
    <2>2. QED
        BY <2>1 DEF HasPolygons, IndexRange, NoId
<1>2. CASE IsSettled(m, cycle)
    <2>1. PICK a : IsAcross(m, y, a)
        BY <1>2 DEF IsSettled, IsConnected
    <2>2. ~IsOnBorder(m, a)
        BY <1>1, <2>1 DEF IsAcross, IsOnBorder
    <2>3. ASSUME NEW u \in PolygonVertices(m) \ {y, a},
                 EdgeCycle(m, u) = cycle, ~IsOnBorder(m, u)
          PROVE  \E v : IsAcross(m, u, v) /\ v \notin {y, a}
        <3>1. PICK v : IsAcross(m, u, v)
            BY <1>2, <2>3 DEF IsSettled, IsConnected
        <3>2. ASSUME v = y PROVE FALSE
            <4>1. u[1] = a[1]
                BY <2>1, <3>1, <3>2 DEF IsAcross
            <4>2. u = a
                BY <2>1, <2>3, <4>1, EdgesApart DEF IsAcross
            <4>3. QED
                BY <2>3, <4>2
        <3>3. ASSUME v = a PROVE FALSE
            <4>1. u[1] = y[1]
                BY <2>1, <3>1, <3>3 DEF IsAcross
            <4>2. u = y
                BY <2>3, <4>1, EdgesApart
            <4>3. QED
                BY <2>3, <4>2
        <3>4. QED
            BY <3>1, <3>2, <3>3
    <2>4. IsLinked(m, y, a)
        BY <2>1, <2>2, <2>3 DEF IsLinked, IsAcross
    <2>5. QED
        BY <2>4
<1>3. CASE IsChained(m, y)
    <2>1. PICK a, b : IsChain(m, y, a, b)
        BY <1>3 DEF IsChained
    <2>2. a \in PolygonVertices(m) /\ b \in PolygonVertices(m)
        BY <2>1 DEF IsChain
    <2>3. ~IsOnBorder(m, a)
        BY <1>1, <2>1, <2>2 DEF IsChain, IsOnBorder
    <2>4. ASSUME NEW u \in PolygonVertices(m) \ {y, a},
                 EdgeCycle(m, u) = cycle, ~IsOnBorder(m, u)
          PROVE  \E v : IsAcross(m, u, v) /\ v \notin {y, a}
        <3>1. PICK v : IsAcross(m, u, v)
            BY <2>1, <2>4 DEF IsChain, IsConnected
        <3>2. ASSUME v = y PROVE FALSE
            <4>1. u[1] = a[1]
                BY <2>1, <3>1, <3>2 DEF IsAcross, IsChain
            <4>2. u = a
                BY <2>1, <2>2, <2>4, <4>1, EdgesApart DEF IsChain
            <4>3. QED
                BY <2>4, <4>2
        <3>3. ASSUME v = a PROVE FALSE
            <4>1. u[1] = b[1]
                BY <2>1, <3>1, <3>3 DEF IsAcross, IsChain
            <4>2. u = b
                BY <2>1, <2>2, <2>4, <4>1, EdgesApart DEF IsChain
            <4>3. QED
                BY <2>1, <2>4, <4>2 DEF IsChain
        <3>4. QED
            BY <3>1, <3>2, <3>3
    <2>5. IsLinked(m, y, a)
        BY <2>1, <2>2, <2>3, <2>4 DEF IsLinked, IsChain
    <2>6. QED
        BY <2>5
<1>4. QED
    BY <1>2, <1>3

\* Two edges on border that are connected: all stay settled.
LEMMA PairIsConnected ==
    ASSUME NEW m, HasFields(m), HasPolygons(m), HasPlaces(m),
           NEW x \in PolygonVertices(m), NEW y \in PolygonVertices(m),
           x # y, EdgeCycle(m, y) = EdgeCycle(m, x),
           IsOnBorder(m, x), IsOnBorder(m, y),
           IsSettled(m, EdgeCycle(m, x))
    PROVE  LET r == DoSetPolygonAdjacent(
                        DoSetPolygonAdjacent(m, x, y[1]), y, x[1])
           IN  /\ SameButAdjacent(m, r)
               /\ \A z \in PolygonVertices(m) \ {x, y} :
                    AdjacentOf(r, z) = AdjacentOf(m, z)
               /\ IsSettled(r, EdgeCycle(m, x))
<1> DEFINE r == DoSetPolygonAdjacent(
                    DoSetPolygonAdjacent(m, x, y[1]), y, x[1])
           cycle == EdgeCycle(m, x)
<1>1. /\ SameButAdjacent(m, r)
      /\ \A z \in PolygonVertices(m) : AdjacentOf(r, z) =
            IF z = y THEN x[1] ELSE IF z = x THEN y[1] ELSE AdjacentOf(m, z)
    BY TwoAreSet
<1> HIDE DEF r
<1>2. /\ PolygonVertices(r) = PolygonVertices(m)
      /\ \A z : EdgeCycle(r, z) = EdgeCycle(m, z)
    BY <1>1, SameMesh
<1>3. x[1] # y[1]
    BY EdgesApart
<1>4. IsAcross(r, x, y) /\ IsAcross(r, y, x)
    BY <1>1, <1>2, <1>3 DEF IsAcross
<1>5. ASSUME NEW u \in PolygonVertices(m) \ {x, y},
             EdgeCycle(m, u) = cycle, ~IsOnBorder(m, u)
      PROVE  \E v : IsAcross(r, u, v)
    <2>1. PICK v : IsAcross(m, u, v)
        BY <1>5 DEF IsSettled, IsConnected
    <2>2. u[1] \in Polygons(m)
        BY <1>5, CornerIsPair
    <2>3. u[1] # NoId
        BY <2>2 DEF HasPolygons, IndexRange, NoId
    <2>4. v \in PolygonVertices(m) \ {x, y}
        BY <2>1, <2>3 DEF IsAcross, IsOnBorder
    <2>5. IsAcross(r, u, v)
        BY <1>1, <1>2, <1>5, <2>1, <2>4 DEF IsAcross
    <2>6. QED
        BY <2>5
<1>6. \A u \in PolygonVertices(m) \ {x, y} :
        IsOnBorder(r, u) <=> IsOnBorder(m, u)
    BY <1>1 DEF IsOnBorder
<1>7. IsSettled(r, cycle)
    BY <1>2, <1>4, <1>5, <1>6 DEF IsSettled, IsConnected
<1>8. QED
    BY <1>1, <1>7 DEF r

\* A third edge: it starts a chain, and the edge that its adjacent had for
\* adjacent is disconnected.
LEMMA ThirdStartsChain ==
    ASSUME NEW m, HasFields(m), HasPolygons(m), HasPlaces(m),
           NEW x \in PolygonVertices(m), NEW y, NEW a, IsLinked(m, y, a),
           x # y, EdgeCycle(m, y) = EdgeCycle(m, x), IsOnBorder(m, x)
    PROVE  LET set == DoSetPolygonAdjacent(m, x, y[1])
               r == DoSetPolygonAdjacent(set, a, NoId)
           IN  /\ SameButAdjacent(m, r)
               /\ \A z \in PolygonVertices(m) \ {x, a} :
                    AdjacentOf(r, z) = AdjacentOf(m, z)
               /\ IsChained(r, x)
<1> DEFINE r == DoSetPolygonAdjacent(
                    DoSetPolygonAdjacent(m, x, y[1]), a, NoId)
           cycle == EdgeCycle(m, x)
<1>0. y \in PolygonVertices(m) /\ a \in PolygonVertices(m)
    BY DEF IsLinked
<1>1. /\ SameButAdjacent(m, r)
      /\ \A z \in PolygonVertices(m) : AdjacentOf(r, z) =
            IF z = a THEN NoId ELSE IF z = x THEN y[1] ELSE AdjacentOf(m, z)
    BY <1>0, TwoAreSet
<1> HIDE DEF r
<1>2. /\ PolygonVertices(r) = PolygonVertices(m)
      /\ \A z : EdgeCycle(r, z) = EdgeCycle(m, z)
    BY <1>1, SameMesh
<1>3. x # a /\ y # a
    BY DEF IsLinked
<1>4. x[1] # y[1] /\ x[1] # a[1]
    BY <1>0, <1>3, EdgesApart DEF IsLinked
<1>5. ASSUME NEW u \in PolygonVertices(m) \ {x, y},
             EdgeCycle(m, u) = cycle
      PROVE  IsConnected(r, u)
    <2>1. CASE u = a
        BY <1>0, <1>1, <2>1 DEF IsConnected, IsOnBorder
    <2>2. CASE u # a /\ IsOnBorder(m, u)
        BY <1>1, <1>5, <2>2 DEF IsConnected, IsOnBorder
    <2>3. CASE u # a /\ ~IsOnBorder(m, u)
        <3>1. PICK v : IsAcross(m, u, v) /\ v \notin {y, a}
            BY <1>5, <2>3 DEF IsLinked
        <3>2. u[1] \in Polygons(m)
            BY <1>5, CornerIsPair
        <3>3. u[1] # NoId
            BY <3>2 DEF HasPolygons, IndexRange, NoId
        <3>4. v # x
            BY <3>1, <3>3 DEF IsAcross, IsOnBorder
        <3>5. v \in PolygonVertices(m)
            BY <3>1 DEF IsAcross
        <3>6. AdjacentOf(r, v) = AdjacentOf(m, v)
              /\ AdjacentOf(r, u) = AdjacentOf(m, u)
            BY <1>1, <1>5, <2>3, <3>1, <3>4, <3>5
        <3>7. IsAcross(r, u, v)
            BY <1>2, <3>1, <3>6 DEF IsAcross
        <3>8. QED
            BY <3>7 DEF IsConnected
    <2>4. QED
        BY <2>1, <2>2, <2>3
<1>6. /\ AdjacentOf(r, x) = y[1]
      /\ AdjacentOf(r, y) = a[1]
      /\ IsOnBorder(r, a)
    BY <1>0, <1>1, <1>3 DEF IsLinked, IsOnBorder
<1>7. IsChain(r, x, y, a)
    BY <1>0, <1>2, <1>4, <1>5, <1>6 DEF IsChain, IsLinked
<1>8. QED
    BY <1>1, <1>7 DEF r, IsChained

\* One polygon edge in compute_polygon_adjacencies().
LEMMA EdgeIsConnected ==
    ASSUME NEW w, HasFields(w.mesh), HasPolygons(w.mesh), HasPlaces(w.mesh),
           w = [mesh |-> w.mesh, last |-> w.last],
           \A cycle : IsMet(w.mesh, w.last, cycle),
           NEW x \in PolygonVertices(w.mesh),
           \A cycle \in DOMAIN w.last : w.last[cycle] # x
    PROVE  LET u == ConnectEdge(w, x)
           IN  /\ u = [mesh |-> u.mesh, last |-> u.last]
               /\ SameButAdjacent(w.mesh, u.mesh)
               /\ \A cycle : IsMet(u.mesh, u.last, cycle)
               /\ \A cycle \in DOMAIN u.last :
                    \/ u.last[cycle] = x
                    \/ /\ cycle \in DOMAIN w.last
                       /\ u.last[cycle] = w.last[cycle]
<1> DEFINE m == w.mesh
           last == w.last
           c == EdgeCycle(m, x)
           y == last[c]
           set == DoSetPolygonAdjacent(m, x, y[1])
           u == ConnectEdge(w, x)
           k == IF IsOnBorder(set, y)
                THEN DoSetPolygonAdjacent(set, y, x[1])
                ELSE DoSetPolygonAdjacent(
                        set, FindPolygonAdjacentEdge(set, y), NoId)
<1>1. u = IF ~IsOnBorder(m, x) THEN w
          ELSE IF c \notin DOMAIN last
          THEN [w EXCEPT !.last = Inserted(@, c, x)]
          ELSE [mesh |-> k, last |-> [last EXCEPT ![c] = x]]
    BY DEF ConnectEdge
<1> HIDE DEF u, k
<1>2. CASE ~IsOnBorder(m, x)
    <2>1. u = w
        BY <1>1, <1>2
    <2>2. SameButAdjacent(m, m)
        BY DEF SameButAdjacent
    <2>3. QED
        BY <2>1, <2>2 DEF u
<1>3. CASE IsOnBorder(m, x) /\ c \notin DOMAIN last
    <2>1. u.mesh = m /\ u.last = Inserted(last, c, x)
          /\ u = [mesh |-> u.mesh, last |-> u.last]
        BY <1>1, <1>3
    <2>2. SameButAdjacent(m, u.mesh)
        BY <2>1 DEF SameButAdjacent
    <2>3. /\ DOMAIN u.last = DOMAIN last \cup {c}
          /\ u.last[c] = x
          /\ \A d \in DOMAIN last : u.last[d] = last[d]
        BY <1>3, <2>1 DEF Inserted
    <2>4. ASSUME NEW d PROVE IsMet(u.mesh, u.last, d)
        <3>1. IsMet(m, last, d)
            OBVIOUS
        <3>2. CASE d = c
            BY <1>3, <2>1, <2>3, <3>1, <3>2 DEF IsMet
        <3>3. CASE d # c
            BY <2>1, <2>3, <3>1, <3>3 DEF IsMet
        <3>4. QED
            BY <3>2, <3>3
    <2>5. QED
        BY <2>1, <2>2, <2>3, <2>4 DEF u
<1>4. CASE IsOnBorder(m, x) /\ c \in DOMAIN last
    <2>1. u.mesh = k /\ u.last = [last EXCEPT ![c] = x]
          /\ u = [mesh |-> u.mesh, last |-> u.last]
        BY <1>1, <1>4
    <2>2. /\ y \in PolygonVertices(m)
          /\ EdgeCycle(m, y) = c
          /\ IsSettled(m, c) \/ IsChained(m, y)
          /\ x # y
        BY <1>4 DEF IsMet
    <2>3. SameButAdjacent(m, set)
          /\ \A z \in PolygonVertices(m) : AdjacentOf(set, z) =
                IF z = x THEN y[1] ELSE AdjacentOf(m, z)
        BY OneIsSet
    <2>4. IsOnBorder(set, y) <=> IsOnBorder(m, y)
        BY <2>2, <2>3 DEF IsOnBorder
    <2>5. /\ SameButAdjacent(m, k)
          /\ \A z \in PolygonVertices(m) : EdgeCycle(m, z) # c =>
                AdjacentOf(k, z) = AdjacentOf(m, z)
          /\ IsSettled(k, c) \/ IsChained(k, x)
        <3>1. CASE IsOnBorder(m, y)
            <4>1. k = DoSetPolygonAdjacent(set, y, x[1])
                BY <2>4, <3>1 DEF k
            <4>2. ~IsChained(m, y)
                <5>1. SUFFICES ASSUME NEW a, NEW b, IsChain(m, y, a, b)
                               PROVE  FALSE
                    BY DEF IsChained
                <5>2. a[1] \in Polygons(m)
                    BY <5>1, CornerIsPair DEF IsChain
                <5>3. QED
                    BY <3>1, <5>1, <5>2
                    DEF IsChain, IsOnBorder, HasPolygons, IndexRange, NoId
            <4>3. /\ SameButAdjacent(m, k)
                  /\ \A z \in PolygonVertices(m) \ {x, y} :
                        AdjacentOf(k, z) = AdjacentOf(m, z)
                  /\ IsSettled(k, c)
                BY <1>4, <2>2, <3>1, <4>1, <4>2, PairIsConnected
            <4>4. QED
                BY <2>2, <4>3
        <3>2. CASE ~IsOnBorder(m, y)
            <4>1. PICK a : IsLinked(m, y, a)
                BY <2>2, <3>2, LastIsLinked
            <4>2. a \in PolygonVertices(m) /\ EdgeCycle(m, a) = c
                BY <2>2, <4>1 DEF IsLinked
            <4>3. FindPolygonAdjacentEdge(set, y) = a
                <5>1. /\ HasPolygons(set)
                      /\ PolygonVertices(set) = PolygonVertices(m)
                      /\ EdgeCycle(set, y) = EdgeCycle(m, y)
                      /\ EdgeCycle(set, a) = EdgeCycle(m, a)
                    BY <2>3, SameMesh
                <5>2. AdjacentOf(set, y) = a[1]
                    BY <2>2, <2>3, <4>1 DEF IsLinked
                <5> HIDE DEF set
                <5>3. QED
                    BY <2>2, <4>2, <5>1, <5>2, EdgeIsFound
            <4>4. k = DoSetPolygonAdjacent(set, a, NoId)
                BY <2>4, <3>2, <4>3 DEF k
            <4>5. /\ SameButAdjacent(m, k)
                  /\ \A z \in PolygonVertices(m) \ {x, a} :
                        AdjacentOf(k, z) = AdjacentOf(m, z)
                  /\ IsChained(k, x)
                BY <1>4, <2>2, <4>1, <4>4, ThirdStartsChain
            <4>6. QED
                BY <4>2, <4>5
        <3>3. QED
            BY <3>1, <3>2
    <2>6. /\ PolygonVertices(k) = PolygonVertices(m)
          /\ \A z : EdgeCycle(k, z) = EdgeCycle(m, z)
        BY <2>5, SameMesh
    <2>7. /\ DOMAIN u.last = DOMAIN last
          /\ u.last[c] = x
          /\ \A d \in DOMAIN last : d # c => u.last[d] = last[d]
        BY <1>4, <2>1
    <2> HIDE DEF set
    <2>8. ASSUME NEW d PROVE IsMet(k, u.last, d)
        <3>1. CASE d = c
            BY <1>4, <2>5, <2>6, <2>7, <3>1 DEF IsMet
        <3>2. CASE d # c
            <4>1. /\ IsSettled(m, d) => IsSettled(k, d)
                  /\ \A z : EdgeCycle(m, z) = d /\ IsChained(m, z)
                                => IsChained(k, z)
                BY <2>5, <3>2, OthersStaySettled
            <4>2. IsMet(m, last, d)
                OBVIOUS
            <4>3. QED
                BY <2>6, <2>7, <3>2, <4>1, <4>2 DEF IsMet
        <3>3. QED
            BY <3>1, <3>2
    <2>9. QED
        BY <2>1, <2>5, <2>7, <2>8 DEF u
<1>5. QED
    BY <1>2, <1>3, <1>4

\* The loop over the polygon edges.
LEMMA EdgesAreConnected ==
    ASSUME NEW m, HasFields(m), HasPolygons(m), HasPlaces(m),
           \A cycle : IsSettled(m, cycle),
           NEW edges \in Seq(PolygonVertices(m)), NoRepeat(edges)
    PROVE  LET w == ConnectEdges(m, edges)
           IN  /\ SameButAdjacent(m, w.mesh)
               /\ \A cycle : IsMet(w.mesh, w.last, cycle)
<1> DEFINE N == Len(edges)
           PV == PolygonVertices(m)
           Good(w, n) ==
                /\ w = [mesh |-> w.mesh, last |-> w.last]
                /\ SameButAdjacent(m, w.mesh)
                /\ \A cycle : IsMet(w.mesh, w.last, cycle)
                /\ \A cycle \in DOMAIN w.last :
                        \E i \in 1 .. n : w.last[cycle] = edges[i]
<1>1. N \in Nat /\ DOMAIN edges = 1 .. N /\ \A n \in 1 .. N : edges[n] \in PV
    OBVIOUS
<1>2. PICK f : /\ f[0] = [mesh |-> m, last |-> <<>>]
               /\ \A n \in 1 .. N : f[n] = ConnectEdge(f[n - 1], edges[n])
               /\ ConnectEdges(m, edges) = f[N]
    BY TurnsOfConnectEdges
<1>3. Good(f[0], 0)
    <2> DEFINE w == f[0]
    <2>1. w.mesh = m /\ w.last = <<>> /\ w = [mesh |-> w.mesh, last |-> w.last]
        BY <1>2
    <2>2. SameButAdjacent(m, m)
        BY DEF SameButAdjacent
    <2>3. DOMAIN w.last = {}
        BY <2>1
    <2> HIDE DEF w
    <2>4. \A cycle : IsMet(w.mesh, w.last, cycle)
        BY <2>1, <2>3 DEF IsMet
    <2>5. Good(w, 0)
        BY <2>1, <2>2, <2>3, <2>4
    <2>6. QED
        BY <2>5 DEF w
<1> HIDE DEF N, PV
<1>4. ASSUME NEW n \in Nat, n < N, Good(f[n], n)
      PROVE  Good(f[n + 1], n + 1)
    <2> DEFINE w == f[n]
               u == f[n + 1]
               x == edges[n + 1]
    <2>1. n + 1 \in 1 .. N /\ (n + 1) - 1 = n /\ n \in 0 .. N
        BY <1>1, <1>4
    <2>2. u = ConnectEdge(w, x) /\ x \in PV
        BY <1>1, <1>2, <2>1
    <2> HIDE DEF u
    <2>3. /\ HasFields(w.mesh)
          /\ HasPolygons(w.mesh)
          /\ HasPlaces(w.mesh)
          /\ PolygonVertices(w.mesh) = PV
          /\ \A k : SameButAdjacent(w.mesh, k) => SameButAdjacent(m, k)
        BY <1>4, SameMesh DEF PV
    <2>4. ASSUME NEW cycle \in DOMAIN w.last PROVE w.last[cycle] # x
        <3>1. PICK i \in 1 .. n : w.last[cycle] = edges[i]
            BY <1>4
        <3>2. i \in 1 .. N /\ i # n + 1
            BY <1>1, <2>1
        <3>3. QED
            BY <1>1, <2>1, <3>1, <3>2 DEF NoRepeat
    <2>5. /\ u = [mesh |-> u.mesh, last |-> u.last]
          /\ SameButAdjacent(w.mesh, u.mesh)
          /\ \A cycle : IsMet(u.mesh, u.last, cycle)
          /\ \A cycle \in DOMAIN u.last :
                \/ u.last[cycle] = x
                \/ cycle \in DOMAIN w.last /\ u.last[cycle] = w.last[cycle]
        <3> HIDE DEF w, x
        <3>1. /\ w = [mesh |-> w.mesh, last |-> w.last]
              /\ \A cycle : IsMet(w.mesh, w.last, cycle)
              /\ x \in PolygonVertices(w.mesh)
            BY <1>4, <2>2, <2>3 DEF w
        <3>2. QED
            BY <2>2, <2>3, <2>4, <3>1, EdgeIsConnected
    <2>6. ASSUME NEW cycle \in DOMAIN u.last
          PROVE  \E i \in 1 .. n + 1 : u.last[cycle] = edges[i]
        <3>1. CASE u.last[cycle] = x
            BY <2>1, <3>1
        <3>2. CASE cycle \in DOMAIN w.last /\ u.last[cycle] = w.last[cycle]
            <4>1. PICK i \in 1 .. n : w.last[cycle] = edges[i]
                BY <1>4, <3>2
            <4>2. i \in 1 .. n + 1
                OBVIOUS
            <4>3. QED
                BY <3>2, <4>1, <4>2
        <3>3. QED
            BY <2>5, <3>1, <3>2
    <2>7. SameButAdjacent(m, u.mesh)
        BY <2>3, <2>5
    <2>8. Good(u, n + 1)
        BY <2>5, <2>6, <2>7
    <2>9. QED
        BY <2>8 DEF u
<1> HIDE DEF Good
<1> DEFINE S == {n \in Nat : Good(f[n], n)}
<1>5. \A n \in 0 .. N : n \in S
    <2>1. 0 \in S
        BY <1>3
    <2>2. \A n \in Nat : n < N /\ n \in S => n + 1 \in S
        BY <1>4
    <2> HIDE DEF S
    <2>3. QED
        BY <1>1, <2>1, <2>2, TurnInduction
<1>6. Good(f[N], N)
    BY <1>1, <1>5
<1>7. QED
    BY <1>2, <1>6 DEF Good

\* The end of it, for one edge: its cycle is settled.
LEMMA EdgeIsSettled ==
    ASSUME NEW m, HasFields(m), HasPolygons(m), HasPlaces(m),
           NEW x \in PolygonVertices(m),
           IsSettled(m, EdgeCycle(m, x)) \/ IsChained(m, x)
    PROVE  LET r == DisconnectNonManifoldEdge(m, x)
           IN  /\ SameButAdjacent(m, r)
               /\ IsSettled(r, EdgeCycle(m, x))
               /\ \A z \in PolygonVertices(m) :
                    EdgeCycle(m, z) # EdgeCycle(m, x) =>
                        AdjacentOf(r, z) = AdjacentOf(m, z)
<1> DEFINE c == EdgeCycle(m, x)
           r == DisconnectNonManifoldEdge(m, x)
           f == FindPolygonAdjacentEdge(m, x)
<1>1. r = IF IsOnBorder(m, x) \/ AdjacentOf(m, f) \in {NoId, x[1]}
          THEN m
          ELSE DoSetPolygonAdjacent(DoSetPolygonAdjacent(m, x, NoId), f, NoId)
    BY DEF DisconnectNonManifoldEdge
<1>2. SameButAdjacent(m, m)
    BY DEF SameButAdjacent
<1> HIDE DEF r, f
<1>3. \A u \in PolygonVertices(m) : u[1] # NoId
    <2>1. TAKE u \in PolygonVertices(m)
    <2>2. u[1] \in Polygons(m)
        BY CornerIsPair
    <2>3. QED
        BY <2>2 DEF HasPolygons, IndexRange, NoId
<1>4. CASE IsSettled(m, c)
    <2>1. CASE IsOnBorder(m, x)
        BY <1>1, <1>2, <1>4, <2>1 DEF r
    <2>2. CASE ~IsOnBorder(m, x)
        <3>1. PICK y : IsAcross(m, x, y)
            BY <1>4, <2>2 DEF IsSettled, IsConnected
        <3>2. f = y
            BY <3>1, AcrossIsFound DEF f
        <3>3. AdjacentOf(m, f) = x[1]
            BY <3>1, <3>2 DEF IsAcross
        <3>4. r = m
            BY <1>1, <3>3
        <3>5. QED
            BY <1>2, <1>4, <3>4 DEF r
    <2>3. QED
        BY <2>1, <2>2
<1>5. CASE IsChained(m, x)
    <2>1. PICK y, z : IsChain(m, x, y, z)
        BY <1>5 DEF IsChained
    <2>2. /\ y \in PolygonVertices(m) /\ z \in PolygonVertices(m)
          /\ EdgeCycle(m, y) = c /\ EdgeCycle(m, z) = c
          /\ AdjacentOf(m, x) = y[1] /\ AdjacentOf(m, y) = z[1]
          /\ x[1] # z[1] /\ IsOnBorder(m, z)
        BY <2>1 DEF IsChain
    <2>3. f = y /\ ~IsOnBorder(m, x)
        BY <2>2, EdgeIsFound DEF f
    <2>4. r = DoSetPolygonAdjacent(DoSetPolygonAdjacent(m, x, NoId), y, NoId)
        BY <1>1, <1>3, <2>2, <2>3
    <2>5. /\ SameButAdjacent(m, r)
          /\ \A u \in PolygonVertices(m) : AdjacentOf(r, u) =
                IF u = y THEN NoId
                 ELSE IF u = x THEN NoId ELSE AdjacentOf(m, u)
        BY <2>2, <2>4, TwoAreSet
    <2>6. /\ PolygonVertices(r) = PolygonVertices(m)
          /\ \A u : EdgeCycle(r, u) = EdgeCycle(m, u)
        BY <2>5, SameMesh
    <2>7. ASSUME NEW u \in PolygonVertices(m), EdgeCycle(m, u) = c
          PROVE  IsConnected(r, u)
        <3>1. CASE u \in {x, y}
            BY <2>5, <3>1 DEF IsConnected, IsOnBorder
        <3>2. CASE u \notin {x, y} /\ IsOnBorder(m, u)
            BY <2>5, <2>7, <3>2 DEF IsConnected, IsOnBorder
        <3>3. CASE u \notin {x, y} /\ ~IsOnBorder(m, u)
            <4>1. PICK v : IsAcross(m, u, v)
                BY <2>1, <2>7, <3>3 DEF IsChain, IsConnected
            <4>2. v \in PolygonVertices(m) /\ AdjacentOf(m, v) = u[1]
                BY <4>1 DEF IsAcross
            <4>3. v # x
                BY <2>2, <2>7, <3>3, <4>2, EdgesApart
            <4>4. v # y
                <5>1. ASSUME v = y PROVE u = z
                    BY <2>2, <2>7, <4>2, <5>1, EdgesApart
                <5>2. QED
                    BY <2>2, <3>3, <5>1
            <4>5. IsAcross(r, u, v)
                BY <2>5, <2>6, <3>3, <4>1, <4>2, <4>3, <4>4 DEF IsAcross
            <4>6. QED
                BY <4>5 DEF IsConnected
        <3>4. QED
            BY <3>1, <3>2, <3>3
    <2>8. IsSettled(r, c)
        BY <2>6, <2>7 DEF IsSettled
    <2>9. \A u \in PolygonVertices(m) : EdgeCycle(m, u) # c =>
                AdjacentOf(r, u) = AdjacentOf(m, u)
        BY <2>2, <2>5
    <2>10. QED
        BY <2>5, <2>8, <2>9 DEF r
<1>6. QED
    BY <1>4, <1>5

\* The loop over the last edges that were met.
LEMMA EdgesAreSettled ==
    ASSUME NEW m, HasFields(m), HasPolygons(m), HasPlaces(m),
           NEW last, \A cycle : IsMet(m, last, cycle),
           NEW edges \in Seq({last[c] : c \in DOMAIN last}),
           ToSet(edges) = {last[c] : c \in DOMAIN last}
    PROVE  LET r == DisconnectNonManifoldEdges(m, edges)
           IN  /\ SameButAdjacent(m, r)
               /\ \A cycle : IsSettled(r, cycle)
<1> DEFINE N == Len(edges)
           Latest == {last[c] : c \in DOMAIN last}
           Good(r, n) ==
                /\ SameButAdjacent(m, r)
                /\ \A cycle : IsMet(r, last, cycle)
                /\ \A i \in 1 .. n : IsSettled(r, EdgeCycle(m, edges[i]))
<1>1. /\ N \in Nat
      /\ DOMAIN edges = 1 .. N
      /\ \A n \in 1 .. N : edges[n] \in Latest
    OBVIOUS
<1>2. PICK f : /\ f[0] = m
               /\ \A n \in 1 .. N :
                    f[n] = DisconnectNonManifoldEdge(f[n - 1], edges[n])
               /\ DisconnectNonManifoldEdges(m, edges) = f[N]
    BY TurnsOfDisconnectNonManifoldEdges
<1>3. Good(f[0], 0)
    BY <1>2 DEF SameButAdjacent
<1>4. \A y \in Latest : y \in PolygonVertices(m) /\ last[EdgeCycle(m, y)] = y
                        /\ EdgeCycle(m, y) \in DOMAIN last
    BY DEF IsMet
<1> HIDE DEF N, Latest
<1>5. ASSUME NEW n \in Nat, n < N, Good(f[n], n)
      PROVE  Good(f[n + 1], n + 1)
    <2> DEFINE k == f[n]
               r == f[n + 1]
               x == edges[n + 1]
               c == EdgeCycle(m, x)
    <2>1. n + 1 \in 1 .. N /\ (n + 1) - 1 = n
        BY <1>1, <1>5
    <2>2. r = DisconnectNonManifoldEdge(k, x) /\ x \in Latest
        BY <1>1, <1>2, <2>1
    <2>3. x \in PolygonVertices(m) /\ last[c] = x /\ c \in DOMAIN last
        BY <1>4, <2>2
    <2> HIDE DEF r, x
    <2>4. /\ HasFields(k)
          /\ HasPolygons(k)
          /\ HasPlaces(k)
          /\ PolygonVertices(k) = PolygonVertices(m)
          /\ \A y : EdgeCycle(k, y) = EdgeCycle(m, y)
          /\ \A l : SameButAdjacent(k, l) => SameButAdjacent(m, l)
        BY <1>5, SameMesh
    <2>5. IsSettled(k, c) \/ IsChained(k, x)
        BY <1>5, <2>3 DEF IsMet
    <2>6. /\ SameButAdjacent(k, r)
          /\ IsSettled(r, c)
          /\ \A z \in PolygonVertices(k) : EdgeCycle(k, z) # c =>
                AdjacentOf(r, z) = AdjacentOf(k, z)
        <3> HIDE DEF k
        <3>1. c = EdgeCycle(k, x) /\ x \in PolygonVertices(k)
            BY <2>3, <2>4
        <3>2. QED
            BY <2>2, <2>4, <2>5, <3>1, EdgeIsSettled
    <2>7. /\ PolygonVertices(r) = PolygonVertices(k)
          /\ \A y : EdgeCycle(r, y) = EdgeCycle(k, y)
        BY <2>4, <2>6, SameMesh
    <2>8. ASSUME NEW d, d # c
          PROVE  /\ IsSettled(k, d) => IsSettled(r, d)
                 /\ IsMet(r, last, d)
        <3>1. /\ IsSettled(k, d) => IsSettled(r, d)
              /\ \A z : EdgeCycle(k, z) = d /\ IsChained(k, z)
                            => IsChained(r, z)
            <4> HIDE DEF k, c
            <4>1. QED
                BY <2>4, <2>6, <2>8, OthersStaySettled
        <3>2. IsMet(k, last, d)
            BY <1>5
        <3>3. QED
            BY <2>7, <3>1, <3>2 DEF IsMet
    <2>9. IsMet(r, last, c)
        BY <2>3, <2>4, <2>6, <2>7 DEF IsMet
    <2>10. ASSUME NEW i \in 1 .. n + 1
           PROVE  IsSettled(r, EdgeCycle(m, edges[i]))
        <3>1. CASE i = n + 1
            BY <2>6, <3>1 DEF x
        <3>2. CASE i # n + 1
            <4>1. i \in 1 .. n
                BY <3>2
            <4>2. IsSettled(k, EdgeCycle(m, edges[i]))
                BY <1>5, <4>1
            <4>3. QED
                BY <2>6, <2>8, <4>2
        <3>3. QED
            BY <3>1, <3>2
    <2>11. SameButAdjacent(m, r)
        BY <2>4, <2>6
    <2>12. Good(r, n + 1)
        BY <2>8, <2>9, <2>10, <2>11
    <2>13. QED
        BY <2>12 DEF r
<1> HIDE DEF Good
<1> DEFINE S == {n \in Nat : Good(f[n], n)}
<1>6. \A n \in 0 .. N : n \in S
    <2>1. 0 \in S
        BY <1>3
    <2>2. \A n \in Nat : n < N /\ n \in S => n + 1 \in S
        BY <1>5
    <2> HIDE DEF S
    <2>3. QED
        BY <1>1, <2>1, <2>2, TurnInduction
<1>7. Good(f[N], N)
    BY <1>1, <1>6
<1>8. ASSUME NEW cycle PROVE IsSettled(f[N], cycle)
    <2>1. IsMet(f[N], last, cycle) /\ SameButAdjacent(m, f[N])
        BY <1>7 DEF Good
    <2>2. CASE cycle \notin DOMAIN last
        BY <2>1, <2>2 DEF IsMet
    <2>3. CASE cycle \in DOMAIN last
        <3>1. last[cycle] \in ToSet(edges) /\ EdgeCycle(m, last[cycle]) = cycle
            BY <2>3 DEF IsMet
        <3>2. PICK i \in 1 .. N : edges[i] = last[cycle]
            BY <1>1, <3>1 DEF ToSet
        <3>3. QED
            BY <1>7, <3>1, <3>2 DEF Good
    <2>4. QED
        BY <2>2, <2>3
<1>9. QED
    BY <1>2, <1>7, <1>8 DEF Good

\* Mutual adjacencies, edge by edge.
LEMMA AllAreSettled ==
    ASSUME NEW m, HasPlaces(m)
    PROVE  HasAdjacencies(m) <=> \A cycle : IsSettled(m, cycle)
BY DEF HasAdjacencies, IsSettled, IsConnected

\* compute_polygon_adjacencies() without edges.
LEMMA BordersAreConnected ==
    ASSUME NEW m, HasFields(m), HasPolygons(m), HasAdjacencies(m),
           NEW S \in SUBSET Polygons(m)
    PROVE  /\ SameButAdjacent(m, ConnectBorders(m, S))
           /\ HasAdjacencies(ConnectBorders(m, S))
<1> DEFINE edges == InOrder(m, PolygonVerticesOf(m, S))
           w == ConnectEdges(m, edges)
           Latest == {w.last[c] : c \in DOMAIN w.last}
           ends == InOrder(m, Latest)
           r == DisconnectNonManifoldEdges(w.mesh, ends)
<1>1. ConnectBorders(m, S) = r
    BY DEF ConnectBorders
<1>2. HasPlaces(m) /\ \A cycle : IsSettled(m, cycle)
    BY AllAreSettled DEF HasAdjacencies
<1>3. PolygonVerticesOf(m, S) \subseteq PolygonVertices(m)
    BY DEF PolygonVertices, PolygonVerticesOf
<1>4. edges \in Seq(PolygonVertices(m)) /\ NoRepeat(edges)
    <2>1. /\ edges \in Seq(PolygonVerticesOf(m, S))
          /\ NoRepeat(edges)
        BY <1>3, CornersInOrder
    <2> HIDE DEF edges
    <2>2. QED
        BY <1>3, <2>1
<1> HIDE DEF edges
<1>5. /\ SameButAdjacent(m, w.mesh)
      /\ \A cycle : IsMet(w.mesh, w.last, cycle)
    BY <1>2, <1>4, EdgesAreConnected
<1> HIDE DEF w
<1>6. /\ HasFields(w.mesh)
      /\ HasPolygons(w.mesh)
      /\ HasPlaces(w.mesh)
      /\ PolygonVertices(w.mesh) = PolygonVertices(m)
      /\ \A k : SameButAdjacent(w.mesh, k) => SameButAdjacent(m, k)
    BY <1>5, SameMesh
<1>7. Latest \subseteq PolygonVertices(m)
    BY <1>5, <1>6 DEF IsMet
<1>8. ends \in Seq(Latest) /\ ToSet(ends) = Latest
    BY <1>7, CornersInOrder
<1> HIDE DEF ends
<1>9. SameButAdjacent(w.mesh, r) /\ \A cycle : IsSettled(r, cycle)
    BY <1>5, <1>6, <1>8, EdgesAreSettled
<1> HIDE DEF r, Latest
<1>10. SameButAdjacent(m, r) /\ HasAdjacencies(r)
    BY <1>6, <1>9, AllAreSettled DEF SameButAdjacent
<1>11. QED
    BY <1>1, <1>10

\* What a list holds is finite.
LEMMA ListIsFinite ==
    ASSUME NEW T, NEW list \in Seq(T)
    PROVE  IsFiniteSet(ToSet(list))
<1> DEFINE N == Len(list)
           S == ToSet(list)
<1>1. N \in Nat /\ DOMAIN list = 1 .. N
    OBVIOUS
<1>2. IsFiniteSet(1 .. N)
    BY <1>1, FS_Interval
<1>3. S = {list[i] : i \in 1 .. N}
    BY <1>1 DEF ToSet
<1>4. list \in Surjection(1 .. N, S)
    <2>1. list \in [1 .. N -> S]
        BY <1>1, <1>3
    <2>2. QED
        BY <1>3, <2>1 DEF Surjection
<1>5. QED
    BY <1>2, <1>4, FS_Surjection

\* A mesh has finitely many polygon vertices.
LEMMA CornersAreFinite ==
    ASSUME NEW m, HasPolygons(m)
    PROVE  IsFiniteSet(PolygonVertices(m))
BY CornersListed, ListIsFinite

\* compute_polygon_adjacencies() with edges.
LEMMA PairsAreConnected ==
    ASSUME NEW m, HasFields(m), HasPolygons(m), HasAdjacencies(m)
    PROVE  LET r == ConnectByEdges(m, Polygons(m))
           IN  SameButAdjacent(m, r) /\ HasAdjacencies(r)
<1> DEFINE S == Polygons(m)
           r == ConnectByEdges(m, S)
           PV == PolygonVertices(m)
           Others(x) == {y \in PolygonVerticesOf(m, S) \ {x} :
                            EdgeCycle(m, y) = EdgeCycle(m, x)}
<1>1. /\ HasFields(r)
      /\ r.polygons = m.polygons
      /\ r.around = m.around
      /\ r.cached = m.cached
      /\ r.enabled = m.enabled
      /\ r.edges = m.edges
      /\ r.adjacent = [p \in Polygons(m) |->
            [i \in DOMAIN m.polygons[p] |->
                IF p \in S /\ Cardinality(Others(<<p, i>>)) = 1
                THEN (CHOOSE y \in Others(<<p, i>>) : TRUE)[1]
                ELSE m.adjacent[p][i]]]
    <2> DEFINE adjacent == [p \in Polygons(m) |->
            [i \in DOMAIN m.polygons[p] |->
                IF p \in S /\ Cardinality(Others(<<p, i>>)) = 1
                THEN (CHOOSE y \in Others(<<p, i>>) : TRUE)[1]
                ELSE m.adjacent[p][i]]]
    <2>1. r = [m EXCEPT !.adjacent = adjacent]
        BY DEF ConnectByEdges
    <2> HIDE DEF r, adjacent
    <2>2. /\ HasFields(r)
          /\ r.polygons = m.polygons
          /\ r.around = m.around
          /\ r.cached = m.cached
          /\ r.enabled = m.enabled
          /\ r.edges = m.edges
          /\ r.adjacent = adjacent
        BY <2>1 DEF HasFields
    <2>3. QED
        BY <2>2 DEF adjacent
<1>2. PolygonVerticesOf(m, S) = PV
    BY DEF PolygonVertices
<1> HIDE DEF r, PV
<1>3. /\ Polygons(r) = Polygons(m)
      /\ PolygonVertices(r) = PV
      /\ \A x : EdgeCycle(r, x) = EdgeCycle(m, x)
    BY <1>1, SamePolygons DEF PV
<1>4. HasPlaces(r)
    <2>1. r.adjacent = [p \in Polygons(r) |-> r.adjacent[p]]
        BY <1>1, <1>3
    <2>2. ASSUME NEW p \in Polygons(r)
          PROVE  r.adjacent[p] =
                    [i \in DOMAIN r.polygons[p] |-> r.adjacent[p][i]]
        <3> HIDE DEF Others
        <3>1. r.adjacent[p] = [i \in DOMAIN m.polygons[p] |->
                IF p \in S /\ Cardinality(Others(<<p, i>>)) = 1
                THEN (CHOOSE y \in Others(<<p, i>>) : TRUE)[1]
                ELSE m.adjacent[p][i]]
            BY <1>1, <1>3
        <3>2. QED
            BY <1>1, <3>1
    <2>3. QED
        BY <2>1, <2>2 DEF HasPlaces
<1>5. ASSUME NEW x \in PV
      PROVE  AdjacentOf(r, x) = IF Cardinality(Others(x)) = 1
                                THEN (CHOOSE y \in Others(x) : TRUE)[1]
                                ELSE AdjacentOf(m, x)
    <2>1. x = <<x[1], x[2]>> /\ x[1] \in S /\ x[2] \in DOMAIN m.polygons[x[1]]
        BY CornerIsPair DEF PV
    <2> HIDE DEF Others
    <2>2. r.adjacent[x[1]] = [i \in DOMAIN m.polygons[x[1]] |->
                IF x[1] \in S /\ Cardinality(Others(<<x[1], i>>)) = 1
                THEN (CHOOSE y \in Others(<<x[1], i>>) : TRUE)[1]
                ELSE m.adjacent[x[1]][i]]
        BY <1>1, <2>1
    <2>3. r.adjacent[x[1]][x[2]] =
                IF x[1] \in S /\ Cardinality(Others(<<x[1], x[2]>>)) = 1
                THEN (CHOOSE y \in Others(<<x[1], x[2]>>) : TRUE)[1]
                ELSE m.adjacent[x[1]][x[2]]
        BY <2>1, <2>2
    <2>4. QED
        BY <2>1, <2>3 DEF AdjacentOf
<1>6. ASSUME NEW x \in PV
      PROVE  /\ IsFiniteSet(Others(x))
             /\ \A y : y \in Others(x) <=>
                    y \in PV /\ y # x /\ EdgeCycle(m, y) = EdgeCycle(m, x)
    <2>1. Others(x) \subseteq PV
        BY <1>2
    <2>2. IsFiniteSet(PV)
        BY CornersAreFinite DEF PV
    <2>3. QED
        BY <1>2, <2>1, <2>2, FS_Subset
<1> HIDE DEF Others
<1>7. ASSUME NEW x \in PV, Cardinality(Others(x)) = 1
      PROVE  \E y \in PV : /\ Others(x) = {y}
                           /\ Others(y) = {x}
                           /\ Cardinality(Others(y)) = 1
    <2>1. PICK y : Others(x) = {y}
        BY <1>6, <1>7, FS_Singleton
    <2>2. y \in PV /\ y # x /\ EdgeCycle(m, y) = EdgeCycle(m, x)
        BY <1>6, <2>1
    <2>3. \A z : z \in Others(y) <=> z = x
        BY <1>6, <2>1, <2>2
    <2>4. Others(y) = {x}
        BY <2>3
    <2>5. QED
        BY <2>1, <2>2, <2>4, FS_Singleton
<1>8. ASSUME NEW x \in PV, ~IsOnBorder(r, x)
      PROVE  \E y : IsAcross(r, x, y)
    <2>1. CASE Cardinality(Others(x)) = 1
        <3>1. PICK y \in PV : /\ Others(x) = {y}
                              /\ Others(y) = {x}
                              /\ Cardinality(Others(y)) = 1
            BY <1>7, <2>1
        <3>2. EdgeCycle(m, y) = EdgeCycle(m, x) /\ y # x
            BY <1>6, <3>1
        <3>3. AdjacentOf(r, x) = y[1] /\ AdjacentOf(r, y) = x[1]
            BY <1>5, <2>1, <3>1
        <3>4. y[1] # x[1]
            BY <3>2, EdgesApart DEF PV
        <3>5. IsAcross(r, x, y)
            BY <1>3, <3>2, <3>3, <3>4 DEF IsAcross
        <3>6. QED
            BY <3>5
    <2>2. CASE Cardinality(Others(x)) # 1
        <3>1. AdjacentOf(r, x) = AdjacentOf(m, x)
            BY <1>5, <2>2
        <3>2. PICK y : IsAcross(m, x, y)
            BY <1>8, <3>1 DEF HasAdjacencies, IsOnBorder, PV
        <3>3. y \in PV /\ y # x /\ EdgeCycle(m, y) = EdgeCycle(m, x)
            BY <3>2 DEF IsAcross, PV
        <3>4. Cardinality(Others(y)) # 1
            <4>1. SUFFICES ASSUME Cardinality(Others(y)) = 1 PROVE FALSE
                OBVIOUS
            <4>2. PICK z \in PV : Others(y) = {z} /\ Cardinality(Others(z)) = 1
                BY <1>7, <3>3, <4>1
            <4>3. x \in Others(y)
                BY <1>6, <3>3
            <4>4. QED
                BY <2>2, <4>2, <4>3
        <3>5. AdjacentOf(r, y) = AdjacentOf(m, y)
            BY <1>5, <3>3, <3>4
        <3>6. IsAcross(r, x, y)
            BY <1>3, <3>1, <3>2, <3>5 DEF IsAcross, PV
        <3>7. QED
            BY <3>6
    <2>3. QED
        BY <2>1, <2>2
<1>9. HasAdjacencies(r)
    BY <1>3, <1>4, <1>8 DEF HasAdjacencies
<1>10. SameButAdjacent(m, r)
    BY <1>1, <1>4 DEF SameButAdjacent
<1>11. QED
    BY <1>9, <1>10 DEF r

\* A surface whose adjacencies are set, and stay mutual, is a surface.
LEMMA AdjacentKeepsSurface ==
    ASSUME NEW m, IsSurface(m), NEW r, SameButAdjacent(m, r), HasAdjacencies(r)
    PROVE  IsSurface(r)
<1>1. /\ HasFields(r)
      /\ r.polygons = m.polygons
      /\ r.around = m.around
      /\ r.cached = m.cached
      /\ r.enabled = m.enabled
    BY DEF SameButAdjacent
<1>2. /\ HasPolygons(m) /\ HasAround(m) /\ HasLists(m)
      /\ m.enabled \in BOOLEAN
    BY DEF IsSurface
<1>3. r.cached = [v \in DOMAIN m.cached |-> r.cached[v]]
    BY <1>1, <1>2 DEF HasLists
<1>4. HasPolygons(r) /\ HasAround(r) /\ HasLists(r)
    BY <1>1, <1>2, <1>3, SameLists
<1>5. QED
    BY <1>1, <1>2, <1>4 DEF IsSurface

\* A surface is one after compute_polygon_adjacencies().
LEMMA ComputeKeepsSurface ==
    ASSUME NEW m, IsSurface(m), NEW S \in SUBSET Polygons(m),
           m.enabled => S = Polygons(m)
    PROVE  IsSurface(ComputePolygonAdjacencies(m, S))
<1>1. HasFields(m) /\ HasPolygons(m) /\ HasAdjacencies(m)
    BY DEF IsSurface
<1>2. CASE m.enabled
    <2>1. ComputePolygonAdjacencies(m, S) = ConnectByEdges(m, Polygons(m))
        BY <1>2 DEF ComputePolygonAdjacencies
    <2>2. QED
        BY <1>1, <2>1, PairsAreConnected, AdjacentKeepsSurface
<1>3. CASE ~m.enabled
    <2>1. ComputePolygonAdjacencies(m, S) = ConnectBorders(m, S)
        BY <1>3 DEF ComputePolygonAdjacencies
    <2>2. QED
        BY <1>1, <2>1, BordersAreConnected, AdjacentKeepsSurface
<1>4. QED
    BY <1>2, <1>3

\* set_polygon_adjacent(): one adjacency, and the lists of two vertices.
LEMMA OneIsSetAndReset ==
    ASSUME NEW m, HasFields(m), HasPolygons(m), HasPlaces(m),
           NEW x \in PolygonVertices(m), NEW p
    PROVE  LET r == SetPolygonAdjacent(m, x, p)
           IN  /\ HasFields(r)
               /\ HasPolygons(r)
               /\ HasPlaces(r)
               /\ r.polygons = m.polygons
               /\ r.around = m.around
               /\ r.cached = [v \in DOMAIN m.cached |->
                    IF v \in EdgeCycle(m, x)
                    THEN NotComputed ELSE m.cached[v]]
               /\ r.enabled = m.enabled
               /\ r.edges = m.edges
               /\ PolygonVertices(r) = PolygonVertices(m)
               /\ \A z : EdgeCycle(r, z) = EdgeCycle(m, z)
               /\ \A z \in PolygonVertices(m) : AdjacentOf(r, z) =
                    IF z = x THEN p ELSE AdjacentOf(m, z)
<1> DEFINE a == ResetAround(m, EdgeCycle(m, x))
           r == SetPolygonAdjacent(m, x, p)
<1>1. /\ HasFields(a)
      /\ a.polygons = m.polygons
      /\ a.adjacent = m.adjacent
      /\ a.around = m.around
      /\ a.cached = [v \in DOMAIN m.cached |->
            IF v \in EdgeCycle(m, x) THEN NotComputed ELSE m.cached[v]]
      /\ a.enabled = m.enabled
      /\ a.edges = m.edges
    BY ResetFields
<1>2. r = DoSetPolygonAdjacent(a, x, p)
    BY DEF SetPolygonAdjacent, DoSetPolygonAdjacent
<1> HIDE DEF a, r
<1>3. /\ Polygons(a) = Polygons(m)
      /\ PolygonVertices(a) = PolygonVertices(m)
      /\ \A z : EdgeCycle(a, z) = EdgeCycle(m, z)
    BY <1>1, SamePolygons
<1>4. HasPolygons(a) /\ HasPlaces(a)
    <2>1. Vertices(a) = Vertices(m)
        BY <1>1 DEF Vertices
    <2>2. QED
        BY <1>1, <1>3, <2>1 DEF HasPolygons, HasPlaces
<1>5. /\ SameButAdjacent(a, r)
      /\ \A z \in PolygonVertices(a) : AdjacentOf(r, z) =
            IF z = x THEN p ELSE AdjacentOf(a, z)
    BY <1>1, <1>2, <1>3, <1>4, OneIsSet
<1>6. /\ HasFields(r)
      /\ HasPolygons(r)
      /\ HasPlaces(r)
      /\ PolygonVertices(r) = PolygonVertices(a)
      /\ \A z : EdgeCycle(r, z) = EdgeCycle(a, z)
    BY <1>4, <1>5, SameMesh
<1>7. \A z \in PolygonVertices(m) : AdjacentOf(r, z) =
            IF z = x THEN p ELSE AdjacentOf(m, z)
    <2>1. \A z : AdjacentOf(a, z) = AdjacentOf(m, z)
        BY <1>1 DEF AdjacentOf
    <2>2. QED
        BY <1>3, <1>5, <2>1
<1>8. QED
    BY <1>1, <1>3, <1>5, <1>6, <1>7 DEF r, SameButAdjacent

\* unset_polygon_adjacent() of an edge that is not on border.
LEMMA UnsetKeepsSurface ==
    ASSUME NEW m, IsSurface(m), NEW x \in PolygonVertices(m), ~IsOnBorder(m, x)
    PROVE  IsSurface(UnsetPolygonAdjacents(m, x))
<1> DEFINE y == PolygonAdjacentEdge(m, x)
           a == SetPolygonAdjacent(m, x, NoId)
           r == SetPolygonAdjacent(a, y, NoId)
           PV == PolygonVertices(m)
<1>1. UnsetPolygonAdjacents(m, x) = r
    BY DEF UnsetPolygonAdjacents
<1>2. /\ HasFields(m) /\ HasPolygons(m) /\ HasPlaces(m)
      /\ HasAround(m) /\ HasLists(m) /\ m.enabled \in BOOLEAN
      /\ \A z \in PV : ~IsOnBorder(m, z) => \E w : IsAcross(m, z, w)
    BY DEF IsSurface, HasAdjacencies
<1>3. IsAcross(m, x, y)
    <2>1. PICK w : IsAcross(m, x, w)
        BY <1>2
    <2>2. QED
        BY <1>2, <2>1, AcrossIsFound
<1>4. y \in PV /\ y[1] = AdjacentOf(m, x) /\ AdjacentOf(m, y) = x[1]
      /\ EdgeCycle(m, y) = EdgeCycle(m, x)
    BY <1>3 DEF IsAcross
<1>5. /\ HasFields(a)
      /\ HasPolygons(a)
      /\ HasPlaces(a)
      /\ a.polygons = m.polygons
      /\ a.around = m.around
      /\ a.cached = [v \in DOMAIN m.cached |->
            IF v \in EdgeCycle(m, x) THEN NotComputed ELSE m.cached[v]]
      /\ a.enabled = m.enabled
      /\ PolygonVertices(a) = PV
      /\ \A z : EdgeCycle(a, z) = EdgeCycle(m, z)
      /\ \A z \in PV : AdjacentOf(a, z) =
            IF z = x THEN NoId ELSE AdjacentOf(m, z)
    BY <1>2, OneIsSetAndReset
<1> HIDE DEF a, y
<1>6. y \in PolygonVertices(a)
    BY <1>4, <1>5
<1>7. /\ HasFields(r)
      /\ HasPlaces(r)
      /\ r.polygons = a.polygons
      /\ r.around = a.around
      /\ r.cached = [v \in DOMAIN a.cached |->
            IF v \in EdgeCycle(a, y) THEN NotComputed ELSE a.cached[v]]
      /\ r.enabled = a.enabled
      /\ PolygonVertices(r) = PolygonVertices(a)
      /\ \A z : EdgeCycle(r, z) = EdgeCycle(a, z)
      /\ \A z \in PolygonVertices(a) : AdjacentOf(r, z) =
            IF z = y THEN NoId ELSE AdjacentOf(a, z)
    BY <1>5, <1>6, OneIsSetAndReset
<1> HIDE DEF r
<1>8. /\ HasFields(r) /\ HasPlaces(r)
      /\ r.polygons = m.polygons /\ r.around = m.around
      /\ r.enabled = m.enabled
    BY <1>5, <1>7
<1>9. \A z \in PV : AdjacentOf(r, z) =
            IF z = y THEN NoId ELSE AdjacentOf(a, z)
    BY <1>5, <1>7
<1>10. /\ PolygonVertices(r) = PV
       /\ \A z : EdgeCycle(r, z) = EdgeCycle(m, z)
    BY <1>5, <1>7
<1>11. ASSUME NEW z \in PV, ~IsOnBorder(r, z)
       PROVE  \E w : IsAcross(r, z, w)
    <2>1. z # y /\ z # x /\ ~IsOnBorder(m, z)
        BY <1>5, <1>9, <1>11 DEF IsOnBorder
    <2>2. PICK w : IsAcross(m, z, w)
        BY <1>2, <2>1
    <2>3. w \in PV /\ AdjacentOf(m, w) = z[1]
          /\ EdgeCycle(m, w) = EdgeCycle(m, z)
        BY <2>2 DEF IsAcross
    <2>4. w # x
        BY <1>2, <1>4, <2>1, <2>3, EdgesApart
    <2>5. w # y
        BY <1>2, <1>4, <2>1, <2>3, EdgesApart
    <2>6. IsAcross(r, z, w)
        BY <1>5, <1>9, <1>10, <2>1, <2>2, <2>3, <2>4, <2>5 DEF IsAcross
    <2>7. QED
        BY <2>6
<1>12. HasAdjacencies(r)
    BY <1>8, <1>10, <1>11 DEF HasAdjacencies
<1>13. HasPolygons(r) /\ HasAround(r) /\ HasLists(r)
    <2>1. r.polygons = m.polygons /\ r.around = m.around
        BY <1>5, <1>8
    <2>2. r.cached = [v \in DOMAIN m.cached |-> r.cached[v]]
        BY <1>5, <1>7
    <2>3. \A v \in Vertices(m) : r.cached[v] \in {m.cached[v], NotComputed}
        BY <1>2, <1>5, <1>7 DEF HasLists
    <2>4. QED
        BY <1>2, <2>1, <2>2, <2>3, SameLists
<1>14. r.enabled \in BOOLEAN
    BY <1>2, <1>5, <1>8
<1>15. QED
    BY <1>1, <1>8, <1>12, <1>13, <1>14 DEF IsSurface

\* create_point()
LEMMA PointKeepsSurface ==
    ASSUME NEW m, IsSurface(m)
    PROVE  IsSurface(CreatePoint(m))
<1> DEFINE r == CreatePoint(m)
           n == Size(m.around)
<1>1. /\ HasFields(m) /\ HasPolygons(m) /\ HasAdjacencies(m)
      /\ HasAround(m) /\ HasLists(m) /\ m.enabled \in BOOLEAN
    BY DEF IsSurface
<1>2. /\ HasFields(r)
      /\ r.polygons = m.polygons
      /\ r.adjacent = m.adjacent
      /\ r.around = AppendElement(m.around, NoPolygonVertex)
      /\ r.cached = AppendElement(m.cached, NotComputed)
      /\ r.enabled = m.enabled
    <2>1. m = [polygons |-> m.polygons, adjacent |-> m.adjacent,
               around |-> m.around, cached |-> m.cached,
               enabled |-> m.enabled, edges |-> m.edges]
        BY <1>1 DEF HasFields
    <2>2. r = [m EXCEPT !.around = AppendElement(m.around, NoPolygonVertex),
                        !.cached = AppendElement(m.cached, NotComputed)]
        BY <2>1 DEF CreatePoint
    <2> HIDE DEF r
    <2>3. QED
        BY <2>1, <2>2 DEF HasFields
<1> HIDE DEF r, n
<1>3. n \in Nat /\ Vertices(m) = IndexRange(n)
      /\ DOMAIN m.around = IndexRange(n)
      /\ DOMAIN m.cached = IndexRange(n)
    BY <1>1 DEF HasPolygons, HasLists, Vertices, n
<1>4. /\ DOMAIN r.around = IndexRange(n + 1)
      /\ r.around[n] = NoPolygonVertex
      /\ \A v \in IndexRange(n) : r.around[v] = m.around[v]
      /\ IndexRange(n + 1) = IndexRange(n) \cup {n}
      /\ n \notin IndexRange(n)
    BY <1>2, <1>3, AppendedVector
<1>5. /\ DOMAIN r.cached = IndexRange(n + 1)
      /\ r.cached[n] = NotComputed
      /\ \A v \in IndexRange(n) : r.cached[v] = m.cached[v]
    BY <1>2, <1>3, AppendedVector
<1>6. /\ r.around = [v \in IndexRange(n + 1) |-> r.around[v]]
      /\ r.cached = [v \in IndexRange(n + 1) |-> r.cached[v]]
    <2>1. /\ r.around = [v \in DOMAIN r.around |-> r.around[v]]
          /\ r.cached = [v \in DOMAIN r.cached |-> r.cached[v]]
        BY <1>2 DEF AppendElement
    <2>2. QED
        BY <1>4, <1>5, <2>1
<1>7. n + 1 \in Nat /\ Size(r.around) = n + 1
      /\ Vertices(r) = IndexRange(n + 1)
    BY <1>3, <1>4, SizeOfVector DEF Vertices
<1>8. /\ Polygons(r) = Polygons(m)
      /\ PolygonVertices(r) = PolygonVertices(m)
      /\ \A x : /\ VertexOf(r, x) = VertexOf(m, x)
                /\ EdgeCycle(r, x) = EdgeCycle(m, x)
                /\ AdjacentOf(r, x) = AdjacentOf(m, x)
      /\ \A v : CornersAt(r, v) = CornersAt(m, v)
    BY <1>2, SamePolygons DEF AdjacentOf
<1>9. HasPolygons(r)
    <2>1. ASSUME NEW p \in Polygons(m)
          PROVE  IsPolygon(r.polygons[p], n + 1)
        <3>1. IsPolygon(m.polygons[p], n)
            BY <1>1 DEF HasPolygons, n
        <3>2. IndexRange(n) \subseteq IndexRange(n + 1)
            BY <1>4
        <3>3. QED
            BY <1>2, <3>1, <3>2 DEF IsPolygon
    <2>2. QED
        BY <1>1, <1>2, <1>7, <1>8, <2>1 DEF HasPolygons
<1>10. HasAdjacencies(r)
    <2>1. \A x, y : IsAcross(m, x, y) => IsAcross(r, x, y)
        BY <1>8 DEF IsAcross
    <2>2. QED
        BY <1>1, <1>2, <1>8, <2>1
        DEF HasAdjacencies, HasPlaces, IsOnBorder
<1>11. CornersAt(m, n) = {}
    BY <1>1, <1>3, <1>4, VertexIsKnown DEF CornersAt
<1>12. HasAround(r)
    <2>1. ASSUME NEW v \in IndexRange(n + 1) PROVE FindsPolygonAround(r, v)
        <3>1. CASE v = n
            BY <1>4, <1>8, <1>11, <3>1 DEF FindsPolygonAround
        <3>2. CASE v \in IndexRange(n)
            <4>1. FindsPolygonAround(m, v)
                BY <1>1, <1>3, <3>2 DEF HasAround
            <4>2. QED
                BY <1>4, <1>8, <3>2, <4>1 DEF FindsPolygonAround
        <3>3. QED
            BY <1>4, <3>1, <3>2
    <2>2. QED
        BY <1>6, <1>7, <2>1 DEF HasAround
<1>13. HasLists(r)
    <2>1. ASSUME NEW v \in IndexRange(n + 1) PROVE IsCached(r, v)
        <3>1. CASE v = n
            <4>1. NotComputed.computed = FALSE
                BY DEF NotComputed
            <4>2. r.cached[v] = NotComputed /\ r.cached[v].computed = FALSE
                BY <1>5, <3>1, <4>1
            <4>3. QED
                BY <4>2 DEF IsCached
        <3>2. CASE v \in IndexRange(n)
            <4>1. IsCached(m, v)
                BY <1>1, <1>3, <3>2 DEF HasLists
            <4>2. QED
                BY <1>5, <1>8, <3>2, <4>1 DEF IsCached, IsListAround
        <3>3. QED
            BY <1>4, <3>1, <3>2
    <2>2. QED
        BY <1>5, <1>6, <1>7, <2>1 DEF HasLists
<1>14. QED
    BY <1>1, <1>2, <1>9, <1>10, <1>12, <1>13 DEF IsSurface, r

\* Nothing but polygons around vertices changed from m to r.
SameButAround(m, r) ==
    /\ HasFields(r)
    /\ r.polygons = m.polygons
    /\ r.adjacent = m.adjacent
    /\ r.cached = m.cached
    /\ r.enabled = m.enabled
    /\ r.edges = m.edges
    /\ r.around = [v \in Vertices(m) |-> r.around[v]]

\* Polygon vertices that become the ones around their vertices.
LEMMA CornersAreAssociated ==
    ASSUME NEW m, HasFields(m), HasPolygons(m),
           m.around = [v \in Vertices(m) |-> m.around[v]],
           NEW corners \in Seq(PolygonVertices(m))
    PROVE  LET r == AssociateCorners(m, corners)
           IN  /\ SameButAround(m, r)
               /\ \A v \in Vertices(m) :
                    \/ r.around[v] = m.around[v]
                    \/ r.around[v] \in CornersAt(m, v) \cap ToSet(corners)
               /\ \A x \in ToSet(corners) :
                    r.around[VertexOf(m, x)] \in CornersAt(m, VertexOf(m, x))
<1> DEFINE N == Len(corners)
           PV == PolygonVertices(m)
           At(x) == CornersAt(m, VertexOf(m, x))
           Good(r, n) ==
                /\ SameButAround(m, r)
                /\ \A v \in Vertices(m) :
                        \/ r.around[v] = m.around[v]
                        \/ r.around[v] \in CornersAt(m, v) \cap ToSet(corners)
                /\ \A i \in 1 .. n :
                        r.around[VertexOf(m, corners[i])] \in At(corners[i])
<1>1. N \in Nat /\ DOMAIN corners = 1 .. N
      /\ \A n \in 1 .. N : corners[n] \in PV
    OBVIOUS
<1>2. PICK f : /\ f[0] = m
               /\ \A n \in 1 .. N : f[n] = AssociatePolygonVertex(
                    f[n - 1], corners[n], VertexOf(f[n - 1], corners[n]))
               /\ AssociateCorners(m, corners) = f[N]
    BY TurnsOfAssociateCorners
<1>3. Good(f[0], 0)
    BY <1>2 DEF SameButAround
<1>4. \A x \in PV : VertexOf(m, x) \in Vertices(m) /\ x \in At(x)
    BY VertexIsKnown DEF CornersAt
<1> HIDE DEF N, PV
<1>5. ASSUME NEW n \in Nat, n < N, Good(f[n], n)
      PROVE  Good(f[n + 1], n + 1)
    <2> DEFINE k == f[n]
               r == f[n + 1]
               x == corners[n + 1]
               v == VertexOf(m, x)
    <2>1. n + 1 \in 1 .. N /\ (n + 1) - 1 = n
        BY <1>1, <1>5
    <2>2. x \in PV /\ r = AssociatePolygonVertex(k, x, VertexOf(k, x))
        BY <1>1, <1>2, <2>1
    <2>3. VertexOf(k, x) = v
        BY <1>5 DEF SameButAround, VertexOf
    <2> HIDE DEF r
    <2>4. /\ HasFields(r)
          /\ r.polygons = k.polygons
          /\ r.adjacent = k.adjacent
          /\ r.around = [k.around EXCEPT ![v] = x]
          /\ r.cached = k.cached
          /\ r.enabled = k.enabled
          /\ r.edges = k.edges
        <3>1. HasFields(k)
            BY <1>5 DEF SameButAround
        <3>2. r = AssociatePolygonVertex(k, x, v)
            BY <2>2, <2>3
        <3> HIDE DEF k, x, v
        <3>3. QED
            BY <3>1, <3>2 DEF HasFields, AssociatePolygonVertex
    <2>5. r.around = [w \in Vertices(m) |-> IF w = v THEN x ELSE k.around[w]]
        <3>1. k.around = [w \in Vertices(m) |-> k.around[w]]
            BY <1>5 DEF SameButAround
        <3>2. DOMAIN [w \in Vertices(m) |-> k.around[w]] = Vertices(m)
            OBVIOUS
        <3>3. DOMAIN k.around = Vertices(m)
            BY <3>1, <3>2, Zenon
        <3>4. QED
            BY <2>4, <3>3
    <2>6. SameButAround(m, r)
        BY <1>5, <2>4, <2>5 DEF SameButAround
    <2>7. /\ v \in Vertices(m) /\ x \in CornersAt(m, v)
          /\ x \in ToSet(corners)
        BY <1>1, <1>4, <2>1, <2>2 DEF ToSet
    <2> HIDE DEF k, x, v
    <2>8. \A w \in Vertices(m) : r.around[w] = IF w = v THEN x ELSE k.around[w]
        BY <2>5
    <2>9. \A w \in Vertices(m) :
                \/ r.around[w] = m.around[w]
                \/ r.around[w] \in CornersAt(m, w) \cap ToSet(corners)
        BY <1>5, <2>7, <2>8 DEF k
    <2>10. ASSUME NEW i \in 1 .. n + 1
           PROVE  r.around[VertexOf(m, corners[i])] \in At(corners[i])
        <3>1. CASE i = n + 1
            BY <2>7, <2>8, <3>1 DEF x, v
        <3>2. CASE i # n + 1
            <4>1. i \in 1 .. n /\ i \in 1 .. N
                BY <1>1, <2>1, <3>2
            <4>2. k.around[VertexOf(m, corners[i])] \in At(corners[i])
                BY <1>5, <4>1 DEF k
            <4>3. VertexOf(m, corners[i]) \in Vertices(m)
                BY <1>1, <1>4, <4>1
            <4>4. QED
                BY <2>7, <2>8, <4>2, <4>3
        <3>3. QED
            BY <3>1, <3>2
    <2>11. Good(r, n + 1)
        BY <2>6, <2>9, <2>10
    <2>12. QED
        BY <2>11 DEF r
<1> HIDE DEF Good
<1> DEFINE S == {n \in Nat : Good(f[n], n)}
<1>6. \A n \in 0 .. N : n \in S
    <2>1. 0 \in S
        BY <1>3
    <2>2. \A n \in Nat : n < N /\ n \in S => n + 1 \in S
        BY <1>5
    <2> HIDE DEF S
    <2>3. QED
        BY <1>1, <2>1, <2>2, TurnInduction
<1>7. Good(f[N], N)
    BY <1>1, <1>6
<1>8. \A x \in ToSet(corners) : f[N].around[VertexOf(m, x)] \in At(x)
    BY <1>1, <1>7 DEF Good, ToSet
<1>9. QED
    BY <1>2, <1>7, <1>8 DEF Good

\* The polygon that create_polygon() adds, before the vertices know of it.
WithPolygon(m, vertices) ==
    [m EXCEPT
        !.polygons = AppendElement(@, vertices),
        !.adjacent = AppendElement(@, [i \in DOMAIN vertices |-> NoId])]

\* The polygons and the adjacencies with one polygon more.
LEMMA PolygonIsAdded ==
    ASSUME NEW m, HasFields(m), HasPolygons(m), HasAdjacencies(m),
           NEW vertices, IsPolygon(vertices, Size(m.around))
    PROVE  LET p == Size(m.polygons)
               r == WithPolygon(m, vertices)
               new == {<<p, i>> : i \in DOMAIN vertices}
           IN  /\ HasFields(r)
               /\ r.polygons = AppendElement(m.polygons, vertices)
               /\ r.around = m.around
               /\ r.cached = m.cached
               /\ r.enabled = m.enabled
               /\ r.edges = m.edges
               /\ HasPolygons(r)
               /\ HasAdjacencies(r)
               /\ p \in Nat
               /\ p \notin Polygons(m)
               /\ Polygons(r) = Polygons(m) \cup {p}
               /\ Size(r.polygons) = p + 1
               /\ r.polygons[p] = vertices
               /\ \A q \in Polygons(m) : r.polygons[q] = m.polygons[q]
               /\ PolygonVertices(r) = PolygonVertices(m) \cup new
               /\ \A x \in PolygonVertices(m) :
                    /\ VertexOf(r, x) = VertexOf(m, x)
                    /\ EdgeCycle(r, x) = EdgeCycle(m, x)
                    /\ AdjacentOf(r, x) = AdjacentOf(m, x)
<1> DEFINE p == Size(m.polygons)
           r == WithPolygon(m, vertices)
           new == {<<p, i>> : i \in DOMAIN vertices}
           none == [i \in DOMAIN vertices |-> NoId]
<1>1. /\ HasFields(r)
      /\ r.polygons = AppendElement(m.polygons, vertices)
      /\ r.adjacent = AppendElement(m.adjacent, none)
      /\ r.around = m.around
      /\ r.cached = m.cached
      /\ r.enabled = m.enabled
      /\ r.edges = m.edges
    <2>1. m = [polygons |-> m.polygons, adjacent |-> m.adjacent,
               around |-> m.around, cached |-> m.cached,
               enabled |-> m.enabled, edges |-> m.edges]
        BY DEF HasFields
    <2>2. r = [m EXCEPT !.polygons = AppendElement(m.polygons, vertices),
                        !.adjacent = AppendElement(m.adjacent, none)]
        BY <2>1 DEF WithPolygon
    <2> HIDE DEF r, none
    <2>3. QED
        BY <2>1, <2>2 DEF HasFields
<1> HIDE DEF r, none, p
<1>2. p \in Nat /\ Polygons(m) = IndexRange(p)
      /\ DOMAIN m.polygons = IndexRange(p)
    BY DEF HasPolygons, Polygons, p
<1>3. DOMAIN m.adjacent = IndexRange(p)
    <2>1. m.adjacent = [q \in Polygons(m) |-> m.adjacent[q]]
        BY DEF HasAdjacencies, HasPlaces
    <2>2. DOMAIN [q \in Polygons(m) |-> m.adjacent[q]] = Polygons(m)
        OBVIOUS
    <2>3. DOMAIN m.adjacent = Polygons(m)
        BY <2>1, <2>2, Zenon
    <2>4. QED
        BY <1>2, <2>3
<1>4. /\ DOMAIN r.polygons = IndexRange(p + 1)
      /\ r.polygons[p] = vertices
      /\ \A q \in IndexRange(p) : r.polygons[q] = m.polygons[q]
      /\ IndexRange(p + 1) = IndexRange(p) \cup {p}
      /\ p \notin IndexRange(p)
    BY <1>1, <1>2, AppendedVector
<1>5. /\ DOMAIN r.adjacent = IndexRange(p + 1)
      /\ r.adjacent[p] = none
      /\ \A q \in IndexRange(p) : r.adjacent[q] = m.adjacent[q]
    BY <1>1, <1>2, <1>3, AppendedVector
<1>6. Polygons(r) = IndexRange(p + 1) /\ Size(r.polygons) = p + 1
    BY <1>2, <1>4, SizeOfVector DEF Polygons
<1>7. Vertices(r) = Vertices(m)
    BY <1>1 DEF Vertices
<1>8. HasPolygons(r)
    <2>1. r.polygons = [q \in Polygons(r) |-> r.polygons[q]]
        BY <1>1, <1>4, <1>6 DEF AppendElement
    <2>2. \A q \in Polygons(r) : IsPolygon(r.polygons[q], Size(m.around))
        BY <1>2, <1>4, <1>6 DEF HasPolygons
    <2>3. p + 1 \in Nat
        BY <1>2
    <2>4. QED
        BY <1>1, <1>6, <1>7, <2>1, <2>2, <2>3 DEF HasPolygons
<1>9. PolygonVertices(r) = PolygonVertices(m) \cup new
    <2>1. \A q \in IndexRange(p) : DOMAIN r.polygons[q] = DOMAIN m.polygons[q]
        BY <1>4
    <2>2. ASSUME NEW x
          PROVE  x \in PolygonVertices(r) <=> x \in PolygonVertices(m) \cup new
        <3>1. x \in PolygonVertices(r) <=>
                /\ x = <<x[1], x[2]>>
                /\ x[1] \in Polygons(r)
                /\ x[2] \in DOMAIN r.polygons[x[1]]
            BY CornerIsPair
        <3>2. x \in PolygonVertices(m) <=>
                /\ x = <<x[1], x[2]>>
                /\ x[1] \in Polygons(m)
                /\ x[2] \in DOMAIN m.polygons[x[1]]
            BY CornerIsPair
        <3>3. x \in new <=> /\ x = <<x[1], x[2]>>
                            /\ x[1] = p
                            /\ x[2] \in DOMAIN vertices
            OBVIOUS
        <3> HIDE DEF new
        <3>4. QED
            BY <1>2, <1>4, <1>6, <2>1, <3>1, <3>2, <3>3
    <2> HIDE DEF new
    <2>3. QED
        BY <2>2
<1>10. ASSUME NEW x \in PolygonVertices(m)
       PROVE  /\ VertexOf(r, x) = VertexOf(m, x)
              /\ EdgeCycle(r, x) = EdgeCycle(m, x)
              /\ AdjacentOf(r, x) = AdjacentOf(m, x)
    <2>1. x[1] \in IndexRange(p)
        BY <1>2, CornerIsPair
    <2>2. r.polygons[x[1]] = m.polygons[x[1]]
          /\ r.adjacent[x[1]] = m.adjacent[x[1]]
        BY <1>4, <1>5, <2>1
    <2>3. NextPolygonVertex(r, x) = NextPolygonVertex(m, x)
        BY <2>2 DEF NextPolygonVertex
    <2>4. NextPolygonVertex(m, x)[1] = x[1]
        BY DEF NextPolygonVertex
    <2>5. VertexOf(r, NextPolygonVertex(r, x))
                = VertexOf(m, NextPolygonVertex(m, x))
        BY <2>2, <2>3, <2>4 DEF VertexOf
    <2>6. VertexOf(r, x) = VertexOf(m, x)
        BY <2>2 DEF VertexOf
    <2>7. QED
        BY <2>2, <2>5, <2>6 DEF EdgeCycle, AdjacentOf
<1>11. HasAdjacencies(r)
    <2>1. HasPlaces(r)
        <3>1. r.adjacent = [q \in Polygons(r) |-> r.adjacent[q]]
            BY <1>1, <1>5, <1>6 DEF AppendElement
        <3>2. ASSUME NEW q \in Polygons(r)
              PROVE  r.adjacent[q]
                        = [i \in DOMAIN r.polygons[q] |-> r.adjacent[q][i]]
            <4>1. CASE q = p
                BY <1>4, <1>5, <4>1 DEF none
            <4>2. CASE q \in IndexRange(p)
                <5>1. m.adjacent[q]
                        = [i \in DOMAIN m.polygons[q] |-> m.adjacent[q][i]]
                    BY <1>2, <4>2 DEF HasAdjacencies, HasPlaces
                <5>2. QED
                    BY <1>4, <1>5, <4>2, <5>1
            <4>3. QED
                BY <1>4, <1>6, <4>1, <4>2
        <3>3. QED
            BY <3>1, <3>2 DEF HasPlaces
    <2>2. ASSUME NEW x \in PolygonVertices(r), ~IsOnBorder(r, x)
          PROVE  \E y : IsAcross(r, x, y)
        <3>1. CASE x \in new
            <4>1. x[1] = p /\ x[2] \in DOMAIN vertices
                BY <3>1
            <4>2. AdjacentOf(r, x) = NoId
                BY <1>5, <4>1 DEF AdjacentOf, none
            <4>3. QED
                BY <2>2, <4>2 DEF IsOnBorder
        <3>2. CASE x \in PolygonVertices(m)
            <4>1. ~IsOnBorder(m, x)
                BY <1>10, <2>2, <3>2 DEF IsOnBorder
            <4>2. PICK y : IsAcross(m, x, y)
                BY <3>2, <4>1 DEF HasAdjacencies
            <4>3. IsAcross(r, x, y)
                BY <1>9, <1>10, <3>2, <4>2 DEF IsAcross
            <4>4. QED
                BY <4>3
        <3>3. QED
            BY <1>9, <3>1, <3>2
    <2>3. QED
        BY <2>1, <2>2 DEF HasAdjacencies
<1>12. QED
    BY <1>1, <1>2, <1>4, <1>6, <1>8, <1>9, <1>10, <1>11 DEF r, p

\* create_polygon()
LEMMA PolygonKeepsSurface ==
    ASSUME NEW m, IsSurface(m),
           NEW vertices, IsPolygon(vertices, Size(m.around))
    PROVE  LET r == CreatePolygon(m, vertices)
           IN  /\ IsSurface(r)
               /\ r.polygons = AppendElement(m.polygons, vertices)
               /\ Size(r.polygons) = Size(m.polygons) + 1
               /\ Size(r.around) = Size(m.around)
               /\ Vertices(r) = Vertices(m)
               /\ r.cached = m.cached
               /\ \A x \in PolygonVertices(m) :
                    /\ x \in PolygonVertices(r)
                    /\ r.polygons[x[1]] = m.polygons[x[1]]
                    /\ VertexOf(r, x) = VertexOf(m, x)
                    /\ EdgeCycle(r, x) = EdgeCycle(m, x)
                    /\ AdjacentOf(r, x) = AdjacentOf(m, x)
               /\ \A v \in Vertices(m) :
                    \/ r.around[v] = m.around[v]
                    \/ r.around[v] \notin PolygonVertices(m)
<1> DEFINE p == Size(m.polygons)
           c == WithPolygon(m, vertices)
           new == {<<p, i>> : i \in DOMAIN vertices}
           corners == [i \in 1 .. Size(vertices) |-> <<p, i - 1>>]
           a == AssociateCorners(c, corners)
           r == CreatePolygon(m, vertices)
<1>1. /\ HasFields(m) /\ HasPolygons(m) /\ HasAdjacencies(m)
      /\ HasAround(m) /\ HasLists(m) /\ m.enabled \in BOOLEAN
    BY DEF IsSurface
<1>2. /\ HasFields(c)
      /\ c.polygons = AppendElement(m.polygons, vertices)
      /\ c.around = m.around
      /\ c.cached = m.cached
      /\ c.enabled = m.enabled
      /\ HasPolygons(c)
      /\ HasAdjacencies(c)
      /\ Polygons(c) = Polygons(m) \cup {p}
      /\ Size(c.polygons) = p + 1
      /\ c.polygons[p] = vertices
      /\ p \notin Polygons(m)
      /\ \A q \in Polygons(m) : c.polygons[q] = m.polygons[q]
      /\ PolygonVertices(c) = PolygonVertices(m) \cup new
      /\ \A x \in PolygonVertices(m) :
            /\ VertexOf(c, x) = VertexOf(m, x)
            /\ EdgeCycle(c, x) = EdgeCycle(m, x)
            /\ AdjacentOf(c, x) = AdjacentOf(m, x)
    BY <1>1, PolygonIsAdded
<1>3. r = IF m.enabled
          THEN [a EXCEPT !.edges = AddFacets(@, EdgeCycles(c, {p}))]
          ELSE a
    BY DEF CreatePolygon, WithPolygon
<1> HIDE DEF c, r
<1>4. Vertices(c) = Vertices(m)
    BY <1>2 DEF Vertices
<1>5. /\ corners \in Seq(PolygonVertices(c))
      /\ ToSet(corners) = new
    <2>1. /\ corners \in Seq(PolygonVertices(c))
          /\ ToSet(corners) = {x \in PolygonVertices(c) : x[1] = p}
        BY <1>2, CornersOfPolygon
    <2>2. {x \in PolygonVertices(c) : x[1] = p} = new
        <3>1. \A x \in PolygonVertices(c) : x[1] = p => x \in new
            <4>1. TAKE x \in PolygonVertices(c)
            <4>2. HAVE x[1] = p
            <4>3. x = <<x[1], x[2]>> /\ x[2] \in DOMAIN c.polygons[x[1]]
                BY CornerIsPair
            <4>4. x = <<p, x[2]>> /\ x[2] \in DOMAIN vertices
                BY <1>2, <4>2, <4>3
            <4>5. QED
                BY <4>4
        <3>2. QED
            BY <1>2, <3>1
    <2> HIDE DEF corners, new
    <2>3. QED
        BY <2>1, <2>2
<1> HIDE DEF corners, p
<1>6. /\ SameButAround(c, a)
      /\ \A v \in Vertices(c) :
            \/ a.around[v] = c.around[v]
            \/ a.around[v] \in CornersAt(c, v) \cap ToSet(corners)
      /\ \A x \in ToSet(corners) :
            a.around[VertexOf(c, x)] \in CornersAt(c, VertexOf(c, x))
    <2>1. c.around = [v \in Vertices(c) |-> c.around[v]]
        BY <1>1, <1>2, <1>4 DEF HasAround
    <2>2. QED
        BY <1>2, <1>5, <2>1, CornersAreAssociated
<1> HIDE DEF a
<1>7. /\ HasFields(a)
      /\ a.polygons = c.polygons
      /\ a.adjacent = c.adjacent
      /\ a.cached = m.cached
      /\ a.enabled = m.enabled
      /\ a.around = [v \in Vertices(m) |-> a.around[v]]
    BY <1>2, <1>4, <1>6 DEF SameButAround
<1>8. /\ HasFields(r)
      /\ r.polygons = c.polygons
      /\ r.adjacent = c.adjacent
      /\ r.cached = m.cached
      /\ r.enabled = m.enabled
      /\ r.around = a.around
    <2> DEFINE edges == AddFacets(a.edges, EdgeCycles(c, {p}))
    <2>1. r = IF m.enabled THEN [a EXCEPT !.edges = edges] ELSE a
        BY <1>3
    <2> HIDE DEF edges
    <2>2. QED
        BY <1>7, <2>1 DEF HasFields
<1>9. Vertices(r) = Vertices(m) /\ Size(r.around) = Size(m.around)
      /\ r.around = [v \in Vertices(r) |-> r.around[v]]
    <2>1. DOMAIN r.around = Vertices(m)
        BY <1>7, <1>8
    <2>2. QED
        BY <1>7, <1>8, <2>1 DEF Vertices, Size
<1>10. /\ Polygons(r) = Polygons(c)
       /\ PolygonVertices(r) = PolygonVertices(c)
       /\ \A x : /\ VertexOf(r, x) = VertexOf(c, x)
                 /\ EdgeCycle(r, x) = EdgeCycle(c, x)
                 /\ AdjacentOf(r, x) = AdjacentOf(c, x)
       /\ \A v : CornersAt(r, v) = CornersAt(c, v)
    BY <1>8, SamePolygons DEF AdjacentOf
<1>11. HasPolygons(r)
    BY <1>2, <1>4, <1>8, <1>9, <1>10 DEF HasPolygons
<1>12. HasAdjacencies(r)
    <2>1. \A x, y : IsAcross(c, x, y) => IsAcross(r, x, y)
        BY <1>10 DEF IsAcross
    <2>2. /\ HasPlaces(c)
          /\ \A x \in PolygonVertices(c) :
                ~IsOnBorder(c, x) => \E y : IsAcross(c, x, y)
        BY <1>2 DEF HasAdjacencies
    <2>3. HasPlaces(r)
        BY <1>8, <1>10, <2>2 DEF HasPlaces
    <2>4. \A x \in PolygonVertices(r) :
                ~IsOnBorder(r, x) => \E y : IsAcross(r, x, y)
        BY <1>10, <2>1, <2>2 DEF IsOnBorder
    <2>5. QED
        BY <2>3, <2>4 DEF HasAdjacencies
<1>13. \A v : CornersAt(m, v) \subseteq CornersAt(c, v)
    BY <1>2 DEF CornersAt
<1>14. ASSUME NEW v \in Vertices(m) PROVE FindsPolygonAround(r, v)
    <2>1. FindsPolygonAround(m, v)
        BY <1>1 DEF HasAround
    <2>2. r.around[v] \in CornersAt(c, v) \cup {m.around[v]}
        BY <1>2, <1>4, <1>6, <1>8
    <2>3. CASE CornersAt(c, v) = {}
        <3>1. CornersAt(m, v) = {}
            BY <1>13, <2>3
        <3>2. QED
            BY <1>10, <2>1, <2>2, <2>3, <3>1 DEF FindsPolygonAround
    <2>4. CASE CornersAt(c, v) # {}
        <3>1. CASE CornersAt(m, v) # {}
            BY <1>10, <1>13, <2>1, <2>2, <2>4, <3>1 DEF FindsPolygonAround
        <3>2. CASE CornersAt(m, v) = {}
            <4>1. PICK x : x \in CornersAt(c, v)
                BY <2>4
            <4>2. x \notin PolygonVertices(m)
                BY <1>2, <3>2, <4>1 DEF CornersAt
            <4>3. x \in new /\ VertexOf(c, x) = v
                BY <1>2, <4>1, <4>2 DEF CornersAt
            <4>4. r.around[v] \in CornersAt(c, v)
                BY <1>5, <1>6, <1>8, <4>3
            <4>5. QED
                BY <1>10, <2>4, <4>4 DEF FindsPolygonAround
        <3>3. QED
            BY <3>1, <3>2
    <2>5. QED
        BY <2>3, <2>4
<1>15. HasAround(r)
    BY <1>9, <1>14 DEF HasAround
<1>16. HasLists(r)
    <2>1. ASSUME NEW v \in Vertices(m) PROVE IsCached(r, v)
        <3>1. IsCached(m, v)
            BY <1>1 DEF HasLists
        <3>2. \A list : IsListAround(m, v, list) => IsListAround(r, v, list)
            <4>1. SUFFICES ASSUME NEW list \in Seq(CornersAt(m, v))
                           PROVE  list \in Seq(CornersAt(r, v))
                BY DEF IsListAround
            <4>2. CornersAt(m, v) \subseteq CornersAt(r, v)
                BY <1>10, <1>13
            <4>3. QED
                BY <4>2
        <3>3. QED
            BY <1>8, <3>1, <3>2 DEF IsCached
    <2>2. QED
        BY <1>1, <1>8, <1>9, <2>1 DEF HasLists
<1>17. IsSurface(r)
    BY <1>1, <1>8, <1>11, <1>12, <1>15, <1>16 DEF IsSurface
<1>18. ASSUME NEW x \in PolygonVertices(m)
       PROVE  /\ x \in PolygonVertices(r)
              /\ r.polygons[x[1]] = m.polygons[x[1]]
              /\ VertexOf(r, x) = VertexOf(m, x)
              /\ EdgeCycle(r, x) = EdgeCycle(m, x)
              /\ AdjacentOf(r, x) = AdjacentOf(m, x)
    <2>1. x[1] \in Polygons(m)
        BY CornerIsPair
    <2>2. r.polygons[x[1]] = m.polygons[x[1]]
        BY <1>2, <1>8, <2>1
    <2>3. QED
        BY <1>2, <1>10, <2>2
<1>19. ASSUME NEW v \in Vertices(m)
       PROVE  \/ r.around[v] = m.around[v]
              \/ r.around[v] \notin PolygonVertices(m)
    <2>1. \A x \in new : x[1] = p
        OBVIOUS
    <2>2. \A x \in PolygonVertices(m) : x[1] \in Polygons(m)
        BY CornerIsPair
    <2>3. \A x \in PolygonVertices(m) : x \notin new
        BY <1>2, <2>1, <2>2
    <2> HIDE DEF new
    <2>4. r.around[v] = m.around[v] \/ r.around[v] \in new
        BY <1>2, <1>4, <1>5, <1>6, <1>8
    <2>5. QED
        BY <2>3, <2>4
<1>20. QED
    BY <1>2, <1>8, <1>9, <1>17, <1>18, <1>19 DEF r, p

\* Meshes that differ by their lists, and by their edges.
LEMMA SurfaceWithLists ==
    ASSUME NEW m, IsSurface(m), NEW r, HasFields(r),
           r.polygons = m.polygons, r.adjacent = m.adjacent,
           r.around = m.around, r.enabled \in BOOLEAN,
           r.cached = [v \in Vertices(m) |-> r.cached[v]],
           \A v \in Vertices(m) : r.cached[v] \in {m.cached[v], NotComputed}
    PROVE  IsSurface(r)
<1>1. HasPolygons(m) /\ HasAdjacencies(m) /\ HasAround(m) /\ HasLists(m)
    BY DEF IsSurface
<1>2. r.cached = [v \in DOMAIN m.cached |-> r.cached[v]]
    BY <1>1 DEF HasLists
<1>3. HasPolygons(r) /\ HasAround(r) /\ HasLists(r)
    BY <1>1, <1>2, SameLists
<1>4. /\ Polygons(r) = Polygons(m)
      /\ PolygonVertices(r) = PolygonVertices(m)
      /\ \A x : /\ EdgeCycle(r, x) = EdgeCycle(m, x)
                /\ AdjacentOf(r, x) = AdjacentOf(m, x)
    BY SamePolygons DEF AdjacentOf
<1>5. HasAdjacencies(r)
    <2>1. \A x, y : IsAcross(m, x, y) => IsAcross(r, x, y)
        BY <1>4 DEF IsAcross
    <2>2. QED
        BY <1>1, <1>4, <2>1 DEF HasAdjacencies, HasPlaces, IsOnBorder
<1>6. QED
    BY <1>3, <1>5 DEF IsSurface

\* A mesh of points.
LEMMA PointsAreSurface ==
    ASSUME NEW n \in Nat, NEW m, HasFields(m),
           m.polygons = <<>>, m.adjacent = <<>>, m.enabled = FALSE,
           m.around = [v \in IndexRange(n) |-> NoPolygonVertex],
           m.cached = [v \in IndexRange(n) |-> NotComputed]
    PROVE  IsSurface(m) /\ Vertices(m) = IndexRange(n) /\ Size(m.around) = n
           /\ Size(m.polygons) = 0
<1>1. DOMAIN m.polygons = {} /\ Polygons(m) = {}
    BY DEF Polygons
<1>2. Size(m.polygons) = 0 /\ IndexRange(0) = {}
    <2>1. IndexRange(0) = {}
        BY DEF IndexRange
    <2>2. QED
        BY <1>1, <2>1, SizeOfVector
<1>3. Vertices(m) = IndexRange(n) /\ Size(m.around) = n
    <2>1. DOMAIN m.around = IndexRange(n)
        OBVIOUS
    <2>2. QED
        BY <2>1, SizeOfVector DEF Vertices
<1>4. m.polygons = [p \in {} |-> m.polygons[p]]
      /\ m.adjacent = [p \in {} |-> m.adjacent[p]]
    OBVIOUS
<1>5. HasPolygons(m)
    BY <1>1, <1>2, <1>3, <1>4 DEF HasPolygons
<1>6. PolygonVertices(m) = {}
    BY <1>1, CornerIsPair
<1>7. HasAdjacencies(m)
    BY <1>1, <1>4, <1>6 DEF HasAdjacencies, HasPlaces
<1>8. \A v : CornersAt(m, v) = {}
    BY <1>6 DEF CornersAt
<1>9. HasAround(m)
    BY <1>3, <1>8 DEF HasAround, FindsPolygonAround
<1>10. HasLists(m)
    <2>1. NotComputed.computed = FALSE
        BY DEF NotComputed
    <2>2. \A v \in IndexRange(n) : /\ m.cached[v] = NotComputed
                                   /\ m.cached[v].computed = FALSE
        BY <2>1
    <2>3. \A v \in IndexRange(n) : IsCached(m, v)
        BY <2>2 DEF IsCached
    <2>4. QED
        BY <1>3, <2>2, <2>3 DEF HasLists
<1>11. QED
    BY <1>2, <1>3, <1>5, <1>7, <1>9, <1>10 DEF IsSurface

\* copy()
LEMMA CopyKeepsSurface ==
    ASSUME NEW m, IsSurface(m)
    PROVE  LET r == CopyMesh(m)
           IN  /\ IsSurface(r)
               /\ r.polygons = m.polygons
               /\ r.around = m.around
               /\ r.enabled = m.enabled
               /\ r.edges = m.edges
               /\ Vertices(r) = Vertices(m)
               /\ \A v \in Vertices(m) : r.cached[v] = NotComputed
<1> DEFINE np == Size(m.polygons)
           nv == Size(m.around)
           points == [EmptyMesh EXCEPT
                !.around = [v \in Vertices(m) |-> NoPolygonVertex],
                !.cached = [v \in Vertices(m) |-> NotComputed]]
           polygons == [n \in 1 .. np |-> m.polygons[n - 1]]
           copies == CreateCopies(points, polygons)
           r == CopyMesh(m)
           T == {m.polygons[p] : p \in Polygons(m)}
           reset == [v \in Vertices(m) |-> NotComputed]
           Good(k, n) ==
                /\ IsSurface(k)
                /\ k.polygons = [q \in IndexRange(n) |-> m.polygons[q]]
                /\ Size(k.polygons) = n
                /\ Size(k.around) = nv
                /\ k.cached = reset
<1>1. HasFields(m) /\ HasPolygons(m) /\ m.enabled \in BOOLEAN /\ HasAround(m)
    BY DEF IsSurface
<1>2. /\ np \in Nat /\ nv \in Nat
      /\ Polygons(m) = IndexRange(np) /\ Vertices(m) = IndexRange(nv)
      /\ m.polygons = [q \in IndexRange(np) |-> m.polygons[q]]
      /\ \A p \in IndexRange(np) : IsPolygon(m.polygons[p], nv)
    BY <1>1 DEF HasPolygons
<1>3. r = [copies EXCEPT !.around = m.around, !.adjacent = m.adjacent,
                         !.enabled = m.enabled, !.edges = m.edges]
    BY DEF CopyMesh
<1>4. /\ HasFields(points)
      /\ points.polygons = <<>> /\ points.adjacent = <<>>
      /\ points.enabled = FALSE
      /\ points.around = [v \in Vertices(m) |-> NoPolygonVertex]
      /\ points.cached = reset
    <2> DEFINE none == [v \in Vertices(m) |-> NoPolygonVertex]
    <2>1. points = [EmptyMesh EXCEPT !.around = none, !.cached = reset]
        OBVIOUS
    <2> HIDE DEF points, none, reset
    <2>2. points = [polygons |-> <<>>, adjacent |-> <<>>, around |-> none,
                    cached |-> reset, enabled |-> FALSE,
                    edges |-> EmptyStorage]
        BY <2>1 DEF EmptyMesh
    <2>3. /\ points.polygons = <<>> /\ points.adjacent = <<>>
          /\ points.around = none /\ points.cached = reset
          /\ points.edges = EmptyStorage
        BY <2>2
    <2>4. points.enabled = FALSE
        BY <2>2
    <2>5. HasFields(points)
        BY <2>2 DEF HasFields
    <2>6. QED
        BY <2>3, <2>4, <2>5 DEF none
<1> HIDE DEF points, r, reset, copies
<1>5. IsSurface(points) /\ Size(points.around) = nv
      /\ Size(points.polygons) = 0
    BY <1>2, <1>4, PointsAreSurface DEF reset
<1> HIDE DEF np, nv
<1>6. polygons \in Seq(T) /\ Len(polygons) = np
    <2>1. \A n \in 1 .. np : n - 1 \in IndexRange(np)
        BY <1>2 DEF IndexRange
    <2>2. polygons \in [1 .. np -> T]
        BY <1>2, <2>1
    <2> HIDE DEF polygons, T
    <2>3. QED
        BY <1>2, <2>2
<1>7. PICK f : /\ f[0] = points
               /\ \A n \in 1 .. np :
                    f[n] = CreatePolygon(f[n - 1], polygons[n])
               /\ copies = f[np]
    <2> HIDE DEF polygons, T
    <2>1. PICK f : /\ f[0] = points
                   /\ \A n \in 1 .. Len(polygons) :
                        f[n] = CreatePolygon(f[n - 1], polygons[n])
                   /\ CreateCopies(points, polygons) = f[Len(polygons)]
        BY <1>6, TurnsOfCreateCopies
    <2>2. QED
        BY <1>6, <2>1 DEF copies, polygons
<1>8. Good(f[0], 0)
    <2>1. IndexRange(0) = {}
        BY DEF IndexRange
    <2>2. [q \in IndexRange(0) |-> m.polygons[q]] = <<>>
        BY <2>1
    <2>3. QED
        BY <1>4, <1>5, <1>7, <2>2
<1>9. ASSUME NEW n \in Nat, n < np, Good(f[n], n)
      PROVE  Good(f[n + 1], n + 1)
    <2> DEFINE k == f[n]
               c == f[n + 1]
    <2>1. n + 1 \in 1 .. np /\ (n + 1) - 1 = n /\ n \in IndexRange(np)
        BY <1>2, <1>9 DEF IndexRange
    <2>2. c = CreatePolygon(k, m.polygons[n])
        BY <1>7, <2>1
    <2>3. IsPolygon(m.polygons[n], Size(k.around))
        BY <1>2, <1>9, <2>1
    <2> HIDE DEF c
    <2>4. /\ IsSurface(c)
          /\ c.polygons = AppendElement(k.polygons, m.polygons[n])
          /\ Size(c.polygons) = n + 1
          /\ Size(c.around) = nv
          /\ c.cached = reset
        BY <1>9, <2>2, <2>3, PolygonKeepsSurface
    <2>5. c.polygons = [q \in IndexRange(n + 1) |-> m.polygons[q]]
        <3>1. DOMAIN k.polygons = IndexRange(n)
              /\ \A q \in IndexRange(n) : k.polygons[q] = m.polygons[q]
            BY <1>9
        <3>2. /\ DOMAIN c.polygons = IndexRange(n + 1)
              /\ c.polygons[n] = m.polygons[n]
              /\ \A q \in IndexRange(n) : c.polygons[q] = k.polygons[q]
              /\ IndexRange(n + 1) = IndexRange(n) \cup {n}
            BY <2>4, <3>1, AppendedVector
        <3>3. c.polygons = [q \in DOMAIN c.polygons |-> c.polygons[q]]
            BY <2>4 DEF AppendElement
        <3>4. \A q \in IndexRange(n + 1) : c.polygons[q] = m.polygons[q]
            BY <3>1, <3>2
        <3>5. QED
            BY <3>2, <3>3, <3>4
    <2>6. Good(c, n + 1)
        BY <2>4, <2>5
    <2>7. QED
        BY <2>6 DEF c
<1> HIDE DEF Good
<1> DEFINE S == {n \in Nat : Good(f[n], n)}
<1>10. \A n \in 0 .. np : n \in S
    <2>1. 0 \in S
        BY <1>8
    <2>2. \A n \in Nat : n < np /\ n \in S => n + 1 \in S
        BY <1>9
    <2> HIDE DEF S
    <2>3. QED
        BY <1>2, <2>1, <2>2, TurnInduction
<1>11. Good(copies, np)
    BY <1>2, <1>7, <1>10
<1>12. /\ HasFields(copies) /\ copies.polygons = m.polygons
       /\ copies.cached = reset
    BY <1>2, <1>11 DEF Good, IsSurface
<1>13. /\ HasFields(r)
       /\ r.polygons = m.polygons
       /\ r.adjacent = m.adjacent
       /\ r.around = m.around
       /\ r.cached = reset
       /\ r.enabled = m.enabled
       /\ r.edges = m.edges
    BY <1>3, <1>12 DEF HasFields
<1>14. /\ r.cached = [v \in Vertices(m) |-> r.cached[v]]
       /\ \A v \in Vertices(m) : r.cached[v] = NotComputed
    BY <1>13 DEF reset
<1>15. IsSurface(r)
    BY <1>1, <1>13, <1>14, SurfaceWithLists
<1>16. QED
    BY <1>13, <1>14, <1>15 DEF r, Vertices

\* Operations that change the edges only.
LEMMA EdgesKeepSurface ==
    ASSUME NEW m, IsSurface(m)
    PROVE  /\ IsSurface(EnableEdges(m))
           /\ IsSurface(DisableEdges(m))
           /\ IsSurface(DeleteIsolatedEdges(m))
<1>1. HasFields(m) /\ HasLists(m) /\ m.enabled \in BOOLEAN
    BY DEF IsSurface
<1>2. ASSUME NEW edges, NEW enabled \in BOOLEAN,
             NEW r, r = [m EXCEPT !.enabled = enabled, !.edges = edges]
      PROVE  IsSurface(r)
    <2>1. /\ HasFields(r)
          /\ r.polygons = m.polygons
          /\ r.adjacent = m.adjacent
          /\ r.around = m.around
          /\ r.cached = m.cached
          /\ r.enabled \in BOOLEAN
        BY <1>1, <1>2 DEF HasFields
    <2>2. /\ r.cached = [v \in Vertices(m) |-> r.cached[v]]
          /\ \A v \in Vertices(m) : r.cached[v] = m.cached[v]
        BY <1>1, <2>1 DEF HasLists
    <2>3. QED
        BY <2>1, <2>2, SurfaceWithLists
<1>3. IsSurface(EnableEdges(m))
    <2> DEFINE edges == AddFacets(EmptyStorage, EdgeCycles(m, Polygons(m)))
    <2>1. CASE m.enabled
        BY <2>1 DEF EnableEdges
    <2>2. CASE ~m.enabled
        <3>1. EnableEdges(m) = [m EXCEPT !.enabled = TRUE, !.edges = edges]
            BY <2>2 DEF EnableEdges
        <3> HIDE DEF edges
        <3>2. QED
            BY <1>2, <3>1
    <2>3. QED
        BY <2>1, <2>2
<1>4. IsSurface(DisableEdges(m))
    <2>1. DisableEdges(m)
            = [m EXCEPT !.enabled = FALSE, !.edges = EmptyStorage]
        BY DEF DisableEdges
    <2>2. QED
        BY <1>2, <2>1
<1>5. IsSurface(DeleteIsolatedEdges(m))
    <2> DEFINE edges == CleanFacets(m.edges)
    <2>1. DeleteIsolatedEdges(m) = [m EXCEPT !.edges = edges]
        BY DEF DeleteIsolatedEdges
    <2> HIDE DEF edges
    <2>2. DeleteIsolatedEdges(m)
            = [m EXCEPT !.enabled = m.enabled, !.edges = edges]
        BY <1>1, <2>1 DEF HasFields
    <2>3. QED
        BY <1>1, <1>2, <2>2
<1>6. QED
    BY <1>3, <1>4, <1>5

-----------------------------------------------------------------------------
(* Walks around a vertex. *)

\* A place <<x, isNext>> of a turn around a vertex: at polygon vertex x, about
\* to leave its polygon by the edge that starts there or by the one before.
Exit(m, a) == IF a[2] THEN a[1] ELSE PreviousPolygonVertex(m, a[1])

\* The same place of the turn the other way.
Back(a) == <<a[1], ~a[2]>>

\* The edge by which the turn came.
Entry(m, a) == IF a[2] THEN PreviousPolygonVertex(m, a[1]) ELSE a[1]

IsPlace(m, v, a) ==
    /\ a = <<a[1], a[2]>>
    /\ a[1] \in CornersAt(m, v)
    /\ a[2] \in BOOLEAN

\* From a the turn goes on to b.
Follows(m, v, a, b) ==
    /\ IsPlace(m, v, a)
    /\ IsPlace(m, v, b)
    /\ IsAcross(m, Exit(m, a), Entry(m, b))

\* The same edges are met the other way.
LEMMA BackOfPlace ==
    ASSUME NEW m, HasPolygons(m), NEW v, NEW a, IsPlace(m, v, a)
    PROVE  /\ IsPlace(m, v, Back(a))
           /\ Back(Back(a)) = a
           /\ Back(a) # a
           /\ Exit(m, Back(a)) = Entry(m, a)
           /\ Entry(m, Back(a)) = Exit(m, a)
           /\ a[1] \in PolygonVertices(m)
           /\ Exit(m, a) \in PolygonVertices(m)
           /\ Entry(m, a) \in PolygonVertices(m)
           /\ Exit(m, a)[1] = a[1][1]
           /\ Entry(m, a)[1] = a[1][1]
           /\ Exit(m, a) # Entry(m, a)
<1>1. /\ a = <<a[1], a[2]>>
      /\ a[1] \in PolygonVertices(m)
      /\ a[2] \in BOOLEAN
      /\ a[1] \in CornersAt(m, v)
    BY DEF IsPlace, CornersAt
<1> DEFINE before == PreviousPolygonVertex(m, a[1])
<1>2. /\ before \in PolygonVertices(m)
      /\ before[1] = a[1][1]
      /\ before # a[1]
    BY <1>1, StepsInPolygon
<1>3. ASSUME NEW b, b = Back(a)
      PROVE  /\ IsPlace(m, v, b)
             /\ Back(b) = a
             /\ b # a
             /\ Exit(m, b) = Entry(m, a)
             /\ Entry(m, b) = Exit(m, a)
    <2>1. b = <<a[1], ~a[2]>>
        BY <1>3 DEF Back
    <2>2. b[1] = a[1] /\ b[2] = ~a[2]
        BY <2>1
    <2>3. b = <<b[1], b[2]>>
        BY <2>1, <2>2
    <2>4. b[2] \in BOOLEAN /\ b[2] # a[2] /\ a[2] = ~b[2]
        BY <1>1, <2>2
    <2>5. Back(b) = a
        BY <1>1, <2>2, <2>4 DEF Back
    <2>6. IsPlace(m, v, b)
        BY <1>1, <2>2, <2>3, <2>4 DEF IsPlace
    <2>7. b # a
        BY <2>4
    <2>8. Exit(m, b) = Entry(m, a) /\ Entry(m, b) = Exit(m, a)
        BY <1>1, <2>2 DEF Exit, Entry
    <2>9. QED
        BY <2>5, <2>6, <2>7, <2>8
<1>4. /\ Exit(m, a) \in {a[1], before}
      /\ Entry(m, a) \in {a[1], before}
      /\ Exit(m, a) # Entry(m, a)
    BY <1>1, <1>2 DEF Exit, Entry
<1> HIDE DEF before
<1>5. QED
    BY <1>1, <1>2, <1>3, <1>4

\* What follows can be followed back.
LEMMA FollowsBack ==
    ASSUME NEW m, HasPolygons(m), NEW v, NEW a, NEW b, Follows(m, v, a, b)
    PROVE  Follows(m, v, Back(b), Back(a))
<1>1. /\ IsPlace(m, v, a) /\ IsPlace(m, v, b)
      /\ IsAcross(m, Exit(m, a), Entry(m, b))
    BY DEF Follows
<1>2. /\ IsPlace(m, v, Back(a)) /\ IsPlace(m, v, Back(b))
      /\ Exit(m, Back(b)) = Entry(m, b)
      /\ Entry(m, Back(a)) = Exit(m, a)
      /\ Exit(m, a) \in PolygonVertices(m)
    BY <1>1, BackOfPlace
<1>3. IsAcross(m, Entry(m, b), Exit(m, a))
    BY <1>1, <1>2, AcrossIsFound
<1>4. QED
    BY <1>2, <1>3 DEF Follows

\* One place follows another, and is not the same the other way.
LEMMA FollowerIsUnique ==
    ASSUME NEW m, HasPolygons(m), NEW v, NEW a, NEW b, Follows(m, v, a, b)
    PROVE  /\ \A c : Follows(m, v, a, c) => c = b
           /\ \A c : Follows(m, v, c, b) => c = a
           /\ b # Back(a)
           /\ b[1][1] = AdjacentOf(m, Exit(m, a))
           /\ a[1][1] = AdjacentOf(m, Entry(m, b))
           /\ ~IsOnBorder(m, Exit(m, a))
           /\ ~IsOnBorder(m, Entry(m, b))
           /\ PolygonAdjacentEdge(m, Exit(m, a)) = Entry(m, b)
<1>1. /\ IsPlace(m, v, a) /\ IsPlace(m, v, b)
      /\ IsAcross(m, Exit(m, a), Entry(m, b))
    BY DEF Follows
<1>2. /\ Exit(m, a) \in PolygonVertices(m)
      /\ Entry(m, b) \in PolygonVertices(m)
      /\ Entry(m, b)[1] = b[1][1]
      /\ Exit(m, a)[1] = a[1][1]
      /\ Entry(m, Back(a)) = Exit(m, a)
    BY <1>1, BackOfPlace
<1>3. ASSUME NEW x, NEW y, NEW z, Follows(m, v, x, y), Follows(m, v, x, z)
      PROVE  y = z
    <2>1. /\ IsPlace(m, v, x) /\ IsPlace(m, v, y) /\ IsPlace(m, v, z)
          /\ IsAcross(m, Exit(m, x), Entry(m, y))
          /\ IsAcross(m, Exit(m, x), Entry(m, z))
        BY <1>3 DEF Follows
    <2>2. /\ Exit(m, x) \in PolygonVertices(m)
          /\ y[1] \in PolygonVertices(m)
          /\ z[1] \in PolygonVertices(m)
          /\ Entry(m, y)[1] = y[1][1]
          /\ Entry(m, z)[1] = z[1][1]
          /\ Exit(m, y) # Entry(m, y)
          /\ Exit(m, z) # Entry(m, z)
        BY <2>1, BackOfPlace
    <2>3. /\ Entry(m, y) \in PolygonVertices(m)
          /\ Entry(m, y)[1] = AdjacentOf(m, Exit(m, x))
          /\ EdgeCycle(m, Entry(m, y)) = EdgeCycle(m, Exit(m, x))
        BY <2>1 DEF IsAcross
    <2>4. Entry(m, y) = Entry(m, z)
        BY <2>1, <2>2, <2>3, AcrossIsUnique
    <2>5. y[1] = z[1]
        <3>1. VertexOf(m, y[1]) = v /\ VertexOf(m, z[1]) = v
            BY <2>1 DEF IsPlace, CornersAt
        <3>2. QED
            BY <2>2, <2>4, <3>1, VerticesApart
    <2>6. y[2] = z[2]
        <3>1. y[2] \in BOOLEAN /\ z[2] \in BOOLEAN
            BY <2>1 DEF IsPlace
        <3>2. ASSUME y[2] = ~z[2] PROVE FALSE
            <4>1. Entry(m, y) = Exit(m, z)
                BY <2>5, <3>1, <3>2 DEF Entry, Exit
            <4>2. QED
                BY <2>2, <2>4, <4>1
        <3>3. QED
            BY <3>1, <3>2
    <2>7. QED
        BY <2>1, <2>5, <2>6 DEF IsPlace
<1>4. ASSUME NEW c, Follows(m, v, c, b) PROVE c = a
    <2>1. Follows(m, v, Back(b), Back(a)) /\ Follows(m, v, Back(b), Back(c))
        BY <1>4, FollowsBack
    <2>2. Back(a) = Back(c)
        BY <1>3, <2>1
    <2>3. IsPlace(m, v, c)
        BY <1>4 DEF Follows
    <2>4. Back(Back(a)) = a /\ Back(Back(c)) = c
        BY <1>1, <2>3, BackOfPlace
    <2>5. QED
        BY <2>2, <2>4
<1>5. b # Back(a)
    BY <1>1, <1>2 DEF IsAcross
<1>6. /\ b[1][1] = AdjacentOf(m, Exit(m, a))
      /\ a[1][1] = AdjacentOf(m, Entry(m, b))
    BY <1>1, <1>2 DEF IsAcross
<1>7. b[1][1] # NoId /\ a[1][1] # NoId
    <2>1. Entry(m, b)[1] \in Polygons(m) /\ Exit(m, a)[1] \in Polygons(m)
        BY <1>2, CornerIsPair
    <2>2. QED
        BY <1>2, <2>1 DEF HasPolygons, IndexRange, NoId
<1>8. PolygonAdjacentEdge(m, Exit(m, a)) = Entry(m, b)
    BY <1>1, <1>2, AcrossIsFound
<1>9. QED
    BY <1>3, <1>4, <1>5, <1>6, <1>7, <1>8 DEF IsOnBorder

\* Places that follow each other.
IsWalk(m, v, u, N) ==
    /\ \A k \in 0 .. N : IsPlace(m, v, u[k])
    /\ \A k \in 1 .. N : Follows(m, v, u[k - 1], u[k])

\* A walk never turns back.
LEMMA NoTurningBack ==
    ASSUME NEW m, HasPolygons(m), NEW v, NEW u, NEW N \in Nat,
           IsWalk(m, v, u, N)
    PROVE  \A i, j \in 0 .. N : u[j] # Back(u[i])
<1> DEFINE Apart(d) == \A i \in 0 .. N : i + d \in 0 .. N =>
                            u[i + d] # Back(u[i])
           S == {d \in Nat : Apart(d) /\ Apart(d + 1)}
<1>1. Apart(0)
    <2>1. ASSUME NEW i \in 0 .. N PROVE u[i + 0] # Back(u[i])
        <3>1. IsPlace(m, v, u[i]) /\ i + 0 = i
            BY DEF IsWalk
        <3>2. Back(u[i]) # u[i]
            BY <3>1, BackOfPlace
        <3>3. QED
            BY <3>1, <3>2
    <2>2. QED
        BY <2>1
<1>2. Apart(1)
    <2>1. ASSUME NEW i \in 0 .. N, i + 1 \in 0 .. N
          PROVE  u[i + 1] # Back(u[i])
        <3>1. i + 1 \in 1 .. N /\ (i + 1) - 1 = i
            BY <2>1
        <3>2. Follows(m, v, u[i], u[i + 1])
            BY <3>1 DEF IsWalk
        <3>3. QED
            BY <3>2, FollowerIsUnique
    <2>2. QED
        BY <2>1
<1>3. ASSUME NEW d \in Nat, Apart(d) PROVE Apart(d + 2)
    <2>1. ASSUME NEW i \in 0 .. N, i + (d + 2) \in 0 .. N,
                 u[i + (d + 2)] = Back(u[i])
          PROVE  FALSE
        <3> DEFINE j == i + (d + 2)
                   k == (i + 1) + d
        <3>1. /\ i + 1 \in 1 .. N /\ (i + 1) - 1 = i /\ i + 1 \in 0 .. N
              /\ j \in 1 .. N /\ j - 1 = k /\ k \in 0 .. N
            BY <1>3, <2>1
        <3>2. Follows(m, v, u[i], u[i + 1]) /\ Follows(m, v, u[k], u[j])
            BY <3>1 DEF IsWalk
        <3> HIDE DEF j, k
        <3>3. Follows(m, v, Back(u[i + 1]), Back(u[i]))
            BY <3>2, FollowsBack
        <3>4. u[j] = Back(u[i])
            BY <2>1 DEF j
        <3>5. Follows(m, v, Back(u[i + 1]), u[j])
            BY <3>3, <3>4
        <3>6. Back(u[i + 1]) = u[k]
            BY <3>2, <3>5, FollowerIsUnique
        <3>7. u[(i + 1) + d] # Back(u[i + 1])
            BY <1>3, <3>1 DEF k
        <3>8. QED
            BY <3>6, <3>7 DEF k
    <2>2. QED
        BY <2>1
<1> HIDE DEF Apart
<1>4. 0 \in S
    BY <1>1, <1>2
<1>5. \A d \in Nat : d \in S => d + 1 \in S
    <2>1. ASSUME NEW d \in Nat, d \in S PROVE d + 1 \in S
        <3>1. Apart(d + 2) /\ Apart(d + 1)
            BY <1>3, <2>1
        <3>2. (d + 1) + 1 = d + 2 /\ d + 1 \in Nat
            OBVIOUS
        <3>3. QED
            BY <3>1, <3>2
    <2>2. QED
        BY <2>1
<1>6. Nat \subseteq S
    <2> HIDE DEF S
    <2>1. QED
        BY <1>4, <1>5, SetInduction
<1>7. \A d \in Nat : Apart(d)
    BY <1>6
<1>8. ASSUME NEW i \in 0 .. N, NEW j \in 0 .. N PROVE u[j] # Back(u[i])
    <2>1. CASE i <= j
        <3>1. j - i \in Nat /\ i + (j - i) = j
            BY <2>1
        <3>2. QED
            BY <1>7, <3>1 DEF Apart
    <2>2. CASE j <= i
        <3>1. i - j \in Nat /\ j + (i - j) = i
            BY <2>2
        <3>2. u[i] # Back(u[j])
            BY <1>7, <3>1 DEF Apart
        <3>3. Back(Back(u[i])) = u[i]
            BY BackOfPlace DEF IsWalk
        <3>4. QED
            BY <3>2, <3>3
    <2>3. QED
        BY <2>1, <2>2
<1>9. QED
    BY <1>8

\* A walk that never comes back to its start meets each polygon vertex once.
LEMMA PlacesApart ==
    ASSUME NEW m, HasPolygons(m), NEW v, NEW u, NEW N \in Nat,
           IsWalk(m, v, u, N), \A k \in 1 .. N : u[k] # u[0]
    PROVE  \A i, j \in 0 .. N : u[i][1] = u[j][1] => i = j
<1> DEFINE Once(i) == \A j \in 0 .. N : i < j => u[i] # u[j]
           S == {i \in Nat : Once(i)}
<1>1. 0 \in S
    <2>1. ASSUME NEW j \in 0 .. N, 0 < j PROVE u[0] # u[j]
        <3>1. j \in 1 .. N
            BY <2>1
        <3>2. QED
            BY <3>1
    <2>2. QED
        BY <2>1
<1>2. \A i \in Nat : i < N /\ i \in S => i + 1 \in S
    <2>1. ASSUME NEW i \in Nat, i < N, Once(i),
                 NEW j \in 0 .. N, i + 1 < j, u[i + 1] = u[j]
          PROVE  FALSE
        <3>1. /\ i + 1 \in 1 .. N /\ (i + 1) - 1 = i
              /\ j \in 1 .. N /\ j - 1 \in 0 .. N /\ i < j - 1
            BY <2>1
        <3>2. Follows(m, v, u[i], u[i + 1]) /\ Follows(m, v, u[j - 1], u[j])
            BY <3>1 DEF IsWalk
        <3>3. u[i] = u[j - 1]
            BY <2>1, <3>2, FollowerIsUnique
        <3>4. QED
            BY <2>1, <3>1, <3>3
    <2>2. QED
        BY <2>1
<1>3. \A i \in 0 .. N : i \in S
    <2> HIDE DEF S
    <2>1. QED
        BY <1>1, <1>2, TurnInduction
<1>4. ASSUME NEW i \in 0 .. N, NEW j \in 0 .. N, u[i] = u[j] PROVE i = j
    <2>1. Once(i) /\ Once(j)
        BY <1>3
    <2>2. i \in Int /\ j \in Int
        OBVIOUS
    <2>3. QED
        BY <1>4, <2>1, <2>2
<1>5. ASSUME NEW i \in 0 .. N, NEW j \in 0 .. N, u[i][1] = u[j][1]
      PROVE  i = j
    <2>1. IsPlace(m, v, u[i]) /\ IsPlace(m, v, u[j])
        BY DEF IsWalk
    <2>2. u[j] # Back(u[i])
        BY NoTurningBack
    <2>3. u[i] = <<u[i][1], u[i][2]>> /\ u[j] = <<u[i][1], u[j][2]>>
          /\ u[i][2] \in BOOLEAN /\ u[j][2] \in BOOLEAN
        BY <1>5, <2>1 DEF IsPlace
    <2>4. u[j][2] # ~u[i][2]
        BY <2>2, <2>3 DEF Back
    <2>5. u[j][2] = u[i][2]
        BY <2>3, <2>4
    <2>6. u[i] = u[j]
        BY <2>3, <2>5
    <2>7. QED
        BY <1>4, <2>6
<1>6. QED
    BY <1>5

-----------------------------------------------------------------------------
(* Turning around a vertex. *)

\* The turn that goes on while it meets neither the border nor the first.
Following(m, first, u) ==
    IF u.at \in {NoPolygonVertex, first} THEN u
    ELSE NextAround(m, [u EXCEPT !.list = Append(@, u.at)])

\* The steps of a turn.
LEMMA StepsOfTurn ==
    ASSUME NEW m, NEW first, NEW w, Cardinality(PolygonVertices(m)) \in Nat
    PROVE  LET N == Cardinality(PolygonVertices(m))
           IN  \E f : /\ f[0] = NextAround(m, w)
                      /\ \A n \in 1 .. N : f[n] = Following(m, first, f[n - 1])
                      /\ Turn(m, first, w) = f[N]
<1> DEFINE N == Cardinality(PolygonVertices(m))
           start == NextAround(m, w)
           turn(acc) == Following(m, first, acc)
           Runs(f, n) == /\ f = [k \in 0 .. n |-> f[k]]
                         /\ f[0] = start
                         /\ \A k \in 1 .. n : f[k] = turn(f[k - 1])
           IsFold(f) == f = [n \in 0 .. N |-> IF n = 0 THEN start
                                            ELSE turn(f[n - 1])]
           fold == CHOOSE f : IsFold(f)
           R == {n \in Nat : \E f : Runs(f, n)}
<1>1. N \in Nat
    OBVIOUS
<1>2. Turn(m, first, w) = fold[N]
    BY DEF Turn, Following
<1> HIDE DEF turn, start
<1>3. 0 \in R
    <2>1. Runs([n \in 0 .. 0 |-> start], 0)
        OBVIOUS
    <2>2. QED
        BY <2>1
<1>4. ASSUME NEW n \in Nat, n \in R
      PROVE  n + 1 \in R
    <2>1. PICK f : Runs(f, n)
        BY <1>4
    <2> DEFINE g == [k \in 0 .. n + 1 |->
                        IF k = n + 1 THEN turn(f[n]) ELSE f[k]]
    <2>2. \A k \in 1 .. n + 1 : g[k] = turn(g[k - 1])
        <3>1. \A k \in 1 .. n : g[k] = f[k] /\ g[k - 1] = f[k - 1]
            OBVIOUS
        <3>2. g[n + 1] = turn(f[n]) /\ g[n] = f[n]
            OBVIOUS
        <3>3. (n + 1) - 1 = n /\ 1 .. n + 1 = (1 .. n) \cup {n + 1}
            OBVIOUS
        <3> HIDE DEF g
        <3>4. QED
            BY <2>1, <3>1, <3>2, <3>3
    <2>3. g = [k \in 0 .. n + 1 |-> g[k]] /\ g[0] = start
        BY <2>1
    <2> HIDE DEF g
    <2>4. Runs(g, n + 1)
        BY <2>2, <2>3
    <2> HIDE DEF Runs
    <2>5. QED
        BY <2>4
<1>5. N \in R
    <2> HIDE DEF R, N
    <2>1. Nat \subseteq R
        BY <1>3, <1>4, SetInduction
    <2>2. QED
        BY <1>1, <2>1
<1>6. PICK f : Runs(f, N)
    BY <1>5
<1>7. IsFold(f)
    <2>1. f = [n \in 0 .. N |-> f[n]]
        BY <1>6
    <2>2. \A n \in 0 .. N : f[n] = IF n = 0 THEN start ELSE turn(f[n - 1])
        <3> HIDE DEF N
        <3>1. TAKE n \in 0 .. N
        <3>2. n = 0 \/ n \in 1 .. N
            BY <1>1
        <3>3. 0 # n => f[n] = turn(f[n - 1])
            BY <1>6, <3>2
        <3>4. QED
            BY <1>6, <3>3
    <2> HIDE DEF turn, N
    <2>3. QED
        BY <2>1, <2>2
<1>8. IsFold(fold)
    BY <1>7
<1>9. /\ fold[0] = start
      /\ \A n \in 1 .. N : fold[n] = turn(fold[n - 1])
    <2> HIDE DEF fold
    <2>1. QED
        BY <1>1, <1>8
<1> HIDE DEF fold, N
<1>10. QED
    BY <1>1, <1>2, <1>9 DEF turn, start, N

\* A place in a turn around vertex v.
IsTurning(m, v, w) ==
    /\ w = [at |-> w.at, isNext |-> w.isNext, list |-> w.list]
    /\ w.at \in CornersAt(m, v) \cup {NoPolygonVertex}
    /\ w.isNext \in BOOLEAN

\* NoPolygonVertex is none of them.
LEMMA NoPolygonVertexIsNone ==
    ASSUME NEW m, HasPolygons(m)
    PROVE  NoPolygonVertex \notin PolygonVertices(m)
<1>1. ASSUME NoPolygonVertex \in PolygonVertices(m) PROVE FALSE
    <2>1. NoPolygonVertex[1] \in Polygons(m)
        BY <1>1, CornerIsPair
    <2>2. QED
        BY <2>1 DEF NoPolygonVertex, HasPolygons, IndexRange, NoId
<1>2. QED
    BY <1>1

\* Where a turn is after the places of u, 0 to K.
Arrives(m, v, u, K, r) ==
    IF r.at = NoPolygonVertex
    THEN IsOnBorder(m, Exit(m, u[K]))
    ELSE Follows(m, v, u[K], <<r.at, r.isNext>>)

\* Crossing an edge leads to the place that follows.
LEMMA NextFollows ==
    ASSUME NEW m, HasPolygons(m), HasAdjacencies(m), NEW v, NEW w,
           IsTurning(m, v, w), w.at # NoPolygonVertex,
           NEW u, NEW K, u[K] = <<w.at, w.isNext>>
    PROVE  LET r == NextAround(m, w)
           IN  /\ IsTurning(m, v, r)
               /\ r.list = w.list
               /\ IsPlace(m, v, u[K])
               /\ Arrives(m, v, u, K, r)
<1> DEFINE at == w.at
           exit == IF w.isNext THEN at ELSE PreviousPolygonVertex(m, at)
           y == PolygonAdjacentEdge(m, exit)
           isNext == IF VertexOf(m, exit) = VertexOf(m, y)
                     THEN ~w.isNext ELSE w.isNext
           place == IF isNext THEN NextPolygonVertex(m, y) ELSE y
           r == NextAround(m, w)
           a == u[K]
<1>1. r = IF y = NoPolygonVertex
          THEN [w EXCEPT !.at = NoPolygonVertex]
          ELSE [w EXCEPT !.isNext = isNext, !.at = place]
    BY DEF NextAround, CrossEdge
<1>2. /\ w = [at |-> w.at, isNext |-> w.isNext, list |-> w.list]
      /\ at \in PolygonVertices(m)
      /\ VertexOf(m, at) = v
      /\ at \in CornersAt(m, v)
      /\ w.isNext \in BOOLEAN
    BY DEF IsTurning, CornersAt
<1> DEFINE before == PreviousPolygonVertex(m, at)
<1>3. /\ before \in PolygonVertices(m)
      /\ NextPolygonVertex(m, before) = at
    BY <1>2, StepsInPolygon
<1>4. /\ exit \in PolygonVertices(m)
      /\ w.isNext => VertexOf(m, exit) = v
      /\ ~w.isNext => VertexOf(m, NextPolygonVertex(m, exit)) = v
    BY <1>2, <1>3
<1>5. a[1] = at /\ a[2] = w.isNext /\ IsPlace(m, v, a)
    <2>1. a = <<at, w.isNext>>
        OBVIOUS
    <2> HIDE DEF a
    <2>2. a[1] = at /\ a[2] = w.isNext
        BY <2>1
    <2>3. QED
        BY <1>2, <2>1, <2>2 DEF IsPlace
<1>6. exit = Exit(m, a)
    BY <1>5 DEF Exit
<1> HIDE DEF r, exit, y, isNext, place, a
<1>7. ASSUME NEW z, IsAcross(m, exit, z) PROVE y = z
    BY <1>4, <1>7, AcrossIsFound DEF y
<1>8. CASE y = NoPolygonVertex
    <2>1. r = [at |-> NoPolygonVertex, isNext |-> w.isNext, list |-> w.list]
        BY <1>1, <1>2, <1>8
    <2>2. IsOnBorder(m, exit)
        <3>1. SUFFICES ASSUME NEW z, IsAcross(m, exit, z) PROVE FALSE
            BY <1>4 DEF HasAdjacencies
        <3>2. y \in PolygonVertices(m)
            BY <1>7, <3>1 DEF IsAcross
        <3>3. QED
            BY <1>8, <3>2, NoPolygonVertexIsNone
    <2>3. r.at = NoPolygonVertex /\ r.list = w.list /\ IsTurning(m, v, r)
        BY <1>2, <2>1 DEF IsTurning
    <2>4. Arrives(m, v, u, K, r)
        BY <1>6, <2>2, <2>3 DEF Arrives, a
    <2>5. QED
        BY <1>5, <2>3, <2>4 DEF r, a
<1>9. CASE y # NoPolygonVertex
    <2>1. ~IsOnBorder(m, exit)
        BY <1>9 DEF y, PolygonAdjacentEdge
    <2>2. PICK z : IsAcross(m, exit, z)
        BY <1>4, <2>1 DEF HasAdjacencies
    <2>3. IsAcross(m, exit, y)
        BY <1>7, <2>2
    <2>4. y \in PolygonVertices(m) /\ EdgeCycle(m, y) = EdgeCycle(m, exit)
        BY <2>3 DEF IsAcross
    <2>5. NextPolygonVertex(m, y) \in PolygonVertices(m)
          /\ PreviousPolygonVertex(m, NextPolygonVertex(m, y)) = y
        BY <2>4, StepsInPolygon
    <2> DEFINE f == VertexOf(m, exit)
               g == VertexOf(m, NextPolygonVertex(m, exit))
               c == VertexOf(m, y)
               d == VertexOf(m, NextPolygonVertex(m, y))
    <2>6. {f, g} = {c, d}
        BY <2>4 DEF EdgeCycle
    <2>7. place \in PolygonVertices(m)
        BY <2>4, <2>5 DEF place
    <2>8. isNext = (IF f = c THEN ~w.isNext ELSE w.isNext)
        BY DEF isNext
    <2>9. VertexOf(m, place) = IF isNext THEN d ELSE c
        BY DEF place
    <2>10. isNext \in BOOLEAN
        BY <1>2, <2>8
    <2>11. /\ w.isNext => f = v
           /\ ~w.isNext => g = v
        BY <1>4
    <2> HIDE DEF f, g, c, d
    <2>12. VertexOf(m, place) = v
        <3>1. CASE f = c
            <4>1. g = d
                BY <2>6, <3>1
            <4>2. QED
                BY <1>2, <2>8, <2>9, <2>11, <3>1, <4>1
        <3>2. CASE f # c
            <4>1. f = d /\ g = c
                BY <2>6, <3>2
            <4>2. QED
                BY <1>2, <2>8, <2>9, <2>11, <3>2, <4>1
        <3>3. QED
            BY <3>1, <3>2
    <2>13. r = [at |-> place, isNext |-> isNext, list |-> w.list]
        BY <1>1, <1>2, <1>9
    <2>14. r.at = place /\ r.isNext = isNext /\ r.list = w.list
        BY <2>13
    <2>15. place \in CornersAt(m, v)
        BY <2>7, <2>12 DEF CornersAt
    <2>16. IsTurning(m, v, r)
        BY <2>10, <2>13, <2>14, <2>15 DEF IsTurning
    <2> DEFINE b == <<place, isNext>>
    <2>17. b = <<b[1], b[2]>> /\ b[1] = place /\ b[2] = isNext
        OBVIOUS
    <2> HIDE DEF b
    <2>18. IsPlace(m, v, b)
        BY <2>10, <2>15, <2>17 DEF IsPlace
    <2>19. Entry(m, b) = y
        BY <2>5, <2>10, <2>17 DEF Entry, place
    <2>20. Follows(m, v, a, b)
        BY <1>5, <1>6, <2>3, <2>18, <2>19 DEF Follows
    <2>21. place # NoPolygonVertex
        BY <2>7, NoPolygonVertexIsNone
    <2>22. Arrives(m, v, u, K, r)
        BY <2>14, <2>20, <2>21 DEF Arrives, a, b
    <2>23. QED
        BY <1>5, <2>14, <2>16, <2>22 DEF r, a
<1>10. QED
    BY <1>8, <1>9

\* A list of different elements of a finite set is not longer than it.
LEMMA ListIsShort ==
    ASSUME NEW T, IsFiniteSet(T), NEW list \in Seq(T), NoRepeat(list)
    PROVE  Len(list) <= Cardinality(T)
<1> DEFINE n == Len(list)
<1>1. n \in Nat /\ list \in [1 .. n -> T] /\ DOMAIN list = 1 .. n
    OBVIOUS
<1>2. IsFiniteSet(1 .. n) /\ Cardinality(1 .. n) = n
    BY <1>1, FS_Interval
<1>3. Cardinality(T) \in Nat
    BY FS_CardinalityType
<1> HIDE DEF n
<1>4. ASSUME Cardinality(T) < n PROVE FALSE
    <2>1. \E i, j \in 1 .. n : i # j /\ list[i] = list[j]
        BY <1>1, <1>2, <1>4, FS_PigeonHole
    <2>2. QED
        BY <1>1, <2>1 DEF NoRepeat
<1>5. QED
    BY <1>1, <1>3, <1>4 DEF n

\* A list of the polygon vertices of a walk, each once, that starts with first.
IsTrip(m, v, first, list, u, K) ==
    /\ K \in Nat
    /\ IsWalk(m, v, u, K)
    /\ \A k \in 1 .. K : u[k] # u[0]
    /\ u[0][1] = first \/ IsOnBorder(m, Entry(m, u[0]))
    /\ list \in Seq(CornersAt(m, v))
    /\ Len(list) >= 1
    /\ list[1] = first
    /\ NoRepeat(list)
    /\ ToSet(list) = {u[k][1] : k \in 0 .. K}

\* u with one more place.
WithPlace(u, K, b) == [k \in 0 .. K + 1 |-> IF k = K + 1 THEN b ELSE u[k]]

\* A walk with one more place that follows the last.
LEMMA WalkGoesOn ==
    ASSUME NEW m, NEW v, NEW u, NEW K \in Nat, IsWalk(m, v, u, K),
           NEW b, Follows(m, v, u[K], b), NEW t, t = WithPlace(u, K, b)
    PROVE  /\ IsWalk(m, v, t, K + 1)
           /\ t[K + 1] = b
           /\ \A k \in 0 .. K : t[k] = u[k]
           /\ t[0] = u[0]
<1>1. /\ t[K + 1] = b
      /\ \A k \in 0 .. K : t[k] = u[k]
      /\ t[0] = u[0]
    BY DEF WithPlace
<1>2. 0 .. K + 1 = (0 .. K) \cup {K + 1} /\ 1 .. K + 1 = (1 .. K) \cup {K + 1}
    OBVIOUS
<1>3. IsPlace(m, v, b)
    BY DEF Follows
<1>4. \A k \in 0 .. K + 1 : IsPlace(m, v, t[k])
    BY <1>1, <1>2, <1>3 DEF IsWalk
<1>5. \A k \in 1 .. K + 1 : Follows(m, v, t[k - 1], t[k])
    <2>1. ASSUME NEW k \in 1 .. K PROVE Follows(m, v, t[k - 1], t[k])
        <3>1. k - 1 \in 0 .. K /\ k \in 0 .. K
            OBVIOUS
        <3>2. QED
            BY <1>1, <3>1 DEF IsWalk
    <2>2. Follows(m, v, t[(K + 1) - 1], t[K + 1])
        <3>1. (K + 1) - 1 = K /\ K \in 0 .. K
            OBVIOUS
        <3>2. QED
            BY <1>1, <3>1
    <2>3. QED
        BY <1>2, <2>1, <2>2
<1>6. QED
    BY <1>1, <1>4, <1>5 DEF IsWalk

\* The next place of a walk, unless it is first.
LEMMA TripGoesOn ==
    ASSUME NEW m, HasPolygons(m), NEW v, NEW first, NEW list, NEW u, NEW K,
           IsTrip(m, v, first, list, u, K),
           NEW b, Follows(m, v, u[K], b), b[1] # first,
           NEW t, t = WithPlace(u, K, b)
    PROVE  /\ IsTrip(m, v, first, Append(list, b[1]), t, K + 1)
           /\ t[K + 1] = b
           /\ t[0] = u[0]
<1>1. /\ K \in Nat
      /\ IsWalk(m, v, u, K)
      /\ \A k \in 1 .. K : u[k] # u[0]
      /\ u[0][1] = first \/ IsOnBorder(m, Entry(m, u[0]))
      /\ list \in Seq(CornersAt(m, v))
      /\ Len(list) >= 1
      /\ list[1] = first
      /\ NoRepeat(list)
      /\ ToSet(list) = {u[k][1] : k \in 0 .. K}
    BY DEF IsTrip
<1>2. /\ t[K + 1] = b
      /\ \A k \in 0 .. K : t[k] = u[k]
      /\ t[0] = u[0]
      /\ IsWalk(m, v, t, K + 1)
    BY <1>1, WalkGoesOn
<1>3. 0 .. K + 1 = (0 .. K) \cup {K + 1} /\ 1 .. K + 1 = (1 .. K) \cup {K + 1}
    BY <1>1
<1>4. IsPlace(m, v, b)
    BY DEF Follows
<1>6. b # u[0]
    <2>1. CASE u[0][1] = first
        BY <2>1
    <2>2. CASE IsOnBorder(m, Entry(m, u[0]))
        <3>1. ~IsOnBorder(m, Entry(m, b))
            BY FollowerIsUnique
        <3>2. QED
            BY <2>2, <3>1
    <2>3. QED
        BY <1>1, <2>1, <2>2
<1>7. \A k \in 1 .. K + 1 : t[k] # t[0]
    <2>1. \A k \in 1 .. K : k \in 0 .. K
        BY <1>1
    <2>2. QED
        BY <1>1, <1>2, <1>3, <1>6, <2>1
<1>8. b[1] \notin ToSet(list)
    <2>1. K + 1 \in Nat
        BY <1>1
    <2>2. \A i, j \in 0 .. K + 1 : t[i][1] = t[j][1] => i = j
        BY <1>2, <1>7, <2>1, PlacesApart
    <2>3. ASSUME NEW k \in 0 .. K, b[1] = u[k][1] PROVE FALSE
        <3>1. t[K + 1][1] = t[k][1] /\ K + 1 \in 0 .. K + 1
              /\ k \in 0 .. K + 1 /\ k # K + 1
            BY <1>1, <1>2, <2>3
        <3>2. QED
            BY <2>2, <3>1
    <2>4. QED
        BY <1>1, <2>3
<1>9. b[1] \in CornersAt(m, v)
    BY <1>4 DEF IsPlace
<1> DEFINE x == b[1]
           C == CornersAt(m, v)
           longer == Append(list, x)
<1>10. /\ longer \in Seq(C)
       /\ Len(longer) >= 1
       /\ longer[1] = first
       /\ NoRepeat(longer)
       /\ ToSet(longer) = ToSet(list) \cup {x}
    <2>1. x \in C /\ list \in Seq(C) /\ x \notin ToSet(list)
        BY <1>1, <1>8, <1>9
    <2> HIDE DEF x, C
    <2> DEFINE n == Len(list)
    <2>2. n \in Nat /\ DOMAIN list = 1 .. n
        BY <2>1
    <2>3. /\ longer \in Seq(C)
          /\ Len(longer) = n + 1
          /\ DOMAIN longer = 1 .. n + 1
          /\ \A i \in 1 .. n : longer[i] = list[i]
          /\ longer[n + 1] = x
        BY <2>1
    <2>4. ToSet(list) = {list[i] : i \in 1 .. n}
          /\ ToSet(longer) = {longer[i] : i \in 1 .. n + 1}
        BY <2>2, <2>3 DEF ToSet
    <2> HIDE DEF longer, n
    <2>5. 1 .. n + 1 = (1 .. n) \cup {n + 1} /\ 1 \in 1 .. n
        BY <1>1, <2>2 DEF n
    <2>6. ToSet(longer) = ToSet(list) \cup {x}
        BY <2>3, <2>4, <2>5
    <2>7. NoRepeat(longer)
        <3>1. \A i \in 1 .. n : longer[i] \in ToSet(list)
            BY <2>3, <2>4
        <3>2. \A i, j \in 1 .. n : longer[i] = longer[j] => i = j
            BY <1>1, <2>2, <2>3 DEF NoRepeat
        <3>3. QED
            BY <2>1, <2>3, <2>5, <3>1, <3>2 DEF NoRepeat
    <2>8. QED
        BY <1>1, <2>2, <2>3, <2>5, <2>6, <2>7
<1>11. ToSet(longer) = {t[k][1] : k \in 0 .. K + 1}
    <2> HIDE DEF longer
    <2>1. ToSet(longer) = {u[k][1] : k \in 0 .. K} \cup {b[1]}
        BY <1>1, <1>10
    <2>2. QED
        BY <1>2, <1>3, <2>1
<1> HIDE DEF longer, C
<1>12. K + 1 \in Nat
    BY <1>1
<1>13. t[0][1] = first \/ IsOnBorder(m, Entry(m, t[0]))
    BY <1>1, <1>2
<1>14. IsTrip(m, v, first, longer, t, K + 1)
    BY <1>2, <1>7, <1>10, <1>11, <1>12, <1>13 DEF IsTrip, C
<1>15. QED
    BY <1>2, <1>14 DEF longer

\* A turn that goes on from first lists a walk, until first or the border.
LEMMA TurnIsTrip ==
    ASSUME NEW m, HasPolygons(m), HasAdjacencies(m), NEW v, NEW first,
           NEW w, IsTurning(m, v, w), w.at = first, first # NoPolygonVertex,
           NEW u, NEW K, IsTrip(m, v, first, w.list, u, K),
           u[K] = <<w.at, w.isNext>>
    PROVE  LET r == Turn(m, first, w)
           IN  /\ IsTurning(m, v, r)
               /\ r.at \in {NoPolygonVertex, first}
               /\ \E t, L : /\ IsTrip(m, v, first, r.list, t, L)
                            /\ Arrives(m, v, t, L, r)
                            /\ t[0] = u[0]
<1> DEFINE N == Cardinality(PolygonVertices(m))
           HasTrip(r, t, L) == /\ IsTrip(m, v, first, r.list, t, L)
                               /\ Arrives(m, v, t, L, r)
                               /\ t[0] = u[0]
           Good(r, n) == /\ IsTurning(m, v, r)
                         /\ r.at \in {NoPolygonVertex, first}
                                \/ Len(r.list) > n
                         /\ \E t, L : HasTrip(r, t, L)
<1>1. N \in Nat
    BY CornersAreFinite, FS_CardinalityType
<1>2. PICK f : /\ f[0] = NextAround(m, w)
               /\ \A n \in 1 .. N : f[n] = Following(m, first, f[n - 1])
               /\ Turn(m, first, w) = f[N]
    BY <1>1, StepsOfTurn
<1>3. Good(f[0], 0)
    <2>1. IsTurning(m, v, f[0]) /\ f[0].list = w.list
          /\ Arrives(m, v, u, K, f[0])
        BY <1>2, NextFollows
    <2>2. w.list \in Seq(CornersAt(m, v)) /\ Len(w.list) >= 1
        BY DEF IsTrip
    <2>3. Len(f[0].list) > 0
        BY <2>1, <2>2
    <2>4. HasTrip(f[0], u, K)
        BY <2>1
    <2>5. QED
        BY <2>1, <2>3, <2>4
<1> HIDE DEF N
<1>4. ASSUME NEW n \in Nat, n < N, Good(f[n], n)
      PROVE  Good(f[n + 1], n + 1)
    <2> DEFINE g == f[n]
               r == f[n + 1]
               list == Append(g.list, g.at)
               k == [g EXCEPT !.list = list]
    <2>1. r = Following(m, first, g)
        <3>1. n + 1 \in 1 .. N /\ (n + 1) - 1 = n
            BY <1>1, <1>4
        <3>2. QED
            BY <1>2, <3>1
    <2>2. IsTurning(m, v, g) /\ \E t, L : HasTrip(g, t, L)
        BY <1>4
    <2>3. g.at \in {NoPolygonVertex, first} \/ Len(g.list) > n
        BY <1>4
    <2> HIDE DEF g, r
    <2>4. CASE g.at \in {NoPolygonVertex, first}
        <3>1. r = g
            BY <2>1, <2>4 DEF Following
        <3>2. QED
            BY <2>2, <2>4, <3>1 DEF r
    <2>5. CASE g.at \notin {NoPolygonVertex, first}
        <3>1. r = NextAround(m, k)
            BY <2>1, <2>5 DEF Following
        <3>2. g = [at |-> g.at, isNext |-> g.isNext, list |-> g.list]
              /\ g.at \in CornersAt(m, v) /\ g.isNext \in BOOLEAN
            BY <2>2, <2>5 DEF IsTurning
        <3>3. PICK t, L : HasTrip(g, t, L)
            BY <2>2
        <3> DEFINE b == <<g.at, g.isNext>>
                   s == WithPlace(t, L, b)
        <3>4. b[1] = g.at
            OBVIOUS
        <3>5. Follows(m, v, t[L], b)
            BY <2>5, <3>3 DEF Arrives
        <3>6. IsTrip(m, v, first, g.list, t, L) /\ t[0] = u[0]
            BY <3>3
        <3> HIDE DEF b, s
        <3>7. /\ IsTrip(m, v, first, Append(g.list, b[1]), s, L + 1)
              /\ s[L + 1] = b
              /\ s[0] = t[0]
            <4>1. b[1] # first
                BY <2>5, <3>4
            <4>2. s = WithPlace(t, L, b)
                BY DEF s
            <4>3. QED
                BY <3>5, <3>6, <4>1, <4>2, TripGoesOn
        <3>8. Append(g.list, b[1]) = list
            BY <3>4
        <3>9. Len(list) = Len(g.list) + 1 /\ Len(g.list) \in Nat
            <4>1. g.list \in Seq(CornersAt(m, v))
                BY <3>6 DEF IsTrip
            <4>2. QED
                BY <4>1
        <3> HIDE DEF list
        <3>10. k = [at |-> g.at, isNext |-> g.isNext, list |-> list]
            BY <3>2
        <3> HIDE DEF k
        <3>11. k.at = g.at /\ k.isNext = g.isNext /\ k.list = list
               /\ IsTurning(m, v, k)
            BY <3>2, <3>10 DEF IsTurning
        <3>12. s[L + 1] = <<k.at, k.isNext>>
            BY <3>7, <3>11 DEF b
        <3>13. IsTurning(m, v, r) /\ r.list = list
               /\ Arrives(m, v, s, L + 1, r)
            BY <2>5, <3>1, <3>11, <3>12, NextFollows
        <3>14. HasTrip(r, s, L + 1)
            BY <3>6, <3>7, <3>8, <3>13
        <3>15. Len(r.list) > n + 1
            BY <2>3, <2>5, <3>9, <3>13
        <3> HIDE DEF HasTrip
        <3>16. QED
            BY <3>13, <3>14, <3>15 DEF r
    <2>6. QED
        BY <2>4, <2>5
<1> HIDE DEF Good
<1> DEFINE S == {n \in Nat : Good(f[n], n)}
<1>5. \A n \in 0 .. N : n \in S
    <2>1. 0 \in S
        BY <1>3
    <2>2. \A n \in Nat : n < N /\ n \in S => n + 1 \in S
        BY <1>4
    <2> HIDE DEF S
    <2>3. QED
        BY <1>1, <2>1, <2>2, TurnInduction
<1>6. Good(f[N], N)
    BY <1>1, <1>5
<1> DEFINE r == f[N]
<1>7. /\ IsTurning(m, v, r)
      /\ r.at \in {NoPolygonVertex, first} \/ Len(r.list) > N
      /\ \E t, L : HasTrip(r, t, L)
    BY <1>6 DEF Good
<1> HIDE DEF r
<1>8. Len(r.list) \in Nat /\ Len(r.list) <= N
    <2>1. /\ r.list \in Seq(CornersAt(m, v))
          /\ NoRepeat(r.list)
        BY <1>7 DEF IsTrip
    <2>2. CornersAt(m, v) \subseteq PolygonVertices(m)
        BY DEF CornersAt
    <2> DEFINE list == r.list
               T == PolygonVertices(m)
    <2>3. list \in Seq(T) /\ Len(list) \in Nat
        BY <2>1, <2>2
    <2>4. IsFiniteSet(T) /\ NoRepeat(list)
        BY <2>1, CornersAreFinite
    <2> HIDE DEF list, T
    <2>5. Len(list) <= Cardinality(T)
        BY <2>3, <2>4, ListIsShort
    <2>6. QED
        BY <2>3, <2>5 DEF list, T, N
<1>9. r.at \in {NoPolygonVertex, first}
    BY <1>1, <1>7, <1>8
<1> HIDE DEF HasTrip
<1>10. QED
    BY <1>2, <1>7, <1>9 DEF r, HasTrip

\* A walk that nothing can prolong.
IsClosed(m, v, u, K) ==
    \/ Follows(m, v, u[K], u[0])
    \/ IsOnBorder(m, Entry(m, u[0])) /\ IsOnBorder(m, Exit(m, u[K]))

\* The walk the other way.
Backwards(u, K) == [k \in 0 .. K |-> Back(u[K - k])]

\* The polygon vertices of a walk.
CornersOf(u, K) == {u[k][1] : k \in 0 .. K}

\* A walk can be followed back.
LEMMA WalkBackwards ==
    ASSUME NEW m, HasPolygons(m), NEW v, NEW u, NEW K \in Nat,
           IsWalk(m, v, u, K), NEW t, t = Backwards(u, K)
    PROVE  /\ IsWalk(m, v, t, K)
           /\ t[0] = Back(u[K])
           /\ t[K] = Back(u[0])
           /\ CornersOf(t, K) = CornersOf(u, K)
<1>1. \A k \in 0 .. K : t[k] = Back(u[K - k]) /\ K - k \in 0 .. K
    BY DEF Backwards
<1>2. \A k \in 0 .. K : IsPlace(m, v, t[k])
    BY <1>1, BackOfPlace DEF IsWalk
<1>3. ASSUME NEW k \in 1 .. K PROVE Follows(m, v, t[k - 1], t[k])
    <2>1. /\ k - 1 \in 0 .. K /\ k \in 0 .. K
          /\ K - (k - 1) \in 1 .. K
          /\ (K - (k - 1)) - 1 = K - k
        OBVIOUS
    <2>2. Follows(m, v, u[K - k], u[K - (k - 1)])
        BY <2>1 DEF IsWalk
    <2>3. QED
        BY <1>1, <2>1, <2>2, FollowsBack
<1>4. \A a : Back(a)[1] = a[1]
    BY DEF Back
<1>5. CornersOf(t, K) = CornersOf(u, K)
    <2>1. \A k \in 0 .. K : t[k][1] = u[K - k][1] /\ K - k \in 0 .. K
        BY <1>1, <1>4
    <2>2. \A k \in 0 .. K : u[k][1] = t[K - k][1] /\ K - k \in 0 .. K
        <3>1. TAKE k \in 0 .. K
        <3>2. K - k \in 0 .. K /\ K - (K - k) = k
            OBVIOUS
        <3>3. QED
            BY <2>1, <3>2
    <2>3. QED
        BY <2>1, <2>2 DEF CornersOf
<1>6. t[0] = Back(u[K]) /\ t[K] = Back(u[0])
    <2>1. K - 0 = K /\ K - K = 0 /\ 0 \in 0 .. K /\ K \in 0 .. K
        OBVIOUS
    <2>2. QED
        BY <1>1, <2>1
<1>7. QED
    BY <1>2, <1>3, <1>5, <1>6 DEF IsWalk

\* compute_polygons_around_vertex() lists a walk that nothing can prolong.
LEMMA ComputedIsTrip ==
    ASSUME NEW m, HasPolygons(m), HasAdjacencies(m), NEW v,
           NEW first \in CornersAt(m, v)
    PROVE  \E u, K :
              /\ IsTrip(m, v, first, ComputePolygonsAroundVertex(m, first),
                        u, K)
              /\ IsClosed(m, v, u, K)
<1> DEFINE list == ComputePolygonsAroundVertex(m, first)
           start == [at |-> first, isNext |-> FALSE, list |-> <<first>>]
           turn == Turn(m, first, start)
           back == [turn EXCEPT !.at = first, !.isNext = TRUE]
           again == Turn(m, first, back)
           u == [k \in 0 .. 0 |-> <<first, FALSE>>]
<1>1. first # NoPolygonVertex
    BY NoPolygonVertexIsNone DEF CornersAt
<1>2. list = IF turn.at = first THEN turn.list ELSE again.list
    BY <1>1 DEF ComputePolygonsAroundVertex, TurnBack
<1>3. u[0] = <<first, FALSE>> /\ u[0][1] = first /\ u[0][2] = FALSE
    <2> DEFINE a == <<first, FALSE>>
    <2>1. a[1] = first /\ a[2] = FALSE
        OBVIOUS
    <2> HIDE DEF a
    <2>2. [k \in 0 .. 0 |-> a][0] = a
        OBVIOUS
    <2>3. QED
        BY <2>1, <2>2 DEF a
<1> HIDE DEF u
<1>4. IsTrip(m, v, first, <<first>>, u, 0)
    <2>1. IsPlace(m, v, u[0])
        BY <1>3 DEF IsPlace
    <2>2. IsWalk(m, v, u, 0)
        BY <2>1 DEF IsWalk
    <2> DEFINE l == <<first>>
    <2>3. /\ l \in Seq(CornersAt(m, v)) /\ Len(l) = 1 /\ l[1] = first
          /\ DOMAIN l = {1}
        OBVIOUS
    <2> HIDE DEF l
    <2>4. ToSet(l) = {first} /\ NoRepeat(l)
        BY <2>3 DEF ToSet, NoRepeat
    <2>5. {u[k][1] : k \in 0 .. 0} = {first}
        BY <1>3
    <2>6. IsTrip(m, v, first, l, u, 0)
        BY <1>3, <2>2, <2>3, <2>4, <2>5 DEF IsTrip
    <2>7. QED
        BY <2>6 DEF l
<1>5. /\ IsTurning(m, v, start) /\ start.at = first
      /\ start.isNext = FALSE /\ start.list = <<first>>
    BY DEF IsTurning
<1> HIDE DEF list, start
<1>6. /\ IsTurning(m, v, turn)
      /\ turn.at \in {NoPolygonVertex, first}
      /\ \E t, L : /\ IsTrip(m, v, first, turn.list, t, L)
                   /\ Arrives(m, v, t, L, turn)
                   /\ t[0] = u[0]
    <2>1. u[0] = <<start.at, start.isNext>>
        BY <1>3, <1>5
    <2>2. IsTrip(m, v, first, start.list, u, 0)
        BY <1>4, <1>5
    <2>3. QED
        BY <1>1, <1>5, <2>1, <2>2, TurnIsTrip
<1> HIDE DEF turn
<1>7. PICK t, L : /\ IsTrip(m, v, first, turn.list, t, L)
                  /\ Arrives(m, v, t, L, turn)
                  /\ t[0] = u[0]
    BY <1>6
<1>8. /\ L \in Nat /\ IsWalk(m, v, t, L) /\ L \in 0 .. L /\ 0 \in 0 .. L
      /\ IsPlace(m, v, t[L]) /\ IsPlace(m, v, t[0])
    BY <1>7 DEF IsTrip, IsWalk
<1>9. CASE turn.at = first
    <2> DEFINE b == <<turn.at, turn.isNext>>
    <2>1. Follows(m, v, t[L], b)
        BY <1>1, <1>7, <1>9 DEF Arrives
    <2>2. b[1] = first /\ b[2] = turn.isNext /\ b = <<b[1], b[2]>>
        BY <1>9
    <2> HIDE DEF b
    <2>3. b[2] \in BOOLEAN
        BY <2>1 DEF Follows, IsPlace
    <2>4. b # Back(t[0])
        <3> DEFINE s == WithPlace(t, L, b)
        <3>1. s = WithPlace(t, L, b)
            OBVIOUS
        <3> HIDE DEF s
        <3>2. IsWalk(m, v, s, L + 1) /\ s[L + 1] = b /\ s[0] = t[0]
            BY <1>8, <2>1, <3>1, WalkGoesOn
        <3>3. L + 1 \in Nat /\ L + 1 \in 0 .. L + 1 /\ 0 \in 0 .. L + 1
            BY <1>8
        <3>6. s[L + 1] # Back(s[0])
            BY <3>2, <3>3, NoTurningBack
        <3>7. QED
            BY <3>2, <3>6
    <2>5. Back(t[0]) = <<first, TRUE>>
        BY <1>3, <1>7 DEF Back
    <2>6. b[2] # TRUE
        BY <2>2, <2>4, <2>5
    <2>7. b = <<first, FALSE>>
        BY <2>2, <2>3, <2>6
    <2>8. b = t[0]
        BY <1>3, <1>7, <2>7
    <2>9. IsClosed(m, v, t, L)
        BY <2>1, <2>8 DEF IsClosed
    <2>10. QED
        BY <1>2, <1>7, <1>9, <2>9 DEF list
<1>10. CASE turn.at # first
    <2>1. turn.at = NoPolygonVertex
        BY <1>6, <1>10
    <2>2. IsOnBorder(m, Exit(m, t[L]))
        BY <1>7, <2>1 DEF Arrives
    <2> DEFINE s == Backwards(t, L)
    <2>k. s = Backwards(t, L)
        OBVIOUS
    <2> HIDE DEF s
    <2>3. /\ IsWalk(m, v, s, L)
          /\ s[0] = Back(t[L])
          /\ s[L] = Back(t[0])
          /\ CornersOf(s, L) = CornersOf(t, L)
        BY <1>8, <2>k, WalkBackwards
    <2>6. Entry(m, s[0]) = Exit(m, t[L])
        BY <1>8, <2>3, BackOfPlace
    <2>7. \A k \in 1 .. L : s[k] # s[0]
        <3>1. ASSUME NEW k \in 1 .. L, s[k] = s[0] PROVE FALSE
            <4>1. Follows(m, v, s[k - 1], s[k])
                BY <2>3 DEF IsWalk
            <4>2. ~IsOnBorder(m, Entry(m, s[k]))
                BY <4>1, FollowerIsUnique
            <4>3. QED
                BY <2>2, <2>6, <3>1, <4>2
        <3>2. QED
            BY <3>1
    <2>8. IsTrip(m, v, first, turn.list, s, L)
        BY <1>7, <2>2, <2>3, <2>6, <2>7 DEF IsTrip, CornersOf
    <2>9. s[L] = <<first, TRUE>>
        BY <1>3, <1>7, <2>3 DEF Back
    <2>10. back = [at |-> first, isNext |-> TRUE, list |-> turn.list]
        <3>1. turn = [at |-> turn.at, isNext |-> turn.isNext,
                      list |-> turn.list]
            BY <1>6 DEF IsTurning
        <3>2. ASSUME NEW flag, NEW k,
                     k = [turn EXCEPT !.at = first, !.isNext = flag]
              PROVE  k = [at |-> first, isNext |-> flag, list |-> turn.list]
            BY <3>1, <3>2
        <3>3. QED
            BY <3>2, Zenon
    <2> HIDE DEF back
    <2>11. /\ IsTurning(m, v, back) /\ back.at = first
           /\ back.isNext = TRUE /\ back.list = turn.list
        BY <2>10 DEF IsTurning
    <2>12. /\ again.at \in {NoPolygonVertex, first}
           /\ \E q, M : /\ IsTrip(m, v, first, again.list, q, M)
                        /\ Arrives(m, v, q, M, again)
                        /\ q[0] = s[0]
        <3>1. s[L] = <<back.at, back.isNext>>
            BY <2>9, <2>11
        <3>2. IsTrip(m, v, first, back.list, s, L)
            BY <2>8, <2>11
        <3>3. QED
            BY <1>1, <2>11, <3>1, <3>2, TurnIsTrip
    <2> HIDE DEF again
    <2>13. PICK q, M : /\ IsTrip(m, v, first, again.list, q, M)
                       /\ Arrives(m, v, q, M, again)
                       /\ q[0] = s[0]
        BY <2>12
    <2>14. again.at # first
        <3>1. SUFFICES ASSUME again.at = first PROVE FALSE
            OBVIOUS
        <3> DEFINE b == <<again.at, again.isNext>>
                   p == WithPlace(q, M, b)
        <3>2. Follows(m, v, q[M], b)
            BY <1>1, <2>13, <3>1 DEF Arrives
        <3>3. b[1] = first
            BY <3>1
        <3> HIDE DEF b
        <3>4. /\ M \in Nat /\ IsWalk(m, v, q, M)
              /\ \A k \in 1 .. M : q[k] # q[0]
              /\ again.list \in Seq(CornersAt(m, v))
              /\ again.list[1] = first /\ Len(again.list) >= 1
              /\ ToSet(again.list) = {q[k][1] : k \in 0 .. M}
            BY <2>13 DEF IsTrip
        <3>k. p = WithPlace(q, M, b)
            OBVIOUS
        <3> HIDE DEF p
        <3>5. /\ IsWalk(m, v, p, M + 1)
              /\ p[M + 1] = b
              /\ \A k \in 0 .. M : p[k] = q[k]
              /\ p[0] = q[0]
            BY <3>2, <3>4, <3>k, WalkGoesOn
        <3>6. 0 .. M + 1 = (0 .. M) \cup {M + 1}
              /\ 1 .. M + 1 = (1 .. M) \cup {M + 1}
              /\ \A k \in 1 .. M : k \in 0 .. M
              /\ M + 1 \in Nat
              /\ M + 1 \notin 0 .. M
            BY <3>4
        <3>8. b # q[0]
            <4>1. ~IsOnBorder(m, Entry(m, b))
                BY <3>2, FollowerIsUnique
            <4>2. QED
                BY <2>2, <2>6, <2>13, <4>1
        <3>9. \A k \in 1 .. M + 1 : p[k] # p[0]
            BY <3>4, <3>5, <3>6, <3>8
        <3>10. \A i, j \in 0 .. M + 1 : p[i][1] = p[j][1] => i = j
            BY <3>5, <3>6, <3>9, PlacesApart
        <3>11. first \in ToSet(again.list)
            <4>1. 1 \in DOMAIN again.list
                BY <3>4
            <4>2. QED
                BY <3>4, <4>1 DEF ToSet
        <3>12. PICK k \in 0 .. M : q[k][1] = first
            BY <3>4, <3>11
        <3>13. p[k][1] = p[M + 1][1] /\ k \in 0 .. M + 1
               /\ M + 1 \in 0 .. M + 1 /\ k # M + 1
            BY <3>3, <3>5, <3>6, <3>12
        <3>14. QED
            BY <3>10, <3>13
    <2>15. IsOnBorder(m, Exit(m, q[M]))
        BY <2>12, <2>13, <2>14 DEF Arrives
    <2>16. IsClosed(m, v, q, M)
        BY <2>2, <2>6, <2>13, <2>15 DEF IsClosed
    <2>17. QED
        BY <1>2, <1>10, <2>13, <2>16 DEF list
<1>11. QED
    BY <1>9, <1>10

\* compute_polygons_around_vertex() lists polygon vertices at the vertex, each
\* once.
LEMMA ComputedIsListAround ==
    ASSUME NEW m, HasPolygons(m), HasAdjacencies(m), NEW v, NEW first,
           first \in CornersAt(m, v) \cup {NoPolygonVertex}
    PROVE  IsListAround(m, v, ComputePolygonsAroundVertex(m, first))
<1> DEFINE list == ComputePolygonsAroundVertex(m, first)
<1>1. CASE first = NoPolygonVertex
    <2>1. list = <<>>
        BY <1>1 DEF ComputePolygonsAroundVertex
    <2> HIDE DEF list
    <2>2. QED
        BY <2>1 DEF IsListAround, NoRepeat, list
<1>2. CASE first # NoPolygonVertex
    <2>1. PICK u, K : IsTrip(m, v, first, list, u, K)
        BY <1>2, ComputedIsTrip
    <2>2. QED
        BY <2>1 DEF IsTrip, IsListAround
<1>3. QED
    BY <1>1, <1>2

\* What an adjacency joins to a polygon vertex of a walk that nothing can
\* prolong is in it.
LEMMA WalkVisitsNeighbours ==
    ASSUME NEW m, HasPolygons(m), NEW v, NEW u, NEW K \in Nat,
           IsWalk(m, v, u, K), IsClosed(m, v, u, K),
           NEW k \in 0 .. K, NEW e \in {Exit(m, u[k]), Entry(m, u[k])},
           ~IsOnBorder(m, e)
    PROVE  LET z == PolygonAdjacentEdge(m, e)
           IN  /\ z \in PolygonVertices(m)
               /\ \E j \in 0 .. K : z[1] = u[j][1][1]
<1>1. ASSUME NEW a, NEW b, Follows(m, v, a, b)
      PROVE  /\ PolygonAdjacentEdge(m, Exit(m, a)) = Entry(m, b)
             /\ PolygonAdjacentEdge(m, Entry(m, b)) = Exit(m, a)
             /\ Entry(m, b)[1] = b[1][1]
             /\ Exit(m, a)[1] = a[1][1]
             /\ Entry(m, b) \in PolygonVertices(m)
             /\ Exit(m, a) \in PolygonVertices(m)
    <2>1. IsPlace(m, v, a) /\ IsPlace(m, v, b)
          /\ IsAcross(m, Exit(m, a), Entry(m, b))
        BY <1>1 DEF Follows
    <2>2. /\ Entry(m, b)[1] = b[1][1]
          /\ Exit(m, a)[1] = a[1][1]
          /\ Entry(m, b) \in PolygonVertices(m)
          /\ Exit(m, a) \in PolygonVertices(m)
        BY <2>1, BackOfPlace
    <2>3. /\ PolygonAdjacentEdge(m, Exit(m, a)) = Entry(m, b)
          /\ IsAcross(m, Entry(m, b), Exit(m, a))
        BY <2>1, <2>2, AcrossIsFound
    <2>4. PolygonAdjacentEdge(m, Entry(m, b)) = Exit(m, a)
        BY <2>2, <2>3, AcrossIsFound
    <2>5. QED
        BY <2>2, <2>3, <2>4
<1>2. CASE e = Exit(m, u[k])
    <2>1. \E j \in 0 .. K : Follows(m, v, u[k], u[j])
        <3>1. CASE k = K
            <4>1. Follows(m, v, u[K], u[0])
                BY <1>2, <3>1 DEF IsClosed
            <4>2. QED
                BY <3>1, <4>1
        <3>2. CASE k # K
            <4>1. k + 1 \in 1 .. K /\ (k + 1) - 1 = k /\ k + 1 \in 0 .. K
                BY <3>2
            <4>2. QED
                BY <4>1 DEF IsWalk
        <3>3. QED
            BY <3>1, <3>2
    <2>2. QED
        BY <1>1, <1>2, <2>1
<1>3. CASE e = Entry(m, u[k])
    <2>1. \E j \in 0 .. K : Follows(m, v, u[j], u[k])
        <3>1. CASE k = 0
            <4>1. Follows(m, v, u[K], u[0])
                BY <1>3, <3>1 DEF IsClosed
            <4>2. QED
                BY <3>1, <4>1
        <3>2. CASE k # 0
            <4>1. k \in 1 .. K /\ k - 1 \in 0 .. K
                BY <3>2
            <4>2. QED
                BY <4>1 DEF IsWalk
        <3>3. QED
            BY <3>1, <3>2
    <2>2. QED
        BY <1>1, <1>3, <2>1
<1>4. QED
    BY <1>2, <1>3

\* Turning around a vertex visits the fan of the first polygon vertex.
LEMMA TurnVisitsFan ==
    ASSUME NEW m, HasPolygons(m), HasAdjacencies(m),
           NEW first \in PolygonVertices(m)
    PROVE  LET list == ComputePolygonsAroundVertex(m, first)
           IN  /\ IsInjective(list)
               /\ \A x \in ToSet(list) : Neighbours(m, x) \subseteq ToSet(list)
<1> DEFINE list == ComputePolygonsAroundVertex(m, first)
           v == VertexOf(m, first)
<1>1. first \in CornersAt(m, v)
    BY DEF CornersAt
<1> HIDE DEF v, list
<1>2. PICK u, K : IsTrip(m, v, first, list, u, K) /\ IsClosed(m, v, u, K)
    BY <1>1, ComputedIsTrip DEF list
<1>3. /\ K \in Nat /\ IsWalk(m, v, u, K) /\ NoRepeat(list)
      /\ ToSet(list) = {u[k][1] : k \in 0 .. K}
    BY <1>2 DEF IsTrip
<1>4. IsInjective(list)
    BY <1>3 DEF NoRepeat, IsInjective
<1>5. ASSUME NEW x \in ToSet(list), NEW y \in Neighbours(m, x)
      PROVE  y \in ToSet(list)
    <2>1. PICK k \in 0 .. K : x = u[k][1]
        BY <1>3
    <2> DEFINE edges == {x, PreviousPolygonVertex(m, x)}
               ends == {PolygonAdjacentEdge(m, e) : e \in edges}
                            \ {NoPolygonVertex}
    <2>2. /\ y \in ends \cup {NextPolygonVertex(m, z) : z \in ends}
          /\ VertexOf(m, y) = VertexOf(m, x)
        BY <1>5 DEF Neighbours
    <2>3. PICK z \in ends : y = z \/ y = NextPolygonVertex(m, z)
        BY <2>2
    <2>4. PICK e \in edges : z = PolygonAdjacentEdge(m, e)
        BY <2>3
    <2>5. z # NoPolygonVertex
        BY <2>3
    <2>6. ~IsOnBorder(m, e)
        BY <2>4, <2>5 DEF PolygonAdjacentEdge
    <2>7. IsPlace(m, v, u[k])
        BY <1>3 DEF IsWalk
    <2>8. e \in {Exit(m, u[k]), Entry(m, u[k])}
        <3>1. u[k][2] \in BOOLEAN
            BY <2>7 DEF IsPlace
        <3>2. edges = {Exit(m, u[k]), Entry(m, u[k])}
            BY <2>1, <3>1 DEF Exit, Entry
        <3>3. QED
            BY <3>2
    <2>9. z \in PolygonVertices(m) /\ \E j \in 0 .. K : z[1] = u[j][1][1]
        BY <1>2, <1>3, <2>4, <2>6, <2>8, WalkVisitsNeighbours
    <2>10. PICK j \in 0 .. K : z[1] = u[j][1][1]
        BY <2>9
    <2>11. IsPlace(m, v, u[j])
        BY <1>3 DEF IsWalk
    <2>12. /\ u[j][1] \in PolygonVertices(m)
           /\ VertexOf(m, u[j][1]) = v
           /\ VertexOf(m, x) = v
        BY <2>1, <2>7, <2>11 DEF IsPlace, CornersAt
    <2>13. y \in PolygonVertices(m) /\ y[1] = z[1]
        BY <2>3, <2>9, StepsInPolygon
    <2>14. y = u[j][1]
        BY <2>2, <2>10, <2>12, <2>13, VerticesApart
    <2>15. QED
        BY <1>3, <2>14
<1>6. QED
    BY <1>4, <1>5 DEF list

\* updated_polygons_around_vertex()
LEMMA UpdatedIsListAround ==
    ASSUME NEW m, IsSurface(m), NEW v \in Vertices(m), NEW first,
           first \in CornersAt(m, v) \cup {m.around[v]}
    PROVE  IsListAround(m, v, UpdatedPolygonsAroundVertex(m, v, first))
<1>1. /\ HasPolygons(m) /\ HasAdjacencies(m)
      /\ FindsPolygonAround(m, v) /\ IsCached(m, v)
    BY DEF IsSurface, HasAround, HasLists
<1>2. CASE m.cached[v].computed /\ first \in ToSet(m.cached[v].polygons)
    <2>1. UpdatedPolygonsAroundVertex(m, v, first) = m.cached[v].polygons
        BY <1>2 DEF UpdatedPolygonsAroundVertex
    <2>2. QED
        BY <1>1, <1>2, <2>1 DEF IsCached
<1>3. CASE ~(m.cached[v].computed /\ first \in ToSet(m.cached[v].polygons))
    <2>1. UpdatedPolygonsAroundVertex(m, v, first)
            = ComputePolygonsAroundVertex(m, first)
        BY <1>3 DEF UpdatedPolygonsAroundVertex
    <2>2. first \in CornersAt(m, v) \cup {NoPolygonVertex}
        BY <1>1 DEF FindsPolygonAround
    <2>3. QED
        BY <1>1, <2>1, <2>2, ComputedIsListAround
<1>4. QED
    BY <1>2, <1>3

\* polygons_around_vertex(), of a vertex or of one of its polygon vertices.
LEMMA QueryKeepsSurface ==
    ASSUME NEW m, IsSurface(m), NEW v \in Vertices(m), NEW first,
           first \in CornersAt(m, v) \cup {m.around[v]}
    PROVE  IsSurface(QueryPolygonsAround(m, v, first))
<1> DEFINE list == UpdatedPolygonsAroundVertex(m, v, first)
           entry == [computed |-> TRUE, polygons |-> list]
           r == QueryPolygonsAround(m, v, first)
<1>1. HasFields(m) /\ HasPolygons(m) /\ HasAdjacencies(m) /\ HasAround(m)
      /\ HasLists(m) /\ m.enabled \in BOOLEAN
    BY DEF IsSurface
<1>2. IsListAround(m, v, list)
    BY UpdatedIsListAround
<1>3. r = [m EXCEPT !.cached[v] = entry]
    BY DEF QueryPolygonsAround
<1> HIDE DEF list, r
<1>4. entry.computed = TRUE /\ entry.polygons = list
    OBVIOUS
<1> HIDE DEF entry
<1>5. /\ HasFields(r)
      /\ r.polygons = m.polygons
      /\ r.adjacent = m.adjacent
      /\ r.around = m.around
      /\ r.enabled = m.enabled
      /\ r.cached = [m.cached EXCEPT ![v] = entry]
    BY <1>1, <1>3 DEF HasFields
<1>6. r.cached = [u \in Vertices(m) |-> IF u = v THEN entry ELSE m.cached[u]]
    BY <1>1, <1>5 DEF HasLists
<1>7. /\ Polygons(r) = Polygons(m)
      /\ PolygonVertices(r) = PolygonVertices(m)
      /\ \A x : /\ EdgeCycle(r, x) = EdgeCycle(m, x)
                /\ AdjacentOf(r, x) = AdjacentOf(m, x)
      /\ \A u : CornersAt(r, u) = CornersAt(m, u)
    BY <1>5, SamePolygons DEF AdjacentOf
<1>8. Vertices(r) = Vertices(m)
    BY <1>5 DEF Vertices
<1>9. HasPolygons(r)
    BY <1>1, <1>5, <1>7, <1>8 DEF HasPolygons
<1>10. HasAdjacencies(r)
    <2>1. \A x, y : IsAcross(m, x, y) => IsAcross(r, x, y)
        BY <1>7 DEF IsAcross
    <2>2. QED
        BY <1>1, <1>5, <1>7, <2>1 DEF HasAdjacencies, HasPlaces, IsOnBorder
<1>11. HasAround(r)
    BY <1>1, <1>5, <1>7, <1>8 DEF HasAround, FindsPolygonAround
<1>12. HasLists(r)
    <2>1. ASSUME NEW u \in Vertices(m) PROVE IsCached(r, u)
        <3>1. CASE u = v
            <4>1. r.cached[u] = entry
                BY <1>6, <3>1
            <4>2. IsListAround(r, u, list)
                BY <1>2, <1>7, <3>1 DEF IsListAround
            <4>3. QED
                BY <1>4, <4>1, <4>2 DEF IsCached
        <3>2. CASE u # v
            <4>1. r.cached[u] = m.cached[u] /\ IsCached(m, u)
                BY <1>1, <1>6, <3>2 DEF HasLists
            <4>2. QED
                BY <1>7, <4>1 DEF IsCached, IsListAround
        <3>3. QED
            BY <3>1, <3>2
    <2>2. QED
        BY <1>6, <1>8, <2>1 DEF HasLists
<1>13. QED
    BY <1>1, <1>5, <1>9, <1>10, <1>11, <1>12 DEF IsSurface, r

-----------------------------------------------------------------------------
(* Lists that stay what a turn would give. *)

\* The polygon vertices at vertex v that adjacencies join: those of a walk
\* that nothing can prolong.
IsFan(m, v, F) ==
    \E u : \E K \in Nat :
        IsWalk(m, v, u, K) /\ IsClosed(m, v, u, K) /\ F = CornersOf(u, K)

\* What polygons_around_vertex() returns as it is cached is a fan.
HasFans(m) ==
    \A v \in ListsInUse(m) : IsFan(m, v, ToSet(m.cached[v].polygons))

\* A place at a polygon vertex of a walk is a place of it, or the same the
\* other way.
LEMMA PlaceOfWalk ==
    ASSUME NEW m, NEW v, NEW u, NEW K \in Nat, IsWalk(m, v, u, K),
           NEW a, IsPlace(m, v, a), a[1] \in CornersOf(u, K)
    PROVE  \E k \in 0 .. K : a = u[k] \/ a = Back(u[k])
<1>1. PICK k \in 0 .. K : a[1] = u[k][1]
    BY DEF CornersOf
<1>2. IsPlace(m, v, u[k])
    BY DEF IsWalk
<1>3. a[2] = u[k][2] \/ a[2] = ~u[k][2]
    BY <1>2 DEF IsPlace
<1>4. QED
    BY <1>1, <1>2, <1>3 DEF IsPlace, Back

\* What follows a place of a walk that nothing can prolong is in it.
LEMMA FollowerInWalk ==
    ASSUME NEW m, HasPolygons(m), NEW v, NEW u, NEW K \in Nat,
           IsWalk(m, v, u, K), IsClosed(m, v, u, K),
           NEW a, NEW b, Follows(m, v, a, b), a[1] \in CornersOf(u, K)
    PROVE  b[1] \in CornersOf(u, K)
<1>1. IsPlace(m, v, a) /\ IsPlace(m, v, b)
    BY DEF Follows
<1>2. PICK k \in 0 .. K : a = u[k] \/ a = Back(u[k])
    BY <1>1, PlaceOfWalk
<1>3. /\ \A c : Follows(m, v, a, c) => c = b
      /\ ~IsOnBorder(m, Exit(m, a))
    BY FollowerIsUnique
<1>4. IsPlace(m, v, u[k])
    BY DEF IsWalk
<1>5. CASE a = u[k]
    <2>1. CASE k = K
        <3>1. Follows(m, v, u[K], u[0])
            BY <1>3, <1>5, <2>1 DEF IsClosed
        <3>2. b = u[0]
            BY <1>3, <1>5, <2>1, <3>1
        <3>3. QED
            BY <3>2 DEF CornersOf
    <2>2. CASE k # K
        <3>1. k + 1 \in 1 .. K /\ (k + 1) - 1 = k /\ k + 1 \in 0 .. K
            BY <2>2
        <3>2. Follows(m, v, u[k], u[k + 1])
            BY <3>1 DEF IsWalk
        <3>3. b = u[k + 1]
            BY <1>3, <1>5, <3>2
        <3>4. QED
            BY <3>1, <3>3 DEF CornersOf
    <2>3. QED
        BY <2>1, <2>2
<1>6. CASE a = Back(u[k])
    <2>1. Exit(m, a) = Entry(m, u[k])
        BY <1>4, <1>6, BackOfPlace
    <2>2. CASE k = 0
        <3>1. Follows(m, v, u[K], u[0])
            BY <1>3, <2>1, <2>2 DEF IsClosed
        <3>2. Follows(m, v, Back(u[0]), Back(u[K]))
            BY <3>1, FollowsBack
        <3>3. b = Back(u[K])
            BY <1>3, <1>6, <2>2, <3>2
        <3>4. QED
            BY <3>3 DEF CornersOf, Back
    <2>3. CASE k # 0
        <3>1. k \in 1 .. K /\ k - 1 \in 0 .. K
            BY <2>3
        <3>2. Follows(m, v, u[k - 1], u[k])
            BY <3>1 DEF IsWalk
        <3>3. Follows(m, v, Back(u[k]), Back(u[k - 1]))
            BY <3>2, FollowsBack
        <3>4. b = Back(u[k - 1])
            BY <1>3, <1>6, <3>3
        <3>5. QED
            BY <3>1, <3>4 DEF CornersOf, Back
    <2>4. QED
        BY <2>2, <2>3
<1>7. QED
    BY <1>2, <1>5, <1>6

\* A walk that meets one that nothing can prolong is part of it.
LEMMA WalkInWalk ==
    ASSUME NEW m, HasPolygons(m), NEW v, NEW u, NEW K \in Nat,
           IsWalk(m, v, u, K), IsClosed(m, v, u, K),
           NEW t, NEW L \in Nat, IsWalk(m, v, t, L),
           NEW x \in CornersOf(u, K), x \in CornersOf(t, L)
    PROVE  CornersOf(t, L) \subseteq CornersOf(u, K)
<1> DEFINE InWalk(n) == t[n][1] \in CornersOf(u, K)
           S == {n \in Nat : n <= L => (InWalk(n) <=> InWalk(0))}
<1>1. ASSUME NEW n \in Nat, n < L
      PROVE  InWalk(n) <=> InWalk(n + 1)
    <2>1. n + 1 \in 1 .. L /\ (n + 1) - 1 = n
        BY <1>1
    <2>2. Follows(m, v, t[n], t[n + 1])
        BY <2>1 DEF IsWalk
    <2>3. Follows(m, v, Back(t[n + 1]), Back(t[n]))
        BY <2>2, FollowsBack
    <2>4. Back(t[n + 1])[1] = t[n + 1][1] /\ Back(t[n])[1] = t[n][1]
        BY DEF Back
    <2>5. InWalk(n) => InWalk(n + 1)
        BY <2>2, FollowerInWalk
    <2>6. InWalk(n + 1) => InWalk(n)
        BY <2>3, <2>4, FollowerInWalk
    <2>7. QED
        BY <2>5, <2>6
<1> HIDE DEF InWalk
<1>2. \A n \in 0 .. L : n \in S
    <2>1. 0 \in S
        OBVIOUS
    <2>2. ASSUME NEW n \in Nat, n < L, n \in S
          PROVE  n + 1 \in S
        BY <1>1, <2>2
    <2> HIDE DEF S
    <2>3. QED
        BY <2>1, <2>2, TurnInduction
<1>3. PICK j \in 0 .. L : x = t[j][1]
    BY DEF CornersOf
<1>4. InWalk(j)
    BY <1>3 DEF InWalk
<1>5. InWalk(0)
    BY <1>2, <1>4
<1>6. \A n \in 0 .. L : InWalk(n)
    BY <1>2, <1>5
<1>7. QED
    BY <1>6 DEF InWalk, CornersOf

\* What compute_polygons_around_vertex() lists is a fan.
LEMMA ComputedIsFan ==
    ASSUME NEW m, HasPolygons(m), HasAdjacencies(m), NEW v,
           NEW first \in CornersAt(m, v)
    PROVE  /\ IsFan(m, v, ToSet(ComputePolygonsAroundVertex(m, first)))
           /\ first \in ToSet(ComputePolygonsAroundVertex(m, first))
<1> DEFINE list == ComputePolygonsAroundVertex(m, first)
<1>1. PICK u, K : IsTrip(m, v, first, list, u, K) /\ IsClosed(m, v, u, K)
    BY ComputedIsTrip
<1> HIDE DEF list
<1>2. /\ K \in Nat /\ IsWalk(m, v, u, K)
      /\ ToSet(list) = CornersOf(u, K)
      /\ list \in Seq(CornersAt(m, v)) /\ Len(list) >= 1 /\ list[1] = first
    BY <1>1 DEF IsTrip, CornersOf
<1>3. first \in ToSet(list)
    <2>1. 1 \in DOMAIN list
        BY <1>2
    <2>2. QED
        BY <1>2, <2>1 DEF ToSet
<1>4. IsFan(m, v, ToSet(list))
    BY <1>1, <1>2 DEF IsFan
<1>5. QED
    BY <1>3, <1>4 DEF list

\* A list that is a fan is the one a turn would give.
LEMMA FanIsCurrent ==
    ASSUME NEW m, IsSurface(m), HasFans(m), NEW v \in Vertices(m)
    PROVE  HasCurrentList(m, v)
<1> DEFINE first == m.around[v]
           list == m.cached[v].polygons
           turned == ComputePolygonsAroundVertex(m, first)
<1>1. SUFFICES ASSUME m.cached[v].computed, first \in ToSet(list)
               PROVE  ToSet(list) = ToSet(turned)
    BY DEF HasCurrentList, PolygonsAroundVertex, UpdatedPolygonsAroundVertex
<1>2. HasPolygons(m) /\ HasAdjacencies(m) /\ IsCached(m, v)
    BY DEF IsSurface, HasLists
<1>3. list \in Seq(CornersAt(m, v))
    BY <1>1, <1>2 DEF IsCached, IsListAround
<1>4. first \in CornersAt(m, v)
    BY <1>1, <1>3 DEF ToSet
<1>5. v \in ListsInUse(m)
    BY <1>1 DEF ListsInUse, ComputedVertices
<1>6. PICK u : \E K \in Nat : /\ IsWalk(m, v, u, K)
                              /\ IsClosed(m, v, u, K)
                              /\ ToSet(list) = CornersOf(u, K)
    BY <1>5 DEF HasFans, IsFan
<1>7. PICK K \in Nat : /\ IsWalk(m, v, u, K)
                       /\ IsClosed(m, v, u, K)
                       /\ ToSet(list) = CornersOf(u, K)
    BY <1>6
<1>8. IsFan(m, v, ToSet(turned)) /\ first \in ToSet(turned)
    BY <1>2, <1>4, ComputedIsFan
<1> HIDE DEF first, list, turned
<1>9. PICK t : \E L \in Nat : /\ IsWalk(m, v, t, L)
                              /\ IsClosed(m, v, t, L)
                              /\ ToSet(turned) = CornersOf(t, L)
    BY <1>8 DEF IsFan
<1>10. PICK L \in Nat : /\ IsWalk(m, v, t, L)
                        /\ IsClosed(m, v, t, L)
                        /\ ToSet(turned) = CornersOf(t, L)
    BY <1>9
<1>11. CornersOf(t, L) \subseteq CornersOf(u, K)
    BY <1>1, <1>2, <1>7, <1>8, <1>10, WalkInWalk
<1>12. CornersOf(u, K) \subseteq CornersOf(t, L)
    BY <1>1, <1>2, <1>7, <1>8, <1>10, WalkInWalk
<1>13. QED
    BY <1>7, <1>10, <1>11, <1>12

\* The edges at vertex v.
EdgesAt(m, v) ==
    UNION {{x, PreviousPolygonVertex(m, x)} : x \in CornersAt(m, v)}

\* Nothing that a turn around vertex v of m reads is different in r, but for
\* new polygon vertices.
KeepsTurns(m, r, v) ==
    /\ \A x \in CornersAt(m, v) :
          /\ x \in CornersAt(r, v)
          /\ PreviousPolygonVertex(r, x) = PreviousPolygonVertex(m, x)
    /\ \A e \in EdgesAt(m, v) : AdjacentOf(r, e) = AdjacentOf(m, e)
    /\ \A e, f \in EdgesAt(m, v) : IsAcross(m, e, f) =>
          f \in PolygonVertices(r) /\ EdgeCycle(r, e) = EdgeCycle(r, f)

\* What follows around such a vertex follows still.
LEMMA FollowersStay ==
    ASSUME NEW m, NEW r, NEW v, KeepsTurns(m, r, v),
           NEW a, IsPlace(m, v, a)
    PROVE  /\ IsPlace(r, v, a)
           /\ Exit(r, a) = Exit(m, a)
           /\ Entry(r, a) = Entry(m, a)
           /\ IsOnBorder(m, Exit(m, a)) => IsOnBorder(r, Exit(r, a))
           /\ IsOnBorder(m, Entry(m, a)) => IsOnBorder(r, Entry(r, a))
           /\ \A b : Follows(m, v, a, b) => Follows(r, v, a, b)
<1>1. ASSUME NEW b, IsPlace(m, v, b)
      PROVE  /\ IsPlace(r, v, b)
             /\ Exit(r, b) = Exit(m, b)
             /\ Entry(r, b) = Entry(m, b)
             /\ Exit(m, b) \in EdgesAt(m, v)
             /\ Entry(m, b) \in EdgesAt(m, v)
             /\ AdjacentOf(r, Exit(m, b)) = AdjacentOf(m, Exit(m, b))
             /\ AdjacentOf(r, Entry(m, b)) = AdjacentOf(m, Entry(m, b))
    <2>1. b[1] \in CornersAt(m, v)
        BY <1>1 DEF IsPlace
    <2>2. /\ b[1] \in CornersAt(r, v)
          /\ PreviousPolygonVertex(r, b[1]) = PreviousPolygonVertex(m, b[1])
        BY <2>1 DEF KeepsTurns
    <2>3. {b[1], PreviousPolygonVertex(m, b[1])} \subseteq EdgesAt(m, v)
        BY <2>1 DEF EdgesAt
    <2>4. Exit(m, b) \in EdgesAt(m, v) /\ Entry(m, b) \in EdgesAt(m, v)
        BY <2>3 DEF Exit, Entry
    <2>5. IsPlace(r, v, b)
        BY <1>1, <2>2 DEF IsPlace
    <2>6. Exit(r, b) = Exit(m, b) /\ Entry(r, b) = Entry(m, b)
        BY <2>2 DEF Exit, Entry
    <2>7. QED
        BY <2>4, <2>5, <2>6 DEF KeepsTurns
<1>2. ASSUME NEW b, Follows(m, v, a, b)
      PROVE  Follows(r, v, a, b)
    <2> DEFINE e == Exit(m, a)
               f == Entry(m, b)
    <2>1. IsPlace(m, v, b) /\ IsAcross(m, e, f)
        BY <1>2 DEF Follows
    <2>2. e \in EdgesAt(m, v) /\ f \in EdgesAt(m, v)
        BY <1>1, <2>1
    <2>3. AdjacentOf(r, e) = AdjacentOf(m, e)
          /\ AdjacentOf(r, f) = AdjacentOf(m, f)
        BY <1>1, <2>1
    <2>4. f \in PolygonVertices(r) /\ EdgeCycle(r, e) = EdgeCycle(r, f)
        BY <2>1, <2>2 DEF KeepsTurns
    <2>5. IsAcross(r, e, f)
        BY <2>1, <2>3, <2>4 DEF IsAcross
    <2>6. IsPlace(r, v, a) /\ IsPlace(r, v, b)
          /\ Exit(r, a) = e /\ Entry(r, b) = f
        BY <1>1, <2>1
    <2>7. QED
        BY <2>5, <2>6 DEF Follows
<1>3. QED
    BY <1>1, <1>2 DEF IsOnBorder

\* A fan stays one.
LEMMA FanStays ==
    ASSUME NEW m, NEW r, NEW v, KeepsTurns(m, r, v), NEW F, IsFan(m, v, F)
    PROVE  IsFan(r, v, F)
<1>1. PICK u : \E K \in Nat : /\ IsWalk(m, v, u, K)
                              /\ IsClosed(m, v, u, K)
                              /\ F = CornersOf(u, K)
    BY DEF IsFan
<1>2. PICK K \in Nat : /\ IsWalk(m, v, u, K)
                       /\ IsClosed(m, v, u, K)
                       /\ F = CornersOf(u, K)
    BY <1>1
<1>3. \A k \in 0 .. K : IsPlace(m, v, u[k])
    BY <1>2 DEF IsWalk
<1>4. \A k \in 0 .. K : IsPlace(r, v, u[k])
    BY <1>3, FollowersStay
<1>5. \A k \in 1 .. K : Follows(r, v, u[k - 1], u[k])
    <2>1. TAKE k \in 1 .. K
    <2>2. k - 1 \in 0 .. K
        OBVIOUS
    <2>3. Follows(m, v, u[k - 1], u[k])
        BY <1>2 DEF IsWalk
    <2>4. QED
        BY <1>3, <2>2, <2>3, FollowersStay
<1>6. IsWalk(r, v, u, K)
    BY <1>4, <1>5 DEF IsWalk
<1>7. IsPlace(m, v, u[0]) /\ IsPlace(m, v, u[K])
    BY <1>3
<1>8. IsClosed(r, v, u, K)
    <2>1. CASE Follows(m, v, u[K], u[0])
        BY <1>7, <2>1, FollowersStay DEF IsClosed
    <2>2. CASE IsOnBorder(m, Entry(m, u[0])) /\ IsOnBorder(m, Exit(m, u[K]))
        <3>1. IsOnBorder(r, Entry(r, u[0]))
            BY <1>7, <2>2, FollowersStay
        <3>2. IsOnBorder(r, Exit(r, u[K]))
            BY <1>7, <2>2, FollowersStay
        <3>3. QED
            BY <3>1, <3>2 DEF IsClosed
    <2>3. QED
        BY <1>2, <2>1, <2>2 DEF IsClosed
<1>9. QED
    BY <1>2, <1>6, <1>8 DEF IsFan

\* A vertex whose polygon and list are kept, in the middle of the same turns.
KeepsList(m, r, v) ==
    /\ v \in Vertices(m)
    /\ r.around[v] = m.around[v]
    /\ r.cached[v] = m.cached[v]
    /\ KeepsTurns(m, r, v)

\* Its list stays a fan when it was one.
LEMMA ListStaysFan ==
    ASSUME NEW m, HasFans(m), NEW r, NEW v, KeepsList(m, r, v),
           v \in ListsInUse(r)
    PROVE  IsFan(r, v, ToSet(r.cached[v].polygons))
<1>1. v \in Vertices(m) /\ r.around[v] = m.around[v]
      /\ r.cached[v] = m.cached[v] /\ KeepsTurns(m, r, v)
    BY DEF KeepsList
<1>2. v \in ListsInUse(m)
    BY <1>1 DEF ListsInUse, ComputedVertices
<1>3. IsFan(m, v, ToSet(m.cached[v].polygons))
    BY <1>2 DEF HasFans
<1>4. QED
    BY <1>1, <1>3, FanStays

\* Lists stay fans when all those that are in use are kept.
LEMMA ListsStayFans ==
    ASSUME NEW m, HasFans(m), NEW r,
           \A v \in ListsInUse(r) : KeepsList(m, r, v)
    PROVE  HasFans(r)
<1>1. \A v \in ListsInUse(r) : IsFan(r, v, ToSet(r.cached[v].polygons))
    BY ListStaysFan
<1>2. QED
    BY <1>1 DEF HasFans

\* No list in use: none that is reset is.
LEMMA ResetIsNotInUse ==
    ASSUME NEW r, NEW v, r.cached[v] = NotComputed
    PROVE  v \notin ListsInUse(r)
BY DEF ListsInUse, ComputedVertices, NotComputed

\* The edges at a vertex.
LEMMA EdgeAtVertex ==
    ASSUME NEW m, HasPolygons(m), NEW v, NEW e \in EdgesAt(m, v)
    PROVE  /\ e \in PolygonVertices(m)
           /\ v \in EdgeCycle(m, e)
           /\ v \in VerticesOf(m, e[1])
           /\ e[1] \in Polygons(m)
<1>1. PICK x \in CornersAt(m, v) : e = x \/ e = PreviousPolygonVertex(m, x)
    BY DEF EdgesAt
<1>2. x \in PolygonVertices(m) /\ VertexOf(m, x) = v
    BY DEF CornersAt
<1>3. /\ PreviousPolygonVertex(m, x) \in PolygonVertices(m)
      /\ PreviousPolygonVertex(m, x)[1] = x[1]
      /\ NextPolygonVertex(m, PreviousPolygonVertex(m, x)) = x
    BY <1>2, StepsInPolygon
<1>4. e \in PolygonVertices(m) /\ e[1] = x[1]
    BY <1>1, <1>2, <1>3
<1>5. v \in EdgeCycle(m, e)
    BY <1>1, <1>2, <1>3 DEF EdgeCycle
<1>6. x[1] \in Polygons(m) /\ x[2] \in DOMAIN m.polygons[x[1]]
    BY <1>2, CornerIsPair
<1>7. v \in VerticesOf(m, x[1])
    BY <1>2, <1>6 DEF VerticesOf, VertexOf
<1>8. QED
    BY <1>4, <1>5, <1>6, <1>7

\* A turn stays the same where polygons and the adjacencies there do.
LEMMA SameTurns ==
    ASSUME NEW m, HasPolygons(m), NEW r, r.polygons = m.polygons, NEW v,
           \A e \in EdgesAt(m, v) : AdjacentOf(r, e) = AdjacentOf(m, e)
    PROVE  KeepsTurns(m, r, v)
<1>1. /\ PolygonVertices(r) = PolygonVertices(m)
      /\ CornersAt(r, v) = CornersAt(m, v)
      /\ \A x : /\ PreviousPolygonVertex(r, x) = PreviousPolygonVertex(m, x)
                /\ EdgeCycle(r, x) = EdgeCycle(m, x)
    BY SamePolygons
<1>2. \A e, f : IsAcross(m, e, f) =>
        f \in PolygonVertices(r) /\ EdgeCycle(r, e) = EdgeCycle(r, f)
    BY <1>1 DEF IsAcross
<1>3. QED
    BY <1>1, <1>2 DEF KeepsTurns

\* Operations that keep polygons and adjacencies, and keep or reset lists.
LEMMA ListsAreKeptOrReset ==
    ASSUME NEW m, HasPolygons(m), HasFans(m), NEW r,
           r.polygons = m.polygons, r.adjacent = m.adjacent,
           \A v \in ListsInUse(r) :
                /\ v \in Vertices(m)
                /\ r.around[v] = m.around[v]
                /\ r.cached[v] = m.cached[v]
    PROVE  HasFans(r)
<1>1. ASSUME NEW v \in ListsInUse(r)
      PROVE  KeepsList(m, r, v)
    <2>1. \A e \in EdgesAt(m, v) : AdjacentOf(r, e) = AdjacentOf(m, e)
        BY DEF AdjacentOf
    <2>2. KeepsTurns(m, r, v)
        BY <2>1, SameTurns
    <2>3. QED
        BY <2>2 DEF KeepsList
<1>2. QED
    BY <1>1, ListsStayFans

\* create_point()
LEMMA PointKeepsFans ==
    ASSUME NEW m, IsSurface(m), HasFans(m)
    PROVE  HasFans(CreatePoint(m))
<1> DEFINE r == CreatePoint(m)
           n == Size(m.around)
<1>1. /\ HasFields(m) /\ HasPolygons(m) /\ HasLists(m)
      /\ n \in Nat /\ Vertices(m) = IndexRange(n)
      /\ DOMAIN m.around = IndexRange(n)
      /\ DOMAIN m.cached = IndexRange(n)
    BY DEF IsSurface, HasPolygons, HasLists, Vertices
<1>2. /\ r.polygons = m.polygons
      /\ r.adjacent = m.adjacent
      /\ r.around = AppendElement(m.around, NoPolygonVertex)
      /\ r.cached = AppendElement(m.cached, NotComputed)
    BY <1>1 DEF CreatePoint, HasFields
<1> HIDE DEF r, n
<1>3. /\ DOMAIN r.around = IndexRange(n + 1)
      /\ \A v \in IndexRange(n) : r.around[v] = m.around[v]
      /\ IndexRange(n + 1) = IndexRange(n) \cup {n}
    BY <1>1, <1>2, AppendedVector
<1>4. /\ r.cached[n] = NotComputed
      /\ \A v \in IndexRange(n) : r.cached[v] = m.cached[v]
    BY <1>1, <1>2, AppendedVector
<1>5. ASSUME NEW v \in ListsInUse(r)
      PROVE  /\ v \in Vertices(m)
             /\ r.around[v] = m.around[v]
             /\ r.cached[v] = m.cached[v]
    <2>1. v \in IndexRange(n + 1)
        BY <1>3 DEF ListsInUse, ComputedVertices, Vertices
    <2>2. v # n
        BY <1>4, <1>5, ResetIsNotInUse
    <2>3. QED
        BY <1>1, <1>3, <1>4, <2>1, <2>2
<1>6. HasFans(r)
    BY <1>1, <1>2, <1>5, ListsAreKeptOrReset
<1>7. QED
    BY <1>6 DEF r

\* create_polygon()
LEMMA PolygonKeepsFans ==
    ASSUME NEW m, IsSurface(m), HasFans(m),
           NEW vertices, IsPolygon(vertices, Size(m.around))
    PROVE  HasFans(CreatePolygon(m, vertices))
<1> DEFINE r == CreatePolygon(m, vertices)
<1>1. HasPolygons(m) /\ HasLists(m)
    BY DEF IsSurface
<1>2. /\ Vertices(r) = Vertices(m)
      /\ r.cached = m.cached
      /\ \A x \in PolygonVertices(m) :
            /\ x \in PolygonVertices(r)
            /\ r.polygons[x[1]] = m.polygons[x[1]]
            /\ VertexOf(r, x) = VertexOf(m, x)
            /\ EdgeCycle(r, x) = EdgeCycle(m, x)
            /\ AdjacentOf(r, x) = AdjacentOf(m, x)
      /\ \A v \in Vertices(m) :
            r.around[v] = m.around[v] \/ r.around[v] \notin PolygonVertices(m)
    BY PolygonKeepsSurface
<1> HIDE DEF r
<1>3. ASSUME NEW v
      PROVE  KeepsTurns(m, r, v)
    <2>1. \A x \in CornersAt(m, v) : x \in CornersAt(r, v)
        BY <1>2 DEF CornersAt
    <2>2. \A x \in CornersAt(m, v) :
            PreviousPolygonVertex(r, x) = PreviousPolygonVertex(m, x)
        BY <1>2 DEF CornersAt, PreviousPolygonVertex
    <2>3. \A e \in EdgesAt(m, v) : e \in PolygonVertices(m)
        BY <1>1, EdgeAtVertex
    <2>4. \A e, f \in EdgesAt(m, v) : IsAcross(m, e, f) =>
            f \in PolygonVertices(r) /\ EdgeCycle(r, e) = EdgeCycle(r, f)
        BY <1>2, <2>3 DEF IsAcross
    <2>5. \A e \in EdgesAt(m, v) : AdjacentOf(r, e) = AdjacentOf(m, e)
        BY <1>2, <2>3
    <2>6. QED
        BY <2>1, <2>2, <2>4, <2>5 DEF KeepsTurns
<1>4. ASSUME NEW v \in ListsInUse(r)
      PROVE  KeepsList(m, r, v)
    <2>1. /\ v \in Vertices(m)
          /\ m.cached[v].computed
          /\ r.around[v] \in ToSet(m.cached[v].polygons)
        BY <1>2 DEF ListsInUse, ComputedVertices
    <2>2. m.cached[v].polygons \in Seq(CornersAt(m, v))
        BY <1>1, <2>1 DEF HasLists, IsCached, IsListAround
    <2>3. ToSet(m.cached[v].polygons) \subseteq CornersAt(m, v)
        BY <2>2 DEF ToSet
    <2>4. r.around[v] \in PolygonVertices(m)
        BY <2>1, <2>3 DEF CornersAt
    <2>5. r.around[v] = m.around[v]
        BY <1>2, <2>1, <2>4
    <2>6. QED
        BY <1>2, <1>3, <2>1, <2>5 DEF KeepsList
<1>5. HasFans(r)
    BY <1>4, ListsStayFans
<1>6. QED
    BY <1>5 DEF r

\* compute_polygon_adjacencies() writes to adjacencies only.
LEMMA ComputeSetsAdjacent ==
    ASSUME NEW m, IsSurface(m), NEW S \in SUBSET Polygons(m),
           m.enabled => S = Polygons(m)
    PROVE  SameButAdjacent(m, ComputePolygonAdjacencies(m, S))
<1>1. HasFields(m) /\ HasPolygons(m) /\ HasAdjacencies(m)
    BY DEF IsSurface
<1>2. CASE m.enabled
    <2>1. ComputePolygonAdjacencies(m, S) = ConnectByEdges(m, Polygons(m))
        BY <1>2 DEF ComputePolygonAdjacencies
    <2>2. QED
        BY <1>1, <2>1, PairsAreConnected
<1>3. CASE ~m.enabled
    <2>1. ComputePolygonAdjacencies(m, S) = ConnectBorders(m, S)
        BY <1>3 DEF ComputePolygonAdjacencies
    <2>2. QED
        BY <1>1, <2>1, BordersAreConnected
<1>4. QED
    BY <1>2, <1>3

\* compute_polygon_adjacencies(), when no list in use is concerned.
LEMMA ComputeKeepsFans ==
    ASSUME NEW m, IsSurface(m), HasFans(m), NEW S \in SUBSET Polygons(m),
           m.enabled => S = Polygons(m),
           KeepsLists(m, ComputePolygonAdjacencies(m, S))
    PROVE  HasFans(ComputePolygonAdjacencies(m, S))
<1> DEFINE r == ComputePolygonAdjacencies(m, S)
<1>1. HasPolygons(m)
    BY DEF IsSurface
<1>2. SameButAdjacent(m, r)
    BY ComputeSetsAdjacent
<1>3. KeepsLists(m, r)
    OBVIOUS
<1> HIDE DEF r
<1>4. r.polygons = m.polygons /\ r.around = m.around /\ r.cached = m.cached
    BY <1>2 DEF SameButAdjacent
<1>5. ListsInUse(r) = ListsInUse(m) /\ Vertices(r) = Vertices(m)
    BY <1>4 DEF ListsInUse, ComputedVertices, Vertices
<1>6. ASSUME NEW v \in ListsInUse(r)
      PROVE  KeepsList(m, r, v)
    <2>1. ASSUME NEW e \in EdgesAt(m, v)
          PROVE  AdjacentOf(r, e) = AdjacentOf(m, e)
        <3>1. e \in PolygonVertices(m) /\ v \in EdgeCycle(m, e)
            BY <1>1, EdgeAtVertex
        <3>2. EdgeCycle(m, e) \cap ListsInUse(m) # {}
            BY <1>5, <1>6, <3>1
        <3>3. QED
            BY <1>3, <3>1, <3>2 DEF KeepsLists
    <2>2. KeepsTurns(m, r, v)
        BY <1>1, <1>4, <2>1, SameTurns
    <2>3. v \in Vertices(m)
        BY <1>5, <1>6 DEF ListsInUse, ComputedVertices
    <2>4. QED
        BY <1>4, <2>2, <2>3 DEF KeepsList
<1>7. HasFans(r)
    BY <1>6, ListsStayFans
<1>8. QED
    BY <1>7 DEF r

\* unset_polygon_adjacent() of an edge that is not on border.
LEMMA UnsetKeepsFans ==
    ASSUME NEW m, IsSurface(m), HasFans(m),
           NEW x \in PolygonVertices(m), ~IsOnBorder(m, x)
    PROVE  HasFans(UnsetPolygonAdjacents(m, x))
<1> DEFINE y == PolygonAdjacentEdge(m, x)
           a == SetPolygonAdjacent(m, x, NoId)
           r == SetPolygonAdjacent(a, y, NoId)
           PV == PolygonVertices(m)
           V == EdgeCycle(m, x)
<1>1. /\ HasFields(m) /\ HasPolygons(m) /\ HasPlaces(m) /\ HasLists(m)
      /\ \A z \in PV : ~IsOnBorder(m, z) => \E w : IsAcross(m, z, w)
    BY DEF IsSurface, HasAdjacencies
<1>2. y \in PV /\ EdgeCycle(m, y) = V
    <2>1. PICK w : IsAcross(m, x, w)
        BY <1>1
    <2>2. IsAcross(m, x, y)
        BY <1>1, <2>1, AcrossIsFound
    <2>3. QED
        BY <2>2 DEF IsAcross
<1>3. /\ HasFields(a)
      /\ HasPolygons(a)
      /\ HasPlaces(a)
      /\ a.polygons = m.polygons
      /\ a.around = m.around
      /\ a.cached = [v \in DOMAIN m.cached |->
            IF v \in V THEN NotComputed ELSE m.cached[v]]
      /\ PolygonVertices(a) = PV
      /\ \A z : EdgeCycle(a, z) = EdgeCycle(m, z)
      /\ \A z \in PV : AdjacentOf(a, z) =
            IF z = x THEN NoId ELSE AdjacentOf(m, z)
    BY <1>1, OneIsSetAndReset
<1> HIDE DEF a, y
<1>4. /\ r.polygons = a.polygons
      /\ r.around = a.around
      /\ r.cached = [v \in DOMAIN a.cached |->
            IF v \in EdgeCycle(a, y) THEN NotComputed ELSE a.cached[v]]
      /\ \A z \in PolygonVertices(a) : AdjacentOf(r, z) =
            IF z = y THEN NoId ELSE AdjacentOf(a, z)
    BY <1>2, <1>3, OneIsSetAndReset
<1> HIDE DEF r
<1>5. /\ r.polygons = m.polygons /\ r.around = m.around
      /\ \A z \in PV \ {x, y} : AdjacentOf(r, z) = AdjacentOf(m, z)
    BY <1>3, <1>4
<1>6. \A v \in Vertices(m) :
        r.cached[v] = IF v \in V THEN NotComputed ELSE m.cached[v]
    BY <1>1, <1>2, <1>3, <1>4 DEF HasLists
<1>7. ASSUME NEW v \in ListsInUse(r)
      PROVE  KeepsList(m, r, v)
    <2>1. v \in Vertices(m)
        BY <1>5 DEF ListsInUse, ComputedVertices, Vertices
    <2>2. v \notin V
        BY <1>6, <1>7, <2>1, ResetIsNotInUse
    <2>3. ASSUME NEW e \in EdgesAt(m, v)
          PROVE  AdjacentOf(r, e) = AdjacentOf(m, e)
        <3>1. e \in PV /\ v \in EdgeCycle(m, e)
            BY <1>1, EdgeAtVertex
        <3>2. e # x /\ e # y
            BY <1>2, <2>2, <3>1
        <3>3. QED
            BY <1>5, <3>1, <3>2
    <2>4. KeepsTurns(m, r, v)
        BY <1>1, <1>5, <2>3, SameTurns
    <2>5. QED
        BY <1>5, <1>6, <2>1, <2>2, <2>4 DEF KeepsList
<1>8. HasFans(r)
    BY <1>7, ListsStayFans
<1>9. QED
    BY <1>8 DEF r, a, y, UnsetPolygonAdjacents

\* copy() caches no list.
LEMMA CopyHasFans ==
    ASSUME NEW m, IsSurface(m)
    PROVE  HasFans(CopyMesh(m))
<1> DEFINE r == CopyMesh(m)
<1>1. Vertices(r) = Vertices(m)
      /\ \A v \in Vertices(m) : r.cached[v] = NotComputed
    BY CopyKeepsSurface
<1> HIDE DEF r
<1>2. ListsInUse(r) = {}
    <2>1. \A v \in Vertices(r) : v \notin ListsInUse(r)
        BY <1>1, ResetIsNotInUse
    <2>2. QED
        BY <2>1 DEF ListsInUse, ComputedVertices
<1>3. HasFans(r)
    BY <1>2 DEF HasFans
<1>4. QED
    BY <1>3 DEF r

\* Operations that change the edges only.
LEMMA EdgesKeepFans ==
    ASSUME NEW m, IsSurface(m), HasFans(m), NEW r,
           r.polygons = m.polygons, r.adjacent = m.adjacent,
           r.around = m.around, r.cached = m.cached
    PROVE  HasFans(r)
<1>1. \A v \in ListsInUse(r) : v \in Vertices(m)
    BY DEF ListsInUse, ComputedVertices, Vertices
<1>2. HasPolygons(m)
    BY DEF IsSurface
<1>3. QED
    BY <1>1, <1>2, ListsAreKeptOrReset

\* enable_edges(), disable_edges() and delete_isolated_edges()
LEMMA EdgeOperationsKeepFans ==
    ASSUME NEW m, IsSurface(m), HasFans(m)
    PROVE  /\ HasFans(EnableEdges(m))
           /\ HasFans(DisableEdges(m))
           /\ HasFans(DeleteIsolatedEdges(m))
<1>1. HasFields(m)
    BY DEF IsSurface
<1>2. ASSUME NEW enabled, NEW edges,
             NEW r, r = [m EXCEPT !.enabled = enabled, !.edges = edges]
      PROVE  HasFans(r)
    <2>1. /\ r.polygons = m.polygons
          /\ r.adjacent = m.adjacent
          /\ r.around = m.around
          /\ r.cached = m.cached
        BY <1>1, <1>2 DEF HasFields
    <2>2. QED
        BY <2>1, EdgesKeepFans
<1>3. HasFans(EnableEdges(m))
    <2>1. CASE m.enabled
        BY <2>1 DEF EnableEdges
    <2>2. CASE ~m.enabled
        BY <1>2, <2>2 DEF EnableEdges
    <2>3. QED
        BY <2>1, <2>2
<1>4. HasFans(DisableEdges(m))
    BY <1>2 DEF DisableEdges
<1>5. HasFans(DeleteIsolatedEdges(m))
    <2> DEFINE edges == CleanFacets(m.edges)
    <2>1. DeleteIsolatedEdges(m) = [m EXCEPT !.edges = edges]
        BY DEF DeleteIsolatedEdges
    <2> HIDE DEF edges
    <2>2. [m EXCEPT !.edges = edges]
            = [m EXCEPT !.enabled = m.enabled, !.edges = edges]
        BY <1>1 DEF HasFields
    <2>3. QED
        BY <1>2, <2>1, <2>2
<1>6. QED
    BY <1>3, <1>4, <1>5

\* polygons_around_vertex(), of a vertex or of one of its polygon vertices:
\* the list was a fan already, or is one that a turn gives now.
LEMMA QueryKeepsFans ==
    ASSUME NEW m, IsSurface(m), HasFans(m), NEW v \in Vertices(m), NEW first,
           first \in CornersAt(m, v) \cup {m.around[v]}
    PROVE  HasFans(QueryPolygonsAround(m, v, first))
<1> DEFINE list == UpdatedPolygonsAroundVertex(m, v, first)
           entry == [computed |-> TRUE, polygons |-> list]
           r == QueryPolygonsAround(m, v, first)
<1>1. /\ HasFields(m) /\ HasPolygons(m) /\ HasAdjacencies(m)
      /\ HasAround(m) /\ HasLists(m)
    BY DEF IsSurface
<1>2. IsListAround(m, v, list)
    BY UpdatedIsListAround
<1>3. r = [m EXCEPT !.cached[v] = entry]
    BY DEF QueryPolygonsAround
<1>4. entry.polygons = list
    OBVIOUS
<1> HIDE DEF list, r, entry
<1>5. /\ r.polygons = m.polygons
      /\ r.adjacent = m.adjacent
      /\ r.around = m.around
      /\ r.cached = [m.cached EXCEPT ![v] = entry]
    BY <1>1, <1>3 DEF HasFields
<1>6. \A u \in Vertices(m) :
        r.cached[u] = IF u = v THEN entry ELSE m.cached[u]
    BY <1>1, <1>5 DEF HasLists
<1>7. Vertices(r) = Vertices(m)
    BY <1>5 DEF Vertices
<1>8. ASSUME NEW u \in Vertices(m)
      PROVE  KeepsTurns(m, r, u)
    <2>1. \A e : AdjacentOf(r, e) = AdjacentOf(m, e)
        BY <1>5 DEF AdjacentOf
    <2>2. QED
        BY <1>1, <1>5, <2>1, SameTurns
<1>9. ASSUME NEW u \in ListsInUse(r)
      PROVE  IsFan(r, u, ToSet(r.cached[u].polygons))
    <2>1. u \in Vertices(m) /\ m.around[u] \in ToSet(r.cached[u].polygons)
        BY <1>5, <1>7, <1>9 DEF ListsInUse, ComputedVertices
    <2>2. CASE u # v
        <3>1. KeepsList(m, r, u)
            BY <1>5, <1>6, <1>8, <2>1, <2>2 DEF KeepsList
        <3>2. QED
            BY <1>9, <3>1, ListStaysFan
    <2>3. CASE u = v
        <3>1. r.cached[v].polygons = list
            BY <1>4, <1>6
        <3>2. list \in Seq(CornersAt(m, v))
            BY <1>2 DEF IsListAround
        <3>3. m.around[v] \in CornersAt(m, v)
            BY <2>1, <2>3, <3>1, <3>2 DEF ToSet
        <3>4. first \in CornersAt(m, v)
            BY <3>3
        <3>5. IsFan(m, v, ToSet(list))
            <4>1. CASE m.cached[v].computed
                       /\ first \in ToSet(m.cached[v].polygons)
                <5>1. list = m.cached[v].polygons
                    BY <4>1 DEF list, UpdatedPolygonsAroundVertex
                <5>2. v \in ListsInUse(m)
                    BY <2>1, <2>3, <3>1, <4>1, <5>1
                    DEF ListsInUse, ComputedVertices
                <5>3. QED
                    BY <5>1, <5>2 DEF HasFans
            <4>2. CASE ~(m.cached[v].computed
                         /\ first \in ToSet(m.cached[v].polygons))
                <5>1. list = ComputePolygonsAroundVertex(m, first)
                    BY <4>2 DEF list, UpdatedPolygonsAroundVertex
                <5>2. QED
                    BY <1>1, <3>4, <5>1, ComputedIsFan
            <4>3. QED
                BY <4>1, <4>2
        <3>6. IsFan(r, v, ToSet(list))
            BY <1>8, <3>5, FanStays
        <3>7. QED
            BY <2>3, <3>1, <3>6
    <2>4. QED
        BY <2>2, <2>3
<1>10. HasFans(r)
    BY <1>9 DEF HasFans
<1>11. QED
    BY <1>10 DEF r
=============================================================================
