---------------------- MODULE SurfaceMeshBuilder_proof ----------------------
(***************************************************************************)
(* What the polygons, the adjacencies, the polygons around the vertices,   *)
(* the lists and the edges of a surface say of each other, whatever is     *)
(* done to it.                                                             *)
(*                                                                         *)
(* Every operation keeps IsSurface and HasFans, and with the edges enabled *)
(* HasEdges: each facet of the storage, which numbers its facets one to    *)
(* one, counts the polygon edges that use it. A step of an operation is    *)
(* one user more, one less, or one that goes from a facet to another, and  *)
(* the operations that renumber polygons, vertices or facets carry users   *)
(* and facets one to one.                                                  *)
(*                                                                         *)
(* Which edges compute_polygon_adjacencies() connects in the end follows   *)
(* from what the edges met so far have for adjacents, AreJoined. Inside    *)
(* the loops that renumber and replace vertices the polygons are moved one *)
(* vertex at a time, IsCarried and IsEdged.                                *)
(*                                                                         *)
(* The lists are values computed on demand. That computing them from       *)
(* several threads is safe is the last part, about CachedValue: between    *)
(* "recheck" and "unlock" a thread holds the mutex, so at most one thread  *)
(* is there (Inv, second conjunct). It goes on to compute only when        *)
(* computed_ is false, and nobody else can set it before this thread does; *)
(* as long as computed_ is false nobody reads, and once it is true the     *)
(* value is whole and nobody assigns it.                                   *)
(***************************************************************************)
EXTENDS SurfaceMesh_proof, CachedValue

-----------------------------------------------------------------------------
(* Polygons that are deleted and permuted. *)

\* update_polygon_around() and update_polygon_adjacencies()
PolygonsUpdated(m, old2new) ==
    UpdatePolygonAdjacencies(UpdatePolygonAround(m, old2new), old2new)

\* The vertices of the polygons that are renumbered or deleted.
ChangedVertices(m, old2new) ==
    UNION {VerticesOf(m, p) : p \in {p \in Polygons(m) : old2new[p] # p}}

\* The polygon vertices that are left.
LeftCorners(m, old2new) ==
    {x \in PolygonVertices(m) : old2new[x[1]] # NoId}

\* What becomes of the polygon around vertex v.
AroundUpdated(m, old2new, v) ==
    LET left == Kept(PolygonsAroundVertex(m, v), LeftCorners(m, old2new))
    IN  IF m.around[v] = NoPolygonVertex
        THEN NoPolygonVertex
        ELSE IF old2new[m.around[v][1]] # NoId
        THEN Renumbered(old2new, m.around[v])
        ELSE IF left = <<>>
        THEN NoPolygonVertex
        ELSE Renumbered(old2new, left[1])

\* What the two change.
LEMMA UpdatedFields ==
    ASSUME NEW m, HasFields(m), NEW old2new
    PROVE  LET r == PolygonsUpdated(m, old2new)
           IN  /\ HasFields(r)
               /\ r.polygons = m.polygons
               /\ r.adjacent = [p \in Polygons(m) |->
                    [i \in DOMAIN m.adjacent[p] |->
                        IF m.adjacent[p][i] = NoId
                        THEN NoId ELSE old2new[m.adjacent[p][i]]]]
               /\ r.around = [v \in Vertices(m) |->
                    AroundUpdated(m, old2new, v)]
               /\ r.cached = [v \in DOMAIN m.cached |->
                    IF v \in ChangedVertices(m, old2new)
                    THEN NotComputed ELSE m.cached[v]]
               /\ r.enabled = m.enabled
               /\ r.edges = m.edges
<1> DEFINE a == ResetAround(m, ChangedVertices(m, old2new))
           around == [v \in Vertices(m) |-> AroundUpdated(m, old2new, v)]
           u == UpdatePolygonAround(m, old2new)
           r == UpdatePolygonAdjacencies(u, old2new)
           Adjacent(k) == [p \in Polygons(k) |->
                [i \in DOMAIN k.adjacent[p] |->
                    IF k.adjacent[p][i] = NoId
                    THEN NoId ELSE old2new[k.adjacent[p][i]]]]
<1>1. /\ HasFields(a)
      /\ a.polygons = m.polygons
      /\ a.adjacent = m.adjacent
      /\ a.around = m.around
      /\ a.cached = [v \in DOMAIN m.cached |->
            IF v \in ChangedVertices(m, old2new)
            THEN NotComputed ELSE m.cached[v]]
      /\ a.enabled = m.enabled
      /\ a.edges = m.edges
    BY ResetFields
<1>2. u = [a EXCEPT !.around = around]
    BY <1>1 DEF UpdatePolygonAround, AroundUpdated, Renumbered, LeftCorners,
        ChangedVertices
<1> HIDE DEF a, around, u
<1>3. /\ HasFields(u)
      /\ u.polygons = a.polygons
      /\ u.adjacent = a.adjacent
      /\ u.around = around
      /\ u.cached = a.cached
      /\ u.enabled = a.enabled
      /\ u.edges = a.edges
    BY <1>1, <1>2 DEF HasFields
<1>4. r = [u EXCEPT !.adjacent = Adjacent(u)]
    BY DEF UpdatePolygonAdjacencies
<1> HIDE DEF r
<1>5. Adjacent(u) = Adjacent(m)
    BY <1>1, <1>3 DEF Polygons
<1> HIDE DEF Adjacent
<1>6. /\ HasFields(r)
      /\ r.polygons = m.polygons
      /\ r.adjacent = Adjacent(m)
      /\ r.around = around
      /\ r.cached = a.cached
      /\ r.enabled = m.enabled
      /\ r.edges = m.edges
    BY <1>1, <1>3, <1>4, <1>5 DEF HasFields
<1>7. QED
    BY <1>1, <1>6 DEF r, u, around, Adjacent, PolygonsUpdated

\* The fan around a vertex is not deleted while there is another one.
IsFanSafe(m, old2new, v) ==
    m.around[v] # NoPolygonVertex /\ old2new[m.around[v][1]] = NoId =>
        \/ IsManifold(m, v)
        \/ \E x \in ToSet(PolygonsAroundVertex(m, v)) : old2new[x[1]] # NoId

\* A surface whose polygons are renumbered is one.
LEMMA RenumberedSurface ==
    ASSUME NEW m, IsSurface(m), NEW r, HasFields(r), NEW old2new,
           HasRenumbered(m, r, old2new),
           \A v \in Vertices(m) : IsFanSafe(m, old2new, v),
           r.around = [v \in Vertices(m) |-> AroundUpdated(m, old2new, v)],
           r.cached = [v \in DOMAIN m.cached |->
                IF v \in ChangedVertices(m, old2new)
                THEN NotComputed ELSE m.cached[v]],
           r.enabled = m.enabled
    PROVE  IsSurface(r)
<1>1. /\ HasFields(m) /\ HasPolygons(m) /\ HasAdjacencies(m)
      /\ HasAround(m) /\ HasLists(m) /\ m.enabled \in BOOLEAN
    BY DEF IsSurface
<1>2. HasPolygons(r) /\ HasAdjacencies(r)
    BY <1>1, RenumberedPolygons
<1>3. Vertices(r) = Vertices(m)
    BY DEF HasRenumbered
<1>4. ASSUME NEW x \in PolygonVertices(m), old2new[x[1]] # NoId
      PROVE  Renumbered(old2new, x) \in CornersAt(r, VertexOf(m, x))
    BY <1>1, <1>4, RenumberedCorner DEF CornersAt
<1>5. ASSUME NEW v,
             \A x \in CornersAt(m, v) : old2new[x[1]] = NoId
      PROVE  CornersAt(r, v) = {}
    <2>1. SUFFICES ASSUME NEW y \in PolygonVertices(r), VertexOf(r, y) = v
                   PROVE  FALSE
        BY DEF CornersAt
    <2>2. PICK x \in PolygonVertices(m) :
                old2new[x[1]] # NoId /\ y = Renumbered(old2new, x)
        BY <1>1, RenumberedFrom
    <2>3. VertexOf(m, x) = v
        BY <1>1, <2>1, <2>2, RenumberedCorner
    <2>4. QED
        BY <1>5, <2>2, <2>3 DEF CornersAt
<1>6. ASSUME NEW v \in Vertices(m) PROVE FindsPolygonAround(r, v)
    <2> DEFINE list == PolygonsAroundVertex(m, v)
               left == Kept(list, LeftCorners(m, old2new))
               x == m.around[v]
    <2>1. r.around[v] = IF x = NoPolygonVertex
                        THEN NoPolygonVertex
                        ELSE IF old2new[x[1]] # NoId
                        THEN Renumbered(old2new, x)
                        ELSE IF left = <<>>
                        THEN NoPolygonVertex
                        ELSE Renumbered(old2new, left[1])
        BY DEF AroundUpdated
    <2>2. FindsPolygonAround(m, v)
        BY <1>1 DEF HasAround
    <2>3. IsListAround(m, v, list)
        BY UpdatedIsListAround DEF PolygonsAroundVertex
    <2>4. /\ left \in Seq(CornersAt(m, v))
          /\ ToSet(left) = ToSet(list) \cap LeftCorners(m, old2new)
        BY <2>3, KeptElements DEF IsListAround
    <2> HIDE DEF list, left
    <2>5. CASE x = NoPolygonVertex
        <3>1. CornersAt(m, v) = {}
            <4>1. ASSUME NoPolygonVertex \in CornersAt(m, v) PROVE FALSE
                <5>1. NoPolygonVertex[1] \in Polygons(m)
                    BY <4>1, CornerIsPair DEF CornersAt
                <5>2. QED
                    BY <1>1, <5>1
                    DEF NoPolygonVertex, HasPolygons, IndexRange, NoId
            <4>2. QED
                BY <2>2, <2>5, <4>1 DEF FindsPolygonAround
        <3>2. CornersAt(r, v) = {}
            BY <1>5, <3>1
        <3>3. QED
            BY <2>1, <2>5, <3>2 DEF FindsPolygonAround
    <2>6. CASE x # NoPolygonVertex /\ old2new[x[1]] # NoId
        <3>1. x \in CornersAt(m, v)
            BY <2>2, <2>6 DEF FindsPolygonAround
        <3>2. Renumbered(old2new, x) \in CornersAt(r, v)
            BY <1>4, <2>6, <3>1 DEF CornersAt
        <3>3. QED
            BY <2>1, <2>6, <3>2 DEF FindsPolygonAround
    <2>7. CASE x # NoPolygonVertex /\ old2new[x[1]] = NoId
        <3>1. CASE left = <<>>
            <4>1. ToSet(left) = {}
                BY <3>1 DEF ToSet
            <4>2. ~ \E y \in ToSet(list) : old2new[y[1]] # NoId
                <5>1. ASSUME NEW y \in ToSet(list)
                      PROVE  y \in PolygonVertices(m)
                    BY <2>3 DEF IsListAround, ToSet, CornersAt
                <5>2. QED
                    BY <2>4, <4>1, <5>1 DEF LeftCorners
            <4>3. ToSet(list) = CornersAt(m, v)
                BY <2>7, <4>2 DEF IsFanSafe, IsManifold, list
            <4>4. CornersAt(r, v) = {}
                BY <1>5, <4>2, <4>3
            <4>5. QED
                BY <2>1, <2>7, <3>1, <4>4 DEF FindsPolygonAround
        <3>2. CASE left # <<>>
            <4>1. 1 \in DOMAIN left
                BY <2>4, <3>2
            <4>2. left[1] \in ToSet(left) /\ left[1] \in CornersAt(m, v)
                BY <2>4, <4>1 DEF ToSet
            <4>3. old2new[left[1][1]] # NoId
                BY <2>4, <4>2 DEF LeftCorners
            <4>4. Renumbered(old2new, left[1]) \in CornersAt(r, v)
                BY <1>4, <4>2, <4>3 DEF CornersAt
            <4>5. QED
                BY <2>1, <2>7, <3>2, <4>4 DEF FindsPolygonAround
        <3>3. QED
            BY <3>1, <3>2
    <2>8. QED
        BY <2>5, <2>6, <2>7
<1>7. HasAround(r)
    <2>1. r.around = [v \in Vertices(m) |-> r.around[v]]
        OBVIOUS
    <2>2. QED
        BY <1>3, <1>6, <2>1 DEF HasAround
<1>8. ASSUME NEW v \in Vertices(m) PROVE IsCached(r, v)
    <2>1. IsCached(m, v)
        BY <1>1 DEF HasLists
    <2>2. CASE v \in ChangedVertices(m, old2new)
        <3>1. NotComputed.computed = FALSE
            BY DEF NotComputed
        <3>2. r.cached[v] = NotComputed
            BY <1>1, <2>2 DEF HasLists
        <3>3. r.cached[v].computed = FALSE
            BY <3>1, <3>2
        <3>4. QED
            BY <3>2, <3>3 DEF IsCached
    <2>3. CASE v \notin ChangedVertices(m, old2new)
        <3>1. r.cached[v] = m.cached[v]
            BY <1>1, <2>3 DEF HasLists
        <3>2. ASSUME NEW x \in CornersAt(m, v) PROVE x \in CornersAt(r, v)
            <4>1. /\ x \in PolygonVertices(m) /\ VertexOf(m, x) = v
                  /\ x = <<x[1], x[2]>> /\ x[1] \in Polygons(m)
                  /\ x[2] \in DOMAIN m.polygons[x[1]]
                BY CornerIsPair DEF CornersAt
            <4>2. v \in VerticesOf(m, x[1])
                BY <4>1 DEF VerticesOf, VertexOf
            <4>3. old2new[x[1]] = x[1]
                BY <2>3, <4>1, <4>2 DEF ChangedVertices
            <4>4. x[1] # NoId
                BY <1>1, <4>1 DEF HasPolygons, IndexRange, NoId
            <4>5. Renumbered(old2new, x) = x
                BY <4>1, <4>3 DEF Renumbered
            <4>6. QED
                BY <1>4, <4>1, <4>3, <4>4, <4>5
        <3>3. \A list : IsListAround(m, v, list) => IsListAround(r, v, list)
            <4>1. SUFFICES ASSUME NEW list \in Seq(CornersAt(m, v))
                           PROVE  list \in Seq(CornersAt(r, v))
                BY DEF IsListAround
            <4>2. CornersAt(m, v) \subseteq CornersAt(r, v)
                BY <3>2
            <4>3. QED
                BY <4>2
        <3>4. QED
            BY <2>1, <3>1, <3>3 DEF IsCached
    <2>4. QED
        BY <2>2, <2>3
<1>9. HasLists(r)
    <2>1. DOMAIN r.cached = Vertices(m)
          /\ r.cached = [v \in Vertices(m) |-> r.cached[v]]
        BY <1>1 DEF HasLists
    <2>2. QED
        BY <1>3, <1>8, <2>1 DEF HasLists
<1>10. QED
    BY <1>1, <1>2, <1>7, <1>9 DEF IsSurface

\* The vertices of an edge are vertices of its polygon.
LEMMA EdgeVerticesOf ==
    ASSUME NEW m, HasPolygons(m), NEW x \in PolygonVertices(m),
           NEW v \in EdgeCycle(m, x)
    PROVE  x[1] \in Polygons(m) /\ v \in VerticesOf(m, x[1])
<1>1. /\ NextPolygonVertex(m, x) \in PolygonVertices(m)
      /\ NextPolygonVertex(m, x)[1] = x[1]
    BY StepsInPolygon
<1>2. PICK y \in PolygonVertices(m) : y[1] = x[1] /\ VertexOf(m, y) = v
    BY <1>1 DEF EdgeCycle
<1>3. y[1] \in Polygons(m) /\ y[2] \in DOMAIN m.polygons[y[1]]
    BY CornerIsPair
<1>4. QED
    BY <1>2, <1>3 DEF VerticesOf, VertexOf

\* A turn stays the same where the polygons at the vertex do.
LEMMA SamePolygonsAtVertex ==
    ASSUME NEW m, HasPolygons(m), NEW r, NEW v,
           \A x \in PolygonVertices(m) : v \in VerticesOf(m, x[1]) =>
                /\ x \in PolygonVertices(r)
                /\ r.polygons[x[1]] = m.polygons[x[1]]
                /\ VertexOf(r, x) = VertexOf(m, x)
                /\ EdgeCycle(r, x) = EdgeCycle(m, x),
           \A e \in EdgesAt(m, v) : AdjacentOf(r, e) = AdjacentOf(m, e)
    PROVE  KeepsTurns(m, r, v)
<1>1. ASSUME NEW x \in CornersAt(m, v)
      PROVE  /\ x \in CornersAt(r, v)
             /\ PreviousPolygonVertex(r, x) = PreviousPolygonVertex(m, x)
    <2>1. x \in EdgesAt(m, v) /\ x \in PolygonVertices(m)
          /\ VertexOf(m, x) = v
        BY DEF EdgesAt, CornersAt
    <2>2. v \in VerticesOf(m, x[1])
        BY <2>1, EdgeAtVertex
    <2>3. QED
        BY <2>1, <2>2 DEF CornersAt, PreviousPolygonVertex
<1>2. ASSUME NEW e \in EdgesAt(m, v)
      PROVE  e \in PolygonVertices(r) /\ EdgeCycle(r, e) = EdgeCycle(m, e)
    BY EdgeAtVertex
<1>3. \A e, f \in EdgesAt(m, v) : IsAcross(m, e, f) =>
        f \in PolygonVertices(r) /\ EdgeCycle(r, e) = EdgeCycle(r, f)
    BY <1>2 DEF IsAcross
<1>4. QED
    BY <1>1, <1>3 DEF KeepsTurns

\* The lists in use of a surface whose polygons are renumbered are at vertices
\* of polygons that keep their number.
LEMMA RenumberedFans ==
    ASSUME NEW m, IsSurface(m), HasFans(m), NEW r, NEW old2new,
           HasRenumbered(m, r, old2new),
           r.around = [v \in Vertices(m) |-> AroundUpdated(m, old2new, v)],
           r.cached = [v \in DOMAIN m.cached |->
                IF v \in ChangedVertices(m, old2new)
                THEN NotComputed ELSE m.cached[v]]
    PROVE  HasFans(r)
<1>1. /\ HasPolygons(m) /\ HasAround(m) /\ HasLists(m) /\ HasPlaces(m)
      /\ Vertices(r) = Vertices(m)
    BY DEF IsSurface, HasAdjacencies, HasRenumbered
<1>2. ASSUME NEW e \in PolygonVertices(m), ~IsOnBorder(m, e)
      PROVE  \E f : IsAcross(m, e, f)
    BY <1>2 DEF IsSurface, HasAdjacencies
<1>3. ASSUME NEW v \in ListsInUse(r)
      PROVE  KeepsList(m, r, v)
    <2>1. v \in Vertices(m)
        BY <1>1, <1>3 DEF ListsInUse, ComputedVertices
    <2>2. v \notin ChangedVertices(m, old2new) /\ r.cached[v] = m.cached[v]
        BY <1>1, <1>3, <2>1, ResetIsNotInUse DEF HasLists
    <2>3. ASSUME NEW p \in Polygons(m), v \in VerticesOf(m, p)
          PROVE  old2new[p] = p /\ p # NoId
        <3>1. p # NoId
            BY <1>1 DEF HasPolygons, IndexRange, NoId
        <3>2. old2new[p] = p
            BY <2>2, <2>3 DEF ChangedVertices
        <3>3. QED
            BY <3>1, <3>2
    <2>4. ASSUME NEW x \in PolygonVertices(m), v \in VerticesOf(m, x[1])
          PROVE  /\ old2new[x[1]] = x[1]
                 /\ x[1] # NoId
                 /\ Renumbered(old2new, x) = x
        <3>1. x = <<x[1], x[2]>> /\ x[1] \in Polygons(m)
            BY CornerIsPair
        <3>2. old2new[x[1]] = x[1] /\ x[1] # NoId
            BY <2>3, <2>4, <3>1
        <3>3. QED
            BY <3>1, <3>2 DEF Renumbered
    <2>5. ASSUME NEW x \in PolygonVertices(m), v \in VerticesOf(m, x[1])
          PROVE  /\ x \in PolygonVertices(r)
                 /\ r.polygons[x[1]] = m.polygons[x[1]]
                 /\ VertexOf(r, x) = VertexOf(m, x)
                 /\ EdgeCycle(r, x) = EdgeCycle(m, x)
                 /\ AdjacentOf(r, x) = IF AdjacentOf(m, x) = NoId
                        THEN NoId ELSE old2new[AdjacentOf(m, x)]
        <3>1. r.polygons[x[1]] = m.polygons[x[1]]
            BY <2>4, <2>5, CornerIsPair DEF HasRenumbered
        <3>2. QED
            BY <1>1, <2>4, <2>5, <3>1, RenumberedCorner
    <2>6. ASSUME NEW e \in EdgesAt(m, v)
          PROVE  AdjacentOf(r, e) = AdjacentOf(m, e)
        <3>1. e \in PolygonVertices(m) /\ v \in EdgeCycle(m, e)
              /\ v \in VerticesOf(m, e[1])
            BY <1>1, EdgeAtVertex
        <3>2. CASE AdjacentOf(m, e) = NoId
            BY <2>5, <3>1, <3>2
        <3>3. CASE AdjacentOf(m, e) # NoId
            <4>1. PICK f : IsAcross(m, e, f)
                BY <1>2, <3>1, <3>3 DEF IsOnBorder
            <4>2. /\ f \in PolygonVertices(m)
                  /\ f[1] = AdjacentOf(m, e)
                  /\ v \in EdgeCycle(m, f)
                BY <3>1, <4>1 DEF IsAcross
            <4>3. f[1] \in Polygons(m) /\ v \in VerticesOf(m, f[1])
                BY <1>1, <4>2, EdgeVerticesOf
            <4>4. old2new[f[1]] = f[1]
                BY <2>3, <4>3
            <4>5. QED
                BY <2>5, <3>1, <3>3, <4>2, <4>4
        <3>4. QED
            BY <3>2, <3>3
    <2>7. KeepsTurns(m, r, v)
        BY <1>1, <2>5, <2>6, SamePolygonsAtVertex
    <2>8. r.around[v] = m.around[v]
        <3>1. CASE m.around[v] = NoPolygonVertex
            BY <2>1, <3>1 DEF AroundUpdated
        <3>2. CASE m.around[v] # NoPolygonVertex
            <4>1. m.around[v] \in CornersAt(m, v)
                BY <1>1, <2>1, <3>2 DEF HasAround, FindsPolygonAround
            <4>2. m.around[v] \in EdgesAt(m, v)
                BY <4>1 DEF EdgesAt
            <4>3. m.around[v] \in PolygonVertices(m)
                  /\ v \in VerticesOf(m, m.around[v][1])
                BY <1>1, <4>2, EdgeAtVertex
            <4>4. old2new[m.around[v][1]] # NoId
                  /\ Renumbered(old2new, m.around[v]) = m.around[v]
                BY <2>4, <4>3
            <4>5. QED
                BY <2>1, <3>2, <4>4 DEF AroundUpdated
        <3>3. QED
            BY <3>1, <3>2
    <2>9. QED
        BY <2>1, <2>2, <2>7, <2>8 DEF KeepsList
<1>4. QED
    BY <1>3, ListsStayFans

\* What update_polygon_around() and update_polygon_adjacencies() change.
IsUpdated(m, u, old2new) ==
    /\ HasFields(u)
    /\ u.polygons = m.polygons
    /\ u.adjacent = [p \in Polygons(m) |->
            [i \in DOMAIN m.adjacent[p] |->
                IF m.adjacent[p][i] = NoId
                THEN NoId ELSE old2new[m.adjacent[p][i]]]]
    /\ u.around = [v \in Vertices(m) |-> AroundUpdated(m, old2new, v)]
    /\ u.cached = [v \in DOMAIN m.cached |->
            IF v \in ChangedVertices(m, old2new)
            THEN NotComputed ELSE m.cached[v]]
    /\ u.enabled = m.enabled
    /\ u.edges = m.edges

\* What the updates before a renumbering of polygons leave.
LEMMA PolygonsAreUpdated ==
    ASSUME NEW m, HasFields(m), NEW old2new
    PROVE  IsUpdated(m, PolygonsUpdated(m, old2new), old2new)
BY UpdatedFields, Zenon DEF IsUpdated

\* r has the vectors of u with each element moved to old2new of its index.
FollowsMapping(m, u, r, old2new) ==
    /\ HasFields(r)
    /\ r.around = u.around
    /\ r.cached = u.cached
    /\ r.enabled = u.enabled
    /\ Size(r.polygons) \in Nat
    /\ Polygons(r) = IndexRange(Size(r.polygons))
    /\ r.polygons = [q \in Polygons(r) |-> r.polygons[q]]
    /\ r.adjacent = [q \in Polygons(r) |-> r.adjacent[q]]
    /\ \A p \in Polygons(m) : old2new[p] # NoId =>
          /\ old2new[p] \in Polygons(r)
          /\ r.polygons[old2new[p]] = m.polygons[p]
          /\ r.adjacent[old2new[p]] = u.adjacent[p]
    /\ \A p, q \in Polygons(m) :
          old2new[p] # NoId /\ old2new[p] = old2new[q] => p = q
    /\ \A q \in Polygons(r) : \E p \in Polygons(m) : old2new[p] = q

\* A surface whose updated vectors are compacted or permuted is one.
LEMMA PolygonsAreRenumbered ==
    ASSUME NEW m, IsSurface(m), NEW old2new, NEW u, IsUpdated(m, u, old2new),
           NEW r, FollowsMapping(m, u, r, old2new),
           \A v \in Vertices(m) : IsFanSafe(m, old2new, v)
    PROVE  /\ IsSurface(r)
           /\ HasRenumbered(m, r, old2new)
           /\ HasFans(m) => HasFans(r)
<1>1. HasFields(m) /\ HasPlaces(m)
    BY DEF IsSurface, HasAdjacencies
<1>2. /\ u.polygons = m.polygons
      /\ u.adjacent = [p \in Polygons(m) |->
            [i \in DOMAIN m.adjacent[p] |->
                IF m.adjacent[p][i] = NoId
                THEN NoId ELSE old2new[m.adjacent[p][i]]]]
      /\ u.around = [v \in Vertices(m) |-> AroundUpdated(m, old2new, v)]
      /\ u.cached = [v \in DOMAIN m.cached |->
            IF v \in ChangedVertices(m, old2new)
            THEN NotComputed ELSE m.cached[v]]
      /\ u.enabled = m.enabled
    BY DEF IsUpdated
<1>3. Vertices(r) = Vertices(m) /\ Size(r.around) = Size(m.around)
    BY <1>2 DEF FollowsMapping, Vertices, Size
<1>4. ASSUME NEW p \in Polygons(m)
      PROVE  u.adjacent[p] = [i \in DOMAIN m.polygons[p] |->
                IF m.adjacent[p][i] = NoId
                THEN NoId ELSE old2new[m.adjacent[p][i]]]
    <2>1. DOMAIN m.adjacent[p] = DOMAIN m.polygons[p]
        <3>1. m.adjacent[p] = [i \in DOMAIN m.polygons[p] |-> m.adjacent[p][i]]
            BY <1>1 DEF HasPlaces
        <3>2. DOMAIN [i \in DOMAIN m.polygons[p] |-> m.adjacent[p][i]]
                = DOMAIN m.polygons[p]
            OBVIOUS
        <3>3. QED
            BY <3>1, <3>2, Zenon
    <2>2. QED
        BY <1>2, <2>1
<1>5. HasRenumbered(m, r, old2new)
    BY <1>3, <1>4 DEF HasRenumbered, FollowsMapping
<1>6. /\ HasFields(r)
      /\ r.around = u.around
      /\ r.cached = u.cached
      /\ r.enabled = u.enabled
    BY DEF FollowsMapping
<1>7. IsSurface(r)
    BY <1>2, <1>5, <1>6, RenumberedSurface
<1>8. HasFans(m) => HasFans(r)
    BY <1>2, <1>5, <1>6, RenumberedFans
<1>9. QED
    BY <1>5, <1>7, <1>8

\* A surface is one after polygons are deleted from it.
LEMMA DeletedPolygonsKeepSurface ==
    ASSUME NEW m, IsSurface(m), NEW D \in SUBSET Polygons(m),
           \A v \in Vertices(m) : m.around[v][1] \in D =>
                \/ IsManifold(m, v)
                \/ \E x \in ToSet(PolygonsAroundVertex(m, v)) : x[1] \notin D
    PROVE  LET r == DeletePolygons(m, D)
               old2new == MappingAfterDeletion(Size(m.polygons), D)
           IN  /\ IsSurface(r)
               /\ HasFans(m) => HasFans(r)
               /\ D # {} =>
                    /\ HasRenumbered(m, r, old2new)
                    /\ \A p \in Polygons(m) : old2new[p] = NoId <=> p \in D
                    /\ r.enabled = m.enabled
                    /\ r.edges = IF m.enabled
                                 THEN RemoveFacets(m.edges, EdgeCycles(m, D))
                                 ELSE m.edges
<1> DEFINE n == Size(m.polygons)
           old2new == MappingAfterDeletion(n, D)
           u == PolygonsUpdated(m, old2new)
           polygons == DeleteElements(u.polygons, D)
           adjacent == DeleteElements(u.adjacent, D)
           edges == IF m.enabled
                    THEN RemoveFacets(u.edges, EdgeCycles(m, D)) ELSE u.edges
           r == [u EXCEPT !.polygons = polygons, !.adjacent = adjacent,
                          !.edges = edges]
           count == Cardinality(IndexRange(n) \ D)
<1>1. DeletePolygons(m, D) = IF D = {} THEN m ELSE r
    BY DEF DeletePolygons, PolygonsUpdated
<1>2. /\ HasFields(m) /\ HasPolygons(m) /\ HasAdjacencies(m) /\ HasAround(m)
      /\ n \in Nat /\ Polygons(m) = IndexRange(n)
    BY DEF IsSurface, HasPolygons
<1>3. /\ HasFields(u)
      /\ u.polygons = m.polygons
      /\ DOMAIN u.adjacent = Polygons(m)
      /\ u.enabled = m.enabled
      /\ u.edges = m.edges
    <2> HIDE DEF old2new
    <2>1. IsUpdated(m, u, old2new)
        BY <1>2, PolygonsAreUpdated
    <2> HIDE DEF u
    <2>2. QED
        BY <2>1 DEF IsUpdated
<1>4. DOMAIN m.polygons = IndexRange(n)
    BY <1>2 DEF Polygons
<1>5. /\ count \in Nat
      /\ DOMAIN polygons = IndexRange(count)
      /\ Size(polygons) = count
      /\ DOMAIN adjacent = IndexRange(count)
    BY <1>2, <1>3, <1>4, DeletedVectorSize
<1>6. /\ polygons = [q \in IndexRange(count) |-> polygons[q]]
      /\ adjacent = [q \in IndexRange(count) |-> adjacent[q]]
    BY <1>5 DEF DeleteElements
<1>7. \A p \in Polygons(m) : old2new[p] = NoId <=> p \in D
    <2>1. TAKE p \in Polygons(m)
    <2>2. p \in D => old2new[p] = NoId
        BY <1>2 DEF MappingAfterDeletion
    <2>3. p \notin D => old2new[p] \in IndexRange(count)
        BY <1>2, MappingIsOneToOne
    <2> HIDE DEF old2new, count
    <2>4. QED
        BY <2>2, <2>3, <1>5 DEF IndexRange, NoId
<1>8. \A p \in Polygons(m) : p \notin D =>
        /\ old2new[p] \in IndexRange(count)
        /\ polygons[old2new[p]] = m.polygons[p]
        /\ adjacent[old2new[p]] = u.adjacent[p]
    <2>1. TAKE p \in Polygons(m)
    <2>2. HAVE p \notin D
    <2>3. p \in IndexRange(n) \ D
        BY <1>2, <2>2
    <2>4. polygons[old2new[p]] = u.polygons[p]
        BY <1>2, <1>3, <1>4, <2>3, DeletedVectorFollowsMapping
    <2>5. adjacent[old2new[p]] = u.adjacent[p]
        BY <1>2, <1>3, <2>3, DeletedVectorFollowsMapping
    <2>6. old2new[p] \in IndexRange(count)
        BY <1>2, <2>3, MappingIsOneToOne
    <2>7. QED
        BY <1>3, <2>4, <2>5, <2>6
<1>9. \A p, q \in Polygons(m) :
        p \notin D /\ q \notin D /\ old2new[p] = old2new[q] => p = q
    <2>1. TAKE p, q \in Polygons(m)
    <2>2. HAVE p \notin D /\ q \notin D /\ old2new[p] = old2new[q]
    <2>3. p \in IndexRange(n) \ D /\ q \in IndexRange(n) \ D
        BY <1>2, <2>2
    <2>4. QED
        BY <1>2, <2>2, <2>3, MappingIsOneToOne
<1>10. \A q \in IndexRange(count) : \E p \in Polygons(m) : old2new[p] = q
    BY <1>2, <1>4, DeletedVectorComesFromKept
<1>11. ASSUME NEW v \in Vertices(m) PROVE IsFanSafe(m, old2new, v)
    <2> HIDE DEF old2new
    <2>1. SUFFICES ASSUME m.around[v] # NoPolygonVertex,
                          old2new[m.around[v][1]] = NoId
                   PROVE  \/ IsManifold(m, v)
                          \/ \E x \in ToSet(PolygonsAroundVertex(m, v)) :
                                old2new[x[1]] # NoId
        BY DEF IsFanSafe
    <2>2. m.around[v] \in CornersAt(m, v)
        BY <1>2, <2>1 DEF HasAround, FindsPolygonAround
    <2>3. m.around[v][1] \in Polygons(m)
        BY <2>2, CornerIsPair DEF CornersAt
    <2>4. m.around[v][1] \in D
        BY <1>7, <2>1, <2>3
    <2>5. ASSUME NEW x \in ToSet(PolygonsAroundVertex(m, v))
          PROVE  x[1] \in Polygons(m)
        <3>1. PolygonsAroundVertex(m, v) \in Seq(CornersAt(m, v))
            BY UpdatedIsListAround DEF PolygonsAroundVertex, IsListAround
        <3> HIDE DEF PolygonsAroundVertex
        <3>2. x \in CornersAt(m, v)
            BY <3>1, <2>5 DEF ToSet
        <3>3. QED
            BY <3>2, CornerIsPair DEF CornersAt
    <2>6. QED
        BY <1>7, <2>4, <2>5
<1>e. edges = IF m.enabled
              THEN RemoveFacets(m.edges, EdgeCycles(m, D)) ELSE m.edges
    BY <1>3
<1> HIDE DEF polygons, adjacent, edges, u, old2new, count
<1>k. r = [u EXCEPT !.polygons = polygons, !.adjacent = adjacent,
                    !.edges = edges]
    OBVIOUS
<1> HIDE DEF r
<1>12. /\ HasFields(r)
       /\ r.polygons = polygons
       /\ r.adjacent = adjacent
       /\ r.around = u.around
       /\ r.cached = u.cached
       /\ r.enabled = u.enabled
       /\ r.edges = edges
    BY <1>3, <1>k DEF HasFields
<1>13. Polygons(r) = IndexRange(count) /\ Size(r.polygons) = count
    BY <1>5, <1>12 DEF Polygons
<1>14. \A p, q \in Polygons(m) :
            old2new[p] # NoId /\ old2new[p] = old2new[q] => p = q
    BY <1>7, <1>9
<1>15. /\ IsSurface(r)
       /\ HasRenumbered(m, r, old2new)
       /\ HasFans(m) => HasFans(r)
    <2>1. IsUpdated(m, u, old2new)
        BY <1>2, PolygonsAreUpdated DEF u
    <2>2. \A p \in Polygons(m) : old2new[p] # NoId =>
                /\ old2new[p] \in Polygons(r)
                /\ r.polygons[old2new[p]] = m.polygons[p]
                /\ r.adjacent[old2new[p]] = u.adjacent[p]
        BY <1>7, <1>8, <1>12, <1>13
    <2>3. /\ r.polygons = [q \in Polygons(r) |-> r.polygons[q]]
          /\ r.adjacent = [q \in Polygons(r) |-> r.adjacent[q]]
          /\ Size(r.polygons) \in Nat
        BY <1>5, <1>6, <1>12, <1>13
    <2>4. QED
        <3>1. \A q \in Polygons(r) : \E p \in Polygons(m) : old2new[p] = q
            BY <1>10, <1>13
        <3>2. Polygons(r) = IndexRange(Size(r.polygons))
            BY <1>13
        <3>3. FollowsMapping(m, u, r, old2new)
            BY <1>12, <1>14, <2>2, <2>3, <3>1, <3>2 DEF FollowsMapping
        <3>4. QED
            BY <1>11, <2>1, <3>3, PolygonsAreRenumbered
<1>16. CASE D = {}
    BY <1>1, <1>16
<1>17. CASE D # {}
    <2>1. DeletePolygons(m, D) = r
        BY <1>1, <1>17
    <2>2. r.enabled = m.enabled /\ r.edges = edges
        BY <1>3, <1>12
    <2>3. QED
        BY <1>7, <1>15, <1>17, <1>e, <2>1, <2>2 DEF old2new
<1>18. QED
    BY <1>16, <1>17

\* A surface is one after its polygons are permuted.
LEMMA PermutedPolygonsKeepSurface ==
    ASSUME NEW m, IsSurface(m), NEW permutation \in PermutationsOf(Polygons(m))
    PROVE  LET r == PermutePolygons(m, permutation)
               old2new == Old2NewPermutation(permutation)
           IN  /\ IsSurface(r)
               /\ HasFans(m) => HasFans(r)
               /\ HasRenumbered(m, r, old2new)
               /\ \A p \in Polygons(m) : old2new[p] # NoId
               /\ r.enabled = m.enabled
               /\ r.edges = m.edges
<1> DEFINE n == Size(m.polygons)
           S == Polygons(m)
           old2new == Old2NewPermutation(permutation)
           u == PolygonsUpdated(m, old2new)
           polygons == PermuteElements(u.polygons, permutation)
           adjacent == PermuteElements(u.adjacent, permutation)
           r == [u EXCEPT !.polygons = polygons, !.adjacent = adjacent]
<1>1. PermutePolygons(m, permutation) = r
    BY DEF PermutePolygons, PolygonsUpdated
<1>2. /\ HasFields(m) /\ n \in Nat /\ S = IndexRange(n)
    BY DEF IsSurface, HasPolygons
<1>3. /\ HasFields(u)
      /\ u.polygons = m.polygons
      /\ DOMAIN u.adjacent = S
      /\ u.enabled = m.enabled
      /\ u.edges = m.edges
    <2> HIDE DEF old2new
    <2>1. IsUpdated(m, u, old2new)
        BY <1>2, PolygonsAreUpdated
    <2> HIDE DEF u
    <2>2. QED
        BY <2>1 DEF IsUpdated
<1>4. DOMAIN m.polygons = S
    BY DEF Polygons
<1>5. /\ permutation \in Bijection(S, S)
      /\ permutation \in [S -> S]
    <2>1. IsFiniteSet(S)
        BY <1>2, SizeOfVector
    <2>2. permutation \in [S -> S]
          /\ \A i, j \in S : permutation[i] = permutation[j] => i = j
        BY DEF PermutationsOf, IsInjective
    <2> HIDE DEF S
    <2>3. QED
        BY <2>1, <2>2, PermutationIsBijection
<1>6. /\ old2new \in [S -> S]
      /\ \A i \in S : old2new[permutation[i]] = i
      /\ \A i \in S : permutation[old2new[i]] = i
    <2> HIDE DEF S
    <2>1. \A i \in S : /\ old2new \in [S -> S]
                       /\ old2new[permutation[i]] = i
                       /\ permutation[old2new[i]] = i
        BY <1>5, Old2NewInvertsPermutation
    <2>2. CASE S = {}
        BY <1>5, <2>2 DEF Old2NewPermutation
    <2>3. QED
        BY <2>1, <2>2
<1>7. \A i \in S : polygons[old2new[i]] = m.polygons[i]
                   /\ adjacent[old2new[i]] = u.adjacent[i]
    <2>1. DOMAIN u.polygons = S
        BY <1>3, <1>4
    <2>2. \A i \in S : polygons[old2new[i]] = u.polygons[i]
        BY <1>5, <2>1, PermutedVectorFollowsMapping
    <2>3. \A i \in S : adjacent[old2new[i]] = u.adjacent[i]
        BY <1>3, <1>5, PermutedVectorFollowsMapping
    <2>4. QED
        BY <1>3, <2>2, <2>3
<1>8. /\ polygons = [q \in S |-> polygons[q]]
      /\ adjacent = [q \in S |-> adjacent[q]]
      /\ DOMAIN polygons = S
    BY <1>3, <1>4 DEF PermuteElements
<1> HIDE DEF polygons, adjacent, u, old2new
<1>k. r = [u EXCEPT !.polygons = polygons, !.adjacent = adjacent]
    OBVIOUS
<1> HIDE DEF r
<1>9. /\ HasFields(r)
      /\ r.polygons = polygons
      /\ r.adjacent = adjacent
      /\ r.around = u.around
      /\ r.cached = u.cached
      /\ r.enabled = u.enabled
      /\ r.edges = u.edges
    BY <1>3, <1>k DEF HasFields
<1>10. Polygons(r) = S /\ Size(r.polygons) = n
    BY <1>4, <1>8, <1>9 DEF Polygons, Size
<1>11. \A p \in S : old2new[p] \in S /\ old2new[p] # NoId
    BY <1>2, <1>6 DEF IndexRange, NoId
<1>12. ASSUME NEW v \in Vertices(m) PROVE IsFanSafe(m, old2new, v)
    <2>1. SUFFICES ASSUME m.around[v] # NoPolygonVertex
                   PROVE  old2new[m.around[v][1]] # NoId
        BY DEF IsFanSafe
    <2>2. m.around[v] \in CornersAt(m, v)
        BY <2>1 DEF IsSurface, HasAround, FindsPolygonAround
    <2>3. m.around[v][1] \in Polygons(m)
        BY <2>2, CornerIsPair DEF CornersAt
    <2>4. QED
        BY <1>11, <2>3
<1>13. \A p, q \in S : old2new[p] = old2new[q] => p = q
    BY <1>6
<1>14. \A q \in S : \E p \in S : old2new[p] = q
    BY <1>5, <1>6
<1>15. /\ IsSurface(r)
       /\ HasRenumbered(m, r, old2new)
       /\ HasFans(m) => HasFans(r)
    <2>1. IsUpdated(m, u, old2new)
        BY <1>2, PolygonsAreUpdated DEF u
    <2>2. \A p \in Polygons(m) : old2new[p] # NoId =>
                /\ old2new[p] \in Polygons(r)
                /\ r.polygons[old2new[p]] = m.polygons[p]
                /\ r.adjacent[old2new[p]] = u.adjacent[p]
        BY <1>7, <1>9, <1>10, <1>11
    <2>3. /\ r.polygons = [q \in Polygons(r) |-> r.polygons[q]]
          /\ r.adjacent = [q \in Polygons(r) |-> r.adjacent[q]]
          /\ Size(r.polygons) \in Nat
          /\ Polygons(r) = IndexRange(Size(r.polygons))
        BY <1>2, <1>8, <1>9, <1>10
    <2>4. QED
        <3>1. \A q \in Polygons(r) : \E p \in Polygons(m) : old2new[p] = q
            BY <1>10, <1>14
        <3>2. \A p, q \in Polygons(m) :
                old2new[p] # NoId /\ old2new[p] = old2new[q] => p = q
            BY <1>13
        <3>3. FollowsMapping(m, u, r, old2new)
            BY <1>9, <2>2, <2>3, <3>1, <3>2 DEF FollowsMapping
        <3>4. QED
            BY <1>12, <2>1, <3>3, PolygonsAreRenumbered
<1>16. QED
    BY <1>1, <1>3, <1>9, <1>11, <1>15 DEF old2new

-----------------------------------------------------------------------------
(* Polygon vertices that go from one vertex to another, in a loop. *)

\* f has a value for each polygon vertex of m.
HasSlots(m, f) ==
    /\ f = [p \in Polygons(m) |-> f[p]]
    /\ \A p \in Polygons(m) : f[p] = [i \in DOMAIN m.polygons[p] |-> f[p][i]]

\* One of these values is set.
LEMMA SlotIsSet ==
    ASSUME NEW m, NEW f, HasSlots(m, f), NEW x \in PolygonVertices(m), NEW e,
           NEW g, g = WithSlot(f, x, e)
    PROVE  /\ HasSlots(m, g)
           /\ \A y \in PolygonVertices(m) : g[y[1]][y[2]] =
                IF y = x THEN e ELSE f[y[1]][y[2]]
<1> DEFINE P == Polygons(m)
           Q(p) == DOMAIN m.polygons[p]
           a == x[1]
           b == x[2]
<1>1. x = <<a, b>> /\ a \in P /\ b \in Q(a)
    BY CornerIsPair
<1>2. f = [p \in P |-> f[p]]
      /\ \A p \in P : f[p] = [i \in Q(p) |-> f[p][i]]
    BY DEF HasSlots
<1>3. g = [f EXCEPT ![a][b] = e]
    BY DEF WithSlot
<1> HIDE DEF P, Q, a, b
<1>4. DOMAIN f = P /\ \A p \in P : DOMAIN f[p] = Q(p)
    <2>1. DOMAIN [p \in P |-> f[p]] = P
        OBVIOUS
    <2>2. DOMAIN f = P
        BY <1>2, <2>1, Zenon
    <2>3. ASSUME NEW p \in P PROVE DOMAIN f[p] = Q(p)
        <3>1. DOMAIN [i \in Q(p) |-> f[p][i]] = Q(p)
            OBVIOUS
        <3>2. f[p] = [i \in Q(p) |-> f[p][i]]
            BY <1>2
        <3>3. QED
            BY <3>1, <3>2, Zenon
    <2>4. QED
        BY <2>2, <2>3
<1>5. g = [p \in P |-> IF p = a THEN [f[p] EXCEPT ![b] = e] ELSE f[p]]
    BY <1>1, <1>3, <1>4
<1>6. ASSUME NEW p \in P
      PROVE  g[p] = [i \in Q(p) |-> IF p = a /\ i = b THEN e ELSE f[p][i]]
    <2>1. CASE p = a
        <3>1. g[p] = [f[p] EXCEPT ![b] = e]
            BY <1>5, <2>1
        <3>2. QED
            BY <1>4, <2>1, <3>1
    <2>2. CASE p # a
        <3>1. g[p] = f[p]
            BY <1>5, <2>2
        <3>2. QED
            BY <1>2, <2>2, <3>1
    <2>3. QED
        BY <2>1, <2>2
<1>7. HasSlots(m, g)
    <2>1. g = [p \in P |-> g[p]]
        BY <1>5
    <2>2. ASSUME NEW p \in P PROVE g[p] = [i \in Q(p) |-> g[p][i]]
        <3> DEFINE h == g[p]
                   F(i) == IF p = a /\ i = b THEN e ELSE f[p][i]
        <3>1. h = [i \in Q(p) |-> F(i)]
            BY <1>6
        <3> HIDE DEF h, F
        <3>2. h = [i \in Q(p) |-> h[i]]
            BY <3>1
        <3>3. QED
            BY <3>2 DEF h
    <2>3. QED
        BY <2>1, <2>2 DEF HasSlots, P, Q
<1>8. ASSUME NEW y \in PolygonVertices(m)
      PROVE  g[y[1]][y[2]] = IF y = x THEN e ELSE f[y[1]][y[2]]
    <2>1. y = <<y[1], y[2]>> /\ y[1] \in P /\ y[2] \in Q(y[1])
        BY CornerIsPair DEF P, Q
    <2>2. g[y[1]] = [i \in Q(y[1]) |->
                        IF y[1] = a /\ i = b THEN e ELSE f[y[1]][i]]
        BY <1>6, <2>1
    <2>3. g[y[1]][y[2]] = IF y[1] = a /\ y[2] = b THEN e ELSE f[y[1]][y[2]]
        BY <2>1, <2>2
    <2>4. y = x <=> y[1] = a /\ y[2] = b
        BY <1>1, <2>1
    <2>5. QED
        BY <2>3, <2>4
<1>9. QED
    BY <1>7, <1>8

\* The polygon vertices of done that came to vertex v, and that left it, when
\* each vertex u becomes image[u].
ArrivedAt(m, v, done, image) ==
    {x \in done : image[VertexOf(m, x)] = v /\ VertexOf(m, x) # v}
LeftFrom(m, v, done, image) ==
    {x \in done : VertexOf(m, x) = v /\ image[v] # v}

\* The polygons and adjacencies of r, when those of done are moved.
HasMoved(m, r, done, image) ==
    /\ HasFields(r)
    /\ r.adjacent = m.adjacent
    /\ r.enabled = m.enabled
    /\ HasSlots(m, r.polygons)
    /\ \A x \in PolygonVertices(m) : VertexOf(r, x) =
          IF x \in done THEN image[VertexOf(m, x)] ELSE VertexOf(m, x)

\* The polygon vertices of done are moved from base to r.  A vertex gets one
\* of those that arrive as the polygon around it; one of emptied that they
\* leave has none after that.
IsCarried(m, base, r, done, image, emptied) ==
    /\ HasMoved(m, r, done, image)
    /\ r.around = [v \in Vertices(base) |-> r.around[v]]
    /\ r.cached = [v \in Vertices(base) |-> r.cached[v]]
    /\ \A v \in Vertices(base) :
          IF ArrivedAt(m, v, done, image) # {}
          THEN /\ r.around[v] \in ArrivedAt(m, v, done, image)
               /\ r.cached[v] = NotComputed
          ELSE IF v \in emptied /\ LeftFrom(m, v, done, image) # {}
          THEN /\ r.around[v] = NoPolygonVertex
               /\ r.cached[v] = NotComputed
          ELSE /\ r.around[v] = base.around[v]
               /\ r.cached[v] = base.cached[v]

\* One more polygon vertex, of a vertex that becomes itself.
LEMMA OneStays ==
    ASSUME NEW m, NEW base, NEW r, NEW done, NEW image, NEW emptied,
           IsCarried(m, base, r, done, image, emptied),
           NEW x \in PolygonVertices(m), image[VertexOf(m, x)] = VertexOf(m, x)
    PROVE  IsCarried(m, base, r, done \cup {x}, image, emptied)
<1>1. HasMoved(m, r, done \cup {x}, image)
    BY DEF HasMoved, IsCarried
<1>2. \A v : /\ ArrivedAt(m, v, done \cup {x}, image)
                    = ArrivedAt(m, v, done, image)
             /\ LeftFrom(m, v, done \cup {x}, image)
                    = LeftFrom(m, v, done, image)
    BY DEF ArrivedAt, LeftFrom
<1>3. QED
    BY <1>1, <1>2 DEF IsCarried

\* All those that are not done yet, when they stay.
LEMMA OthersStay ==
    ASSUME NEW m, NEW base, NEW r, NEW done, NEW image, NEW emptied,
           IsCarried(m, base, r, done, image, emptied),
           done \subseteq PolygonVertices(m),
           \A x \in PolygonVertices(m) \ done :
                image[VertexOf(m, x)] = VertexOf(m, x)
    PROVE  IsCarried(m, base, r, PolygonVertices(m), image, emptied)
<1> DEFINE all == PolygonVertices(m)
<1>1. HasMoved(m, r, all, image)
    BY DEF HasMoved, IsCarried
<1>2. ASSUME NEW v
      PROVE  /\ ArrivedAt(m, v, all, image) = ArrivedAt(m, v, done, image)
             /\ LeftFrom(m, v, all, image) = LeftFrom(m, v, done, image)
    BY DEF ArrivedAt, LeftFrom
<1>3. QED
    BY <1>1, <1>2 DEF IsCarried

\* Polygon vertex x goes from vertex old to vertex new.
IsStep(V, k, r, x, old, new, emptied) ==
    /\ HasFields(r)
    /\ r.polygons = WithSlot(k.polygons, x, new)
    /\ r.adjacent = k.adjacent
    /\ r.enabled = k.enabled
    /\ r.around = [v \in V |->
            IF v = new THEN x
            ELSE IF v = old /\ v \in emptied THEN NoPolygonVertex
            ELSE k.around[v]]
    /\ r.cached = [v \in V |->
            IF v = new \/ (v = old /\ v \in emptied)
            THEN NotComputed ELSE k.cached[v]]

\* One more polygon vertex, that goes to another vertex.
LEMMA OneIsCarried ==
    ASSUME NEW m, NEW base, NEW k, NEW done, NEW image, NEW emptied,
           IsCarried(m, base, k, done, image, emptied),
           NEW x \in PolygonVertices(m),
           NEW old, old = VertexOf(m, x), NEW new, new = image[old],
           new # old, new \in Vertices(base),
           old \in emptied =>
                \A y \in PolygonVertices(m) : image[VertexOf(m, y)] # old,
           done \subseteq PolygonVertices(m),
           NEW r, IsStep(Vertices(base), k, r, x, old, new, emptied)
    PROVE  IsCarried(m, base, r, done \cup {x}, image, emptied)
<1> DEFINE more == done \cup {x}
           A(v) == ArrivedAt(m, v, done, image)
           L(v) == LeftFrom(m, v, done, image)
<1>1. HasMoved(m, k, done, image)
    BY DEF IsCarried
<1>2. HasMoved(m, r, more, image)
    <2>1. HasSlots(m, k.polygons)
        BY <1>1 DEF HasMoved
    <2>2. /\ HasSlots(m, r.polygons)
          /\ \A y \in PolygonVertices(m) : r.polygons[y[1]][y[2]] =
                IF y = x THEN new ELSE k.polygons[y[1]][y[2]]
        <3> DEFINE f == k.polygons
                   g == r.polygons
        <3>1. g = WithSlot(f, x, new) /\ HasSlots(m, f)
            BY <2>1 DEF IsStep
        <3> HIDE DEF f, g
        <3>2. /\ HasSlots(m, g)
              /\ \A y \in PolygonVertices(m) : g[y[1]][y[2]] =
                    IF y = x THEN new ELSE f[y[1]][y[2]]
            BY <3>1, SlotIsSet
        <3>3. QED
            BY <3>2 DEF f, g
    <2>3. \A y \in PolygonVertices(m) : VertexOf(r, y) =
                IF y \in more THEN image[VertexOf(m, y)] ELSE VertexOf(m, y)
        BY <1>1, <2>2 DEF HasMoved, VertexOf
    <2>4. QED
        BY <1>1, <2>2, <2>3 DEF HasMoved, IsStep
<1>3. ASSUME NEW v
      PROVE  /\ ArrivedAt(m, v, more, image)
                    = IF v = new THEN A(v) \cup {x} ELSE A(v)
             /\ LeftFrom(m, v, more, image)
                    = IF v = old THEN L(v) \cup {x} ELSE L(v)
    BY DEF ArrivedAt, LeftFrom
<1>4. old \in emptied => A(old) = {}
    BY DEF ArrivedAt
<1> HIDE DEF A, L, more
<1>5. ASSUME NEW v \in Vertices(base)
      PROVE  IF ArrivedAt(m, v, more, image) # {}
             THEN /\ r.around[v] \in ArrivedAt(m, v, more, image)
                  /\ r.cached[v] = NotComputed
             ELSE IF v \in emptied /\ LeftFrom(m, v, more, image) # {}
             THEN /\ r.around[v] = NoPolygonVertex
                  /\ r.cached[v] = NotComputed
             ELSE /\ r.around[v] = base.around[v]
                  /\ r.cached[v] = base.cached[v]
    <2>1. IF A(v) # {}
          THEN k.around[v] \in A(v) /\ k.cached[v] = NotComputed
          ELSE IF v \in emptied /\ L(v) # {}
          THEN k.around[v] = NoPolygonVertex /\ k.cached[v] = NotComputed
          ELSE k.around[v] = base.around[v] /\ k.cached[v] = base.cached[v]
        BY DEF IsCarried, A, L
    <2>2. CASE v = new
        <3>1. r.around[v] = x /\ r.cached[v] = NotComputed
            BY <2>2 DEF IsStep
        <3>2. QED
            BY <1>3, <2>2, <3>1
    <2>3. CASE v # new /\ v = old /\ v \in emptied
        <3>1. r.around[v] = NoPolygonVertex /\ r.cached[v] = NotComputed
            BY <2>3 DEF IsStep
        <3>2. QED
            BY <1>3, <1>4, <2>3, <3>1
    <2>4. CASE v # new /\ ~(v = old /\ v \in emptied)
        <3>1. r.around[v] = k.around[v] /\ r.cached[v] = k.cached[v]
            BY <2>4 DEF IsStep
        <3>2. QED
            BY <1>3, <2>1, <2>4, <3>1
    <2>5. QED
        BY <2>2, <2>3, <2>4
<1>6. /\ r.around = [v \in Vertices(base) |-> r.around[v]]
      /\ r.cached = [v \in Vertices(base) |-> r.cached[v]]
    BY DEF IsStep
<1>7. QED
    BY <1>2, <1>5, <1>6 DEF IsCarried, more

\* A surface whose polygon vertices were all carried to the images of their
\* vertices is one.
LEMMA CarriedSurface ==
    ASSUME NEW m, IsSurface(m), NEW base, NEW r, NEW image, NEW emptied,
           IsCarried(m, base, r, PolygonVertices(m), image, emptied),
           Size(base.around) \in Nat,
           Vertices(base) = IndexRange(Size(base.around)),
           Vertices(base) \subseteq Vertices(m),
           \A x \in PolygonVertices(m) :
                image[VertexOf(m, x)] \in Vertices(base),
           \A x, y \in PolygonVertices(m) :
                /\ x[1] = y[1]
                /\ image[VertexOf(m, x)] = image[VertexOf(m, y)]
                => x = y,
           \A v \in Vertices(base) :
                \/ ArrivedAt(m, v, PolygonVertices(m), image) # {}
                \/ /\ v \in emptied
                   /\ LeftFrom(m, v, PolygonVertices(m), image) # {}
                \/ IF LeftFrom(m, v, PolygonVertices(m), image) = {}
                   THEN /\ base.around[v] = m.around[v]
                        /\ base.cached[v] \in {m.cached[v], NotComputed}
                   ELSE /\ base.around[v] = NoPolygonVertex
                        /\ base.cached[v] = NotComputed
    PROVE  IsSurface(r) /\ (HasFans(m) => HasFans(r))
<1> DEFINE PV == PolygonVertices(m)
           A(v) == ArrivedAt(m, v, PV, image)
           L(v) == LeftFrom(m, v, PV, image)
<1>1. /\ HasFields(m) /\ HasPolygons(m) /\ HasAdjacencies(m)
      /\ HasAround(m) /\ HasLists(m) /\ m.enabled \in BOOLEAN
    BY DEF IsSurface
<1>2. /\ HasFields(r)
      /\ r.adjacent = m.adjacent
      /\ r.enabled = m.enabled
      /\ HasSlots(m, r.polygons)
      /\ \A x \in PV : VertexOf(r, x) = image[VertexOf(m, x)]
    BY DEF IsCarried, HasMoved
<1>3. Vertices(r) = Vertices(base) /\ Size(r.around) = Size(base.around)
    <2>1. r.around = [v \in Vertices(base) |-> r.around[v]]
        BY DEF IsCarried
    <2>2. DOMAIN [v \in Vertices(base) |-> r.around[v]] = Vertices(base)
        OBVIOUS
    <2>3. DOMAIN r.around = Vertices(base)
        BY <2>1, <2>2, Zenon
    <2>4. QED
        BY <2>3 DEF Vertices, Size
<1>4. HasRenamed(m, r, image)
    <2>1. ASSUME NEW p \in Polygons(m)
          PROVE  r.polygons[p] =
                    [i \in DOMAIN m.polygons[p] |-> image[m.polygons[p][i]]]
        <3>1. r.polygons[p] = [i \in DOMAIN m.polygons[p] |-> r.polygons[p][i]]
            BY <1>2 DEF HasSlots
        <3>2. \A i \in DOMAIN m.polygons[p] :
                r.polygons[p][i] = image[m.polygons[p][i]]
            <4>1. TAKE i \in DOMAIN m.polygons[p]
            <4>2. <<p, i>> \in PV
                BY CornerIsPair
            <4>3. VertexOf(r, <<p, i>>) = image[VertexOf(m, <<p, i>>)]
                BY <1>2, <4>2
            <4>4. QED
                BY <4>3 DEF VertexOf
        <3>3. QED
            BY <3>1, <3>2
    <2>2. r.polygons = [p \in Polygons(m) |-> r.polygons[p]]
        BY <1>2 DEF HasSlots
    <2>3. QED
        BY <1>2, <1>3, <2>1, <2>2 DEF HasRenamed
<1>5. HasPolygons(r) /\ HasAdjacencies(r)
    BY <1>1, <1>4, RenamedPolygons
<1>6. PolygonVertices(r) = PV
    BY <1>1, <1>4, RenamedCorner
<1>7. ASSUME NEW v
      PROVE  CornersAt(r, v) = {x \in PV : image[VertexOf(m, x)] = v}
    BY <1>2, <1>6 DEF CornersAt
<1>8. ASSUME NEW v
      PROVE  A(v) \subseteq CornersAt(r, v)
    BY <1>7 DEF ArrivedAt
<1>9. ASSUME NEW v, A(v) = {}, L(v) # {}
      PROVE  CornersAt(r, v) = {}
    <2>1. image[v] # v
        BY <1>9 DEF LeftFrom
    <2>2. \A x \in PV : image[VertexOf(m, x)] # v
        BY <1>9, <2>1 DEF ArrivedAt
    <2>3. QED
        BY <1>7, <2>2
<1>10. ASSUME NEW v, A(v) = {}, L(v) = {}
       PROVE  CornersAt(r, v) = CornersAt(m, v)
    <2>1. \A x \in PV : image[VertexOf(m, x)] = v <=> VertexOf(m, x) = v
        BY <1>10 DEF ArrivedAt, LeftFrom
    <2>2. QED
        BY <1>7, <2>1 DEF CornersAt
<1>11. NotComputed.computed = FALSE
    BY DEF NotComputed
<1>12. ASSUME NEW v \in Vertices(base)
       PROVE  FindsPolygonAround(r, v) /\ IsCached(r, v)
    <2>1. IF A(v) # {}
          THEN r.around[v] \in A(v) /\ r.cached[v] = NotComputed
          ELSE IF v \in emptied /\ L(v) # {}
          THEN r.around[v] = NoPolygonVertex /\ r.cached[v] = NotComputed
          ELSE r.around[v] = base.around[v] /\ r.cached[v] = base.cached[v]
        BY DEF IsCarried
    <2>2. \/ A(v) # {}
          \/ v \in emptied /\ L(v) # {}
          \/ IF L(v) = {}
             THEN /\ base.around[v] = m.around[v]
                  /\ base.cached[v] \in {m.cached[v], NotComputed}
             ELSE /\ base.around[v] = NoPolygonVertex
                  /\ base.cached[v] = NotComputed
        OBVIOUS
    <2>3. v \in Vertices(m) /\ FindsPolygonAround(m, v) /\ IsCached(m, v)
        BY <1>1 DEF HasAround, HasLists
    <2> HIDE DEF A, L
    <2>4. r.cached[v] = NotComputed => IsCached(r, v)
        <3>1. HAVE r.cached[v] = NotComputed
        <3>2. r.cached[v].computed = FALSE
            BY <1>11, <3>1
        <3>3. QED
            BY <3>1, <3>2 DEF IsCached
    <2>5. CASE A(v) # {}
        <3>1. r.around[v] \in CornersAt(r, v) /\ r.cached[v] = NotComputed
            BY <1>8, <2>1, <2>5
        <3>2. QED
            BY <2>4, <3>1 DEF FindsPolygonAround
    <2>6. CASE A(v) = {} /\ L(v) # {}
        <3>1. r.around[v] = NoPolygonVertex /\ r.cached[v] = NotComputed
            BY <2>1, <2>2, <2>6
        <3>2. QED
            BY <1>9, <2>4, <2>6, <3>1 DEF FindsPolygonAround
    <2>7. CASE A(v) = {} /\ L(v) = {}
        <3>1. /\ r.around[v] = m.around[v]
              /\ r.cached[v] \in {m.cached[v], NotComputed}
            BY <2>1, <2>2, <2>7
        <3>2. CornersAt(r, v) = CornersAt(m, v)
            BY <1>10, <2>7
        <3>3. FindsPolygonAround(r, v)
            BY <2>3, <3>1, <3>2 DEF FindsPolygonAround
        <3>4. r.cached[v] = m.cached[v] => IsCached(r, v)
            BY <2>3, <3>2 DEF IsCached, IsListAround
        <3>5. QED
            BY <2>4, <3>1, <3>3, <3>4
    <2>8. QED
        BY <2>5, <2>6, <2>7
<1>13. HasAround(r)
    BY <1>3, <1>12 DEF IsCarried, HasAround
<1>14. HasLists(r)
    <2>1. r.cached = [v \in Vertices(base) |-> r.cached[v]]
        BY DEF IsCarried
    <2>2. DOMAIN [v \in Vertices(base) |-> r.cached[v]] = Vertices(base)
        OBVIOUS
    <2>3. DOMAIN r.cached = Vertices(base)
        BY <2>1, <2>2, Zenon
    <2>4. QED
        BY <1>3, <1>12, <2>1, <2>3 DEF HasLists
<1>15. IsSurface(r)
    BY <1>1, <1>2, <1>5, <1>13, <1>14 DEF IsSurface
<1>16. ASSUME NEW v, A(v) = {}, L(v) = {} PROVE KeepsTurns(m, r, v)
    <2>1. ASSUME NEW x \in PV
          PROVE  /\ PreviousPolygonVertex(r, x) = PreviousPolygonVertex(m, x)
                 /\ EdgeCycle(r, x) = {image[u] : u \in EdgeCycle(m, x)}
                 /\ AdjacentOf(r, x) = AdjacentOf(m, x)
        <3>1. x[1] \in Polygons(m)
            BY CornerIsPair
        <3>2. DOMAIN r.polygons[x[1]] = DOMAIN m.polygons[x[1]]
            BY <1>4, <3>1 DEF HasRenamed
        <3>3. PreviousPolygonVertex(r, x) = PreviousPolygonVertex(m, x)
            BY <3>2 DEF PreviousPolygonVertex, Size
        <3>4. QED
            BY <1>1, <1>4, <3>3, RenamedCorner
    <2>2. \A x \in CornersAt(m, v) : x \in PV /\ x \in CornersAt(r, v)
        BY <1>10, <1>16 DEF CornersAt
    <2>3. \A e \in EdgesAt(m, v) : e \in PV
        BY <1>1, EdgeAtVertex
    <2>4. ASSUME NEW e \in EdgesAt(m, v), NEW f \in EdgesAt(m, v),
                 IsAcross(m, e, f)
          PROVE  f \in PolygonVertices(r) /\ EdgeCycle(r, e) = EdgeCycle(r, f)
        <3>1. EdgeCycle(m, e) = EdgeCycle(m, f)
            BY <2>4 DEF IsAcross
        <3>2. EdgeCycle(r, e) = EdgeCycle(r, f)
            BY <2>1, <2>3, <3>1
        <3>3. QED
            BY <1>6, <2>3, <3>2
    <2>5. QED
        BY <2>1, <2>2, <2>3, <2>4 DEF KeepsTurns
<1>17. ASSUME HasFans(m) PROVE HasFans(r)
    <2>1. ASSUME NEW v \in ListsInUse(r)
          PROVE  KeepsList(m, r, v)
        <3>1. v \in Vertices(base) /\ v \in Vertices(m)
            BY <1>3, <2>1 DEF ListsInUse, ComputedVertices
        <3>2. r.cached[v] # NotComputed
            BY <2>1, ResetIsNotInUse
        <3>3. IF A(v) # {}
              THEN r.around[v] \in A(v) /\ r.cached[v] = NotComputed
              ELSE IF v \in emptied /\ L(v) # {}
              THEN r.around[v] = NoPolygonVertex /\ r.cached[v] = NotComputed
              ELSE /\ r.around[v] = base.around[v]
                   /\ r.cached[v] = base.cached[v]
            BY <3>1 DEF IsCarried
        <3>4. \/ A(v) # {}
              \/ v \in emptied /\ L(v) # {}
              \/ IF L(v) = {}
                 THEN /\ base.around[v] = m.around[v]
                      /\ base.cached[v] \in {m.cached[v], NotComputed}
                 ELSE /\ base.around[v] = NoPolygonVertex
                      /\ base.cached[v] = NotComputed
            BY <3>1
        <3> HIDE DEF A, L
        <3>5. A(v) = {} /\ L(v) = {}
            BY <3>2, <3>3, <3>4
        <3>6. r.around[v] = m.around[v] /\ r.cached[v] = m.cached[v]
            BY <3>2, <3>3, <3>4, <3>5
        <3>7. KeepsTurns(m, r, v)
            BY <1>16, <3>5
        <3>8. QED
            BY <3>1, <3>6, <3>7 DEF KeepsList
    <2>2. QED
        BY <1>17, <2>1, ListsStayFans
<1>18. QED
    BY <1>15, <1>17

\* The first n of a list.
FirstOnes(list, n) == {list[i] : i \in 1 .. n}

\* The first ones of a list, and the next.
LEMMA OneMoreIsFirst ==
    ASSUME NEW T, NEW list \in Seq(T), NEW n \in Nat, n < Len(list)
    PROVE  /\ list[n + 1] \in T
           /\ NoRepeat(list) => list[n + 1] \notin FirstOnes(list, n)
           /\ FirstOnes(list, n) \subseteq T
           /\ FirstOnes(list, n + 1) = FirstOnes(list, n) \cup {list[n + 1]}
<1>1. /\ n + 1 \in 1 .. Len(list)
      /\ 1 .. n + 1 = (1 .. n) \cup {n + 1}
      /\ n + 1 \notin 1 .. n
      /\ \A i \in 1 .. n : i \in 1 .. Len(list)
    OBVIOUS
<1>2. NoRepeat(list) => list[n + 1] \notin FirstOnes(list, n)
    BY <1>1 DEF FirstOnes, NoRepeat
<1>3. QED
    BY <1>1, <1>2 DEF FirstOnes

\* All the elements of a list are its first ones, and none.
LEMMA AllAreFirst ==
    ASSUME NEW T, NEW list \in Seq(T)
    PROVE  FirstOnes(list, Len(list)) = ToSet(list) /\ FirstOnes(list, 0) = {}
BY DEF FirstOnes, ToSet

\* The polygons of base are those of m.
IsBase(m, base) ==
    /\ HasFields(base)
    /\ base.polygons = m.polygons
    /\ base.adjacent = m.adjacent
    /\ base.enabled = m.enabled
    /\ base.around = [v \in Vertices(base) |-> base.around[v]]
    /\ base.cached = [v \in Vertices(base) |-> base.cached[v]]

\* Before the loop.
LEMMA NoneIsCarried ==
    ASSUME NEW m, HasPolygons(m), NEW base, IsBase(m, base),
           NEW image, NEW emptied
    PROVE  IsCarried(m, base, base, {}, image, emptied)
<1>1. HasSlots(m, m.polygons)
    <2>1. ASSUME NEW p \in Polygons(m)
          PROVE  m.polygons[p] = [i \in DOMAIN m.polygons[p] |->
                                        m.polygons[p][i]]
        BY DEF HasPolygons, IsPolygon
    <2>2. QED
        BY <2>1 DEF HasPolygons, HasSlots
<1>2. HasMoved(m, base, {}, image)
    BY <1>1 DEF IsBase, HasMoved, VertexOf
<1>3. \A v : ArrivedAt(m, v, {}, image) = {} /\ LeftFrom(m, v, {}, image) = {}
    BY DEF ArrivedAt, LeftFrom
<1>4. QED
    BY <1>2, <1>3 DEF IsBase, IsCarried

\* One turn that only writes to the vertex where the polygon vertex goes.
LEMMA MovedIsCarried ==
    ASSUME NEW m, NEW base, NEW k, NEW done, NEW image,
           IsCarried(m, base, k, done, image, {}),
           NEW x \in PolygonVertices(m),
           done \subseteq PolygonVertices(m),
           NEW new, new = image[VertexOf(m, x)],
           new # VertexOf(m, x), new \in Vertices(base),
           NEW r, IsMove(k, r, x, new)
    PROVE  IsCarried(m, base, r, done \cup {x}, image, {})
<1> DEFINE V == Vertices(base)
<1>1. DOMAIN k.around = V /\ DOMAIN k.cached = V
    <2>1. /\ k.around = [v \in V |-> k.around[v]]
          /\ k.cached = [v \in V |-> k.cached[v]]
        BY DEF IsCarried
    <2>2. /\ DOMAIN [v \in V |-> k.around[v]] = V
          /\ DOMAIN [v \in V |-> k.cached[v]] = V
        OBVIOUS
    <2>3. QED
        BY <2>1, <2>2, Zenon
<1>2. IsStep(V, k, r, x, VertexOf(m, x), new, {})
    BY <1>1 DEF IsMove, IsStep
<1>3. QED
    BY <1>2, OneIsCarried

\* The loop that renumbers vertices.
LEMMA RenumberedAreCarried ==
    ASSUME NEW m, HasPolygons(m), NEW base, IsBase(m, base),
           NEW image,
           \A x \in PolygonVertices(m) :
                image[VertexOf(m, x)] \in Vertices(base),
           NEW corners \in Seq(PolygonVertices(m)), NoRepeat(corners)
    PROVE  LET r == RenumberVerticesOf(base, image, corners)
           IN  /\ IsCarried(m, base, r, ToSet(corners), image, {})
               /\ r.edges = base.edges
<1> DEFINE N == Len(corners)
           PV == PolygonVertices(m)
           Good(r, n) ==
                /\ IsCarried(m, base, r, FirstOnes(corners, n), image, {})
                /\ r.edges = base.edges
<1>1. N \in Nat
    OBVIOUS
<1>2. PICK f : /\ f[0] = base
               /\ \A n \in 1 .. N :
                    f[n] = RenumberVertexOf(f[n - 1], image, corners[n])
               /\ RenumberVerticesOf(base, image, corners) = f[N]
    BY TurnsOfRenumberVerticesOf
<1>3. Good(f[0], 0)
    BY <1>2, NoneIsCarried, AllAreFirst
<1>4. ASSUME NEW n \in Nat, n < N, Good(f[n], n)
      PROVE  Good(f[n + 1], n + 1)
    <2> DEFINE k == f[n]
               r == f[n + 1]
               x == corners[n + 1]
               done == FirstOnes(corners, n)
               old == VertexOf(m, x)
               new == image[old]
    <2>1. n + 1 \in 1 .. N /\ (n + 1) - 1 = n
        BY <1>4
    <2>2. r = RenumberVertexOf(k, image, x)
        BY <1>2, <2>1
    <2>3. /\ x \in PV /\ x \notin done /\ done \subseteq PV
          /\ FirstOnes(corners, n + 1) = done \cup {x}
        BY <1>4, OneMoreIsFirst
    <2>4. HasFields(k) /\ VertexOf(k, x) = old
        BY <1>4, <2>3 DEF IsCarried, HasMoved
    <2>5. IsCarried(m, base, k, done, image, {})
        BY <1>4
    <2>6. new \in Vertices(base)
        BY <2>3
    <2> HIDE DEF k, r, x, done
    <2>e. k.edges = base.edges
        BY <1>4 DEF k
    <2>7. IsCarried(m, base, r, done \cup {x}, image, {})
          /\ r.edges = k.edges
        <3>1. CASE new = old
            <4>1. r = k
                BY <2>2, <2>4, <3>1 DEF RenumberVertexOf
            <4>2. QED
                BY <2>3, <2>5, <3>1, <4>1, OneStays
        <3>2. CASE new # old
            <4>1. r = UpdatePolygonVertex(k, x, new)
                BY <2>2, <2>4, <3>2 DEF RenumberVertexOf
            <4> HIDE DEF new, old
            <4>2. IsMove(k, r, x, new) /\ r.edges = k.edges
                BY <2>4, <4>1, VertexIsMoved
            <4>3. new = image[VertexOf(m, x)] /\ new # VertexOf(m, x)
                BY <3>2 DEF new, old
            <4>4. QED
                BY <2>3, <2>5, <2>6, <4>2, <4>3, MovedIsCarried
        <3>3. QED
            BY <3>1, <3>2
    <2>8. QED
        BY <2>3, <2>7, <2>e DEF r, x, done
<1> HIDE DEF Good
<1> DEFINE S == {n \in Nat : Good(f[n], n)}
<1>5. \A n \in 0 .. N : n \in S
    <2>1. 0 \in S
        BY <1>3
    <2>2. \A n \in Nat : n < N /\ n \in S => n + 1 \in S
        BY <1>4
    <2> HIDE DEF S
    <2>3. QED
        BY <1>1, <2>1, <2>2, TurnInduction
<1>6. Good(f[N], N)
    BY <1>1, <1>5
<1>7. QED
    BY <1>2, <1>6, AllAreFirst DEF Good

\* The loop of replace_vertex().
LEMMA MovedAreCarried ==
    ASSUME NEW m, HasPolygons(m), NEW base, IsBase(m, base),
           NEW image, NEW old, NEW new,
           new = image[old], new # old, new \in Vertices(base),
           NEW corners \in Seq(CornersAt(m, old))
    PROVE  IsCarried(m, base, MovePolygonVertices(base, corners, old, new),
                     ToSet(corners), image, {})
<1> DEFINE N == Len(corners)
           C == CornersAt(m, old)
           Good(r, n) ==
                IsCarried(m, base, r, FirstOnes(corners, n), image, {})
<1>1. N \in Nat /\ corners \in Seq(C)
    OBVIOUS
<1> HIDE DEF C
<1>2. PICK f : /\ f[0] = base
               /\ \A n \in 1 .. N :
                    f[n] = MovePolygonVertex(f[n - 1], corners[n], old, new)
               /\ MovePolygonVertices(base, corners, old, new) = f[N]
    BY <1>1, TurnsOfMovePolygonVertices
<1>3. Good(f[0], 0)
    BY <1>2, NoneIsCarried, AllAreFirst
<1>4. ASSUME NEW n \in Nat, n < N, Good(f[n], n)
      PROVE  Good(f[n + 1], n + 1)
    <2> DEFINE k == f[n]
               r == f[n + 1]
               x == corners[n + 1]
               done == FirstOnes(corners, n)
    <2>1. n + 1 \in 1 .. N /\ (n + 1) - 1 = n
        BY <1>4
    <2>2. r = MovePolygonVertex(k, x, old, new)
        BY <1>2, <2>1
    <2>3. /\ x \in C /\ done \subseteq C
          /\ FirstOnes(corners, n + 1) = done \cup {x}
        BY <1>1, <1>4, OneMoreIsFirst
    <2>4. /\ x \in PolygonVertices(m) /\ done \subseteq PolygonVertices(m)
          /\ VertexOf(m, x) = old
        BY <2>3 DEF C, CornersAt
    <2>5. HasFields(k)
        BY <1>4 DEF IsCarried, HasMoved
    <2>6. IsCarried(m, base, k, done, image, {})
        BY <1>4
    <2> HIDE DEF k, r, x, done
    <2>7. IsMove(k, r, x, new)
        BY <2>2, <2>5, VertexIsMovedWithEdges
    <2>8. new = image[VertexOf(m, x)] /\ new # VertexOf(m, x)
        BY <2>4
    <2>9. IsCarried(m, base, r, done \cup {x}, image, {})
        BY <2>3, <2>4, <2>6, <2>7, <2>8, MovedIsCarried
    <2>10. QED
        BY <2>3, <2>9 DEF r, x, done
<1> HIDE DEF Good
<1> DEFINE S == {n \in Nat : Good(f[n], n)}
<1>5. \A n \in 0 .. N : n \in S
    <2>1. 0 \in S
        BY <1>3
    <2>2. \A n \in Nat : n < N /\ n \in S => n + 1 \in S
        BY <1>4
    <2> HIDE DEF S
    <2>3. QED
        BY <1>1, <2>1, <2>2, TurnInduction
<1>6. Good(f[N], N)
    BY <1>1, <1>5
<1>7. QED
    BY <1>2, <1>6, AllAreFirst DEF Good

\* No polygon is around vertex old any longer, and no list is cached.
IsLeft(k, r, old) ==
    /\ HasFields(r)
    /\ r.polygons = k.polygons
    /\ r.adjacent = k.adjacent
    /\ r.around = [k.around EXCEPT ![old] = NoPolygonVertex]
    /\ r.cached = [v \in DOMAIN k.cached |->
            IF v = old THEN NotComputed ELSE k.cached[v]]
    /\ r.enabled = k.enabled
    /\ r.edges = k.edges

\* A vertex that its polygon vertex leaves.
LEMMA OneIsLeft ==
    ASSUME NEW k, HasFields(k), NEW old
    PROVE  IsLeft(k, ResetAround(
                AssociatePolygonVertex(k, NoPolygonVertex, old), {old}), old)
<1> DEFINE a == AssociatePolygonVertex(k, NoPolygonVertex, old)
           b == ResetAround(a, {old})
<1>1. /\ HasFields(a)
      /\ a.polygons = k.polygons
      /\ a.adjacent = k.adjacent
      /\ a.around = [k.around EXCEPT ![old] = NoPolygonVertex]
      /\ a.cached = k.cached
      /\ a.enabled = k.enabled
      /\ a.edges = k.edges
    BY AssociateFields
<1> HIDE DEF a
<1>2. /\ HasFields(b)
      /\ b.polygons = a.polygons
      /\ b.adjacent = a.adjacent
      /\ b.around = a.around
      /\ b.cached = [v \in DOMAIN a.cached |->
            IF v \in {old} THEN NotComputed ELSE a.cached[v]]
      /\ b.enabled = a.enabled
      /\ b.edges = a.edges
    BY <1>1, ResetFields
<1> HIDE DEF b
<1>3. b.cached = [v \in DOMAIN k.cached |->
            IF v = old THEN NotComputed ELSE k.cached[v]]
    BY <1>1, <1>2
<1>4. QED
    BY <1>1, <1>2, <1>3, Zenon DEF a, b, IsLeft

\* Where replace_vertices() moves the polygon vertices of each vertex.
ImageOf(mapping, v) == IF v \in DOMAIN mapping THEN mapping[v] ELSE v

\* The loop of replace_vertices().
LEMMA ReplacedAreCarried ==
    ASSUME NEW m, HasPolygons(m), HasFields(m),
           IsBase(m, m), NEW mapping,
           \A v \in DOMAIN mapping : mapping[v] \in Vertices(m),
           \A u, v \in DOMAIN mapping : mapping[u] # v,
           NEW image, image = [v \in Vertices(m) |-> ImageOf(mapping, v)],
           NEW corners \in Seq(PolygonVertices(m)), NoRepeat(corners)
    PROVE  IsCarried(m, m, ReplaceVerticesOf(m, mapping, corners),
                     ToSet(corners), image, DOMAIN mapping)
<1> DEFINE N == Len(corners)
           PV == PolygonVertices(m)
           V == Vertices(m)
           Good(r, n) ==
                IsCarried(m, m, r, FirstOnes(corners, n), image,
                          DOMAIN mapping)
<1>1. N \in Nat
    OBVIOUS
<1>2. PICK f : /\ f[0] = m
               /\ \A n \in 1 .. N :
                    f[n] = ReplaceVertexOf(f[n - 1], mapping, corners[n])
               /\ ReplaceVerticesOf(m, mapping, corners) = f[N]
    BY TurnsOfReplaceVerticesOf
<1>3. Good(f[0], 0)
    BY <1>2, NoneIsCarried, AllAreFirst
<1>4. ASSUME NEW n \in Nat, n < N, Good(f[n], n)
      PROVE  Good(f[n + 1], n + 1)
    <2> DEFINE k == f[n]
               r == f[n + 1]
               x == corners[n + 1]
               done == FirstOnes(corners, n)
               old == VertexOf(m, x)
               new == image[old]
    <2>1. n + 1 \in 1 .. N /\ (n + 1) - 1 = n
        BY <1>4
    <2>2. r = ReplaceVertexOf(k, mapping, x)
        BY <1>2, <2>1
    <2>3. /\ x \in PV /\ x \notin done /\ done \subseteq PV
          /\ FirstOnes(corners, n + 1) = done \cup {x}
        BY <1>4, OneMoreIsFirst
    <2>4. HasFields(k) /\ VertexOf(k, x) = old
        BY <1>4, <2>3 DEF IsCarried, HasMoved
    <2>5. IsCarried(m, m, k, done, image, DOMAIN mapping)
        BY <1>4
    <2>6. old \in V
        BY <2>3, VertexIsKnown
    <2>7. new = ImageOf(mapping, old) /\ new \in V
        BY <2>6 DEF ImageOf
    <2> HIDE DEF k, r, x, done
    <2>8. IsCarried(m, m, r, done \cup {x}, image, DOMAIN mapping)
        <3>1. CASE new = old
            <4>1. r = k
                BY <2>2, <2>4, <2>7, <3>1 DEF ReplaceVertexOf, ImageOf
            <4>2. QED
                BY <2>3, <2>5, <3>1, <4>1, OneStays
        <3>2. CASE new # old
            <4> DEFINE a == AssociatePolygonVertex(k, NoPolygonVertex, old)
                       b == ResetAround(a, {old})
            <4>1. r = MovePolygonVertex(b, x, old, new)
                BY <2>2, <2>4, <2>7, <3>2 DEF ReplaceVertexOf, ImageOf
            <4> HIDE DEF new, old
            <4>2. IsLeft(k, b, old)
                BY <2>4, OneIsLeft
            <4> HIDE DEF b
            <4>3. IsMove(b, r, x, new)
                BY <4>1, <4>2, VertexIsMovedWithEdges DEF IsLeft
            <4>5. DOMAIN k.around = V /\ DOMAIN k.cached = V
                <5>1. /\ k.around = [v \in V |-> k.around[v]]
                      /\ k.cached = [v \in V |-> k.cached[v]]
                    BY <2>5 DEF IsCarried
                <5>2. /\ DOMAIN [v \in V |-> k.around[v]] = V
                      /\ DOMAIN [v \in V |-> k.cached[v]] = V
                    OBVIOUS
                <5>3. QED
                    BY <5>1, <5>2, Zenon
            <4>6. old \in V /\ new \in V /\ new # old
                BY <2>6, <2>7, <3>2
            <4>7. IsStep(V, k, r, x, old, new, DOMAIN mapping)
                <5>1. old \in DOMAIN mapping
                    BY <2>7, <4>6 DEF ImageOf
                <5>2. r.around = [v \in V |->
                        IF v = new THEN x
                        ELSE IF v = old /\ v \in DOMAIN mapping
                        THEN NoPolygonVertex ELSE k.around[v]]
                    BY <4>2, <4>3, <4>5, <4>6, <5>1 DEF IsMove, IsLeft
                <5>3. r.cached = [v \in V |->
                        IF v = new \/ (v = old /\ v \in DOMAIN mapping)
                        THEN NotComputed ELSE k.cached[v]]
                    BY <4>2, <4>3, <4>5, <5>1 DEF IsMove, IsLeft
                <5>4. QED
                    BY <4>2, <4>3, <5>2, <5>3 DEF IsMove, IsLeft, IsStep
            <4>8. ASSUME NEW y \in PV, old \in DOMAIN mapping
                  PROVE  image[VertexOf(m, y)] # old
                <5>1. VertexOf(m, y) \in V
                    BY VertexIsKnown
                <5>2. QED
                    BY <4>8, <5>1 DEF ImageOf
            <4>9. old = VertexOf(m, x) /\ new = image[old]
                BY DEF old, new
            <4>10. QED
                BY <2>3, <2>5, <4>6, <4>7, <4>8, <4>9, OneIsCarried
        <3>3. QED
            BY <3>1, <3>2
    <2>9. QED
        BY <2>3, <2>8 DEF r, x, done
<1> HIDE DEF Good
<1> DEFINE S == {n \in Nat : Good(f[n], n)}
<1>5. \A n \in 0 .. N : n \in S
    <2>1. 0 \in S
        BY <1>3
    <2>2. \A n \in Nat : n < N /\ n \in S => n + 1 \in S
        BY <1>4
    <2> HIDE DEF S
    <2>3. QED
        BY <1>1, <2>1, <2>2, TurnInduction
<1>6. Good(f[N], N)
    BY <1>1, <1>5
<1>7. QED
    BY <1>2, <1>6, AllAreFirst DEF Good

-----------------------------------------------------------------------------
(* Vertices that are replaced, deleted and permuted. *)

\* The polygons keep distinct vertices.
ImagesAreApart(m, image) ==
    \A x, y \in PolygonVertices(m) :
        /\ x[1] = y[1]
        /\ image[VertexOf(m, x)] = image[VertexOf(m, y)]
        => x = y

\* The list of polygon vertices depends on the polygons only.
LEMMA SameVertexList ==
    ASSUME NEW m, HasPolygons(m), NEW k, k.polygons = m.polygons
    PROVE  PolygonVertexList(k) = PolygonVertexList(m)
<1> DEFINE list == Indices(m.polygons)
           T == IndexRange(Size(m.polygons))
           N == Len(list)
           More(p) == [i \in 1 .. Size(m.polygons[p]) |-> <<p, i - 1>>]
<1>1. /\ Indices(k.polygons) = list
      /\ list \in Seq(T)
      /\ N \in Nat
    BY IndicesListed DEF HasPolygons
<1>2. PICK f : /\ f[0] = <<>>
               /\ \A n \in 1 .. N : f[n] = f[n - 1] \o More(list[n])
               /\ PolygonVertexList(m) = f[N]
    BY <1>1, TurnsOfPolygonVertexList
<1>3. PICK g : /\ g[0] = <<>>
               /\ \A n \in 1 .. N : g[n] = g[n - 1] \o More(list[n])
               /\ PolygonVertexList(k) = g[N]
    <2>1. PICK g : /\ g[0] = <<>>
                   /\ \A n \in 1 .. Len(Indices(k.polygons)) : g[n] =
                        g[n - 1] \o [i \in 1 .. Size(k.polygons[
                                            Indices(k.polygons)[n]]) |->
                                        <<Indices(k.polygons)[n], i - 1>>]
                   /\ PolygonVertexList(k) = g[Len(Indices(k.polygons))]
        BY <1>1, TurnsOfPolygonVertexList
    <2>2. QED
        BY <1>1, <2>1
<1> HIDE DEF list, N, T, More
<1> DEFINE S == {n \in Nat : f[n] = g[n]}
<1>4. \A n \in 0 .. N : n \in S
    <2>1. 0 \in S
        BY <1>2, <1>3
    <2>2. ASSUME NEW n \in Nat, n < N, n \in S PROVE n + 1 \in S
        <3>1. n + 1 \in 1 .. N /\ (n + 1) - 1 = n
            BY <1>1, <2>2
        <3>2. f[n + 1] = f[n] \o More(list[n + 1])
              /\ g[n + 1] = g[n] \o More(list[n + 1])
            BY <1>2, <1>3, <3>1
        <3>3. f[n] = g[n]
            BY <2>2
        <3>4. f[n + 1] = g[n + 1]
            BY <3>2, <3>3
        <3>5. n + 1 \in Nat
            OBVIOUS
        <3>6. QED
            BY <3>4, <3>5
    <2> HIDE DEF S
    <2>3. QED
        BY <1>1, <2>1, <2>2, TurnInduction
<1>5. f[N] = g[N]
    BY <1>1, <1>4
<1>6. QED
    BY <1>2, <1>3, <1>5

\* One turn of update_polygon_around_vertices().
LEMMA AroundIsRenumbered ==
    ASSUME NEW k, HasFields(k), NEW V,
           k.around = [v \in V |-> k.around[v]],
           k.cached = [v \in V |-> k.cached[v]],
           NEW old2new, NEW u \in V
    PROVE  LET r == UpdatePolygonAroundVertex(k, old2new, u)
           IN  /\ HasFields(r)
               /\ r.polygons = k.polygons
               /\ r.adjacent = k.adjacent
               /\ r.enabled = k.enabled
               /\ r.edges = k.edges
               /\ r.around = [v \in V |-> r.around[v]]
               /\ r.cached = [v \in V |-> r.cached[v]]
               /\ \A v \in V : old2new[v] = v =>
                    r.around[v] = k.around[v] /\ r.cached[v] = k.cached[v]
<1> DEFINE new == old2new[u]
           a(x) == AssociatePolygonVertex(k, x, u)
           b == ResetAround(a(NoPolygonVertex), {u})
           r == UpdatePolygonAroundVertex(k, old2new, u)
<1>1. DOMAIN k.around = V /\ DOMAIN k.cached = V
    <2>1. /\ DOMAIN [v \in V |-> k.around[v]] = V
          /\ DOMAIN [v \in V |-> k.cached[v]] = V
        OBVIOUS
    <2>2. QED
        BY <2>1, Zenon
<1>2. r = IF new = u THEN k
          ELSE IF new # NoId /\ k.around[new] # NoPolygonVertex
          THEN a(k.around[new]) ELSE b
    BY DEF UpdatePolygonAroundVertex
<1>3. CASE new = u
    BY <1>2, <1>3
<1>4. CASE new # u /\ new # NoId /\ k.around[new] # NoPolygonVertex
    <2> DEFINE x == k.around[new]
               s == a(x)
    <2>1. r = s
        BY <1>2, <1>4
    <2> HIDE DEF r
    <2>2. /\ HasFields(s)
          /\ s.polygons = k.polygons
          /\ s.adjacent = k.adjacent
          /\ s.around = [k.around EXCEPT ![u] = x]
          /\ s.cached = k.cached
          /\ s.enabled = k.enabled
          /\ s.edges = k.edges
        BY AssociateFields
    <2> HIDE DEF s, x
    <2>3. s.around = [v \in V |-> IF v = u THEN x ELSE k.around[v]]
        BY <1>1, <2>2
    <2>4. s.around = [v \in V |-> s.around[v]]
        BY <2>3
    <2>5. QED
        BY <1>4, <2>1, <2>2, <2>3, <2>4 DEF r
<1>5. CASE new # u /\ ~(new # NoId /\ k.around[new] # NoPolygonVertex)
    <2>1. r = b
        BY <1>2, <1>5
    <2>2. IsLeft(k, b, u)
        BY OneIsLeft
    <2> HIDE DEF r, b
    <2>3. /\ b.around = [v \in V |->
                IF v = u THEN NoPolygonVertex ELSE k.around[v]]
          /\ b.cached = [v \in V |->
                IF v = u THEN NotComputed ELSE k.cached[v]]
        BY <1>1, <2>2 DEF IsLeft
    <2>4. b.around = [v \in V |-> b.around[v]]
          /\ b.cached = [v \in V |-> b.cached[v]]
        BY <2>3
    <2>5. QED
        BY <1>5, <2>1, <2>2, <2>3, <2>4 DEF r, IsLeft
<1>6. QED
    BY <1>3, <1>4, <1>5

\* update_polygon_around_vertices() changes no vertex that keeps its index.
LEMMA AroundsAreRenumbered ==
    ASSUME NEW m, NEW base, IsBase(m, base), Size(base.around) \in Nat,
           Vertices(base) = IndexRange(Size(base.around)), NEW old2new
    PROVE  LET r == UpdatePolygonAroundVertices(base, old2new)
           IN  /\ IsBase(m, r)
               /\ Vertices(r) = Vertices(base)
               /\ Size(r.around) = Size(base.around)
               /\ \A v \in Vertices(base) : old2new[v] = v =>
                    /\ r.around[v] = base.around[v]
                    /\ r.cached[v] = base.cached[v]
               /\ r.edges = base.edges
<1> DEFINE V == Vertices(base)
           list == Indices(base.around)
           N == Len(list)
           Good(r) ==
               /\ HasFields(r)
               /\ r.polygons = m.polygons
               /\ r.adjacent = m.adjacent
               /\ r.enabled = m.enabled
               /\ r.edges = base.edges
               /\ r.around = [v \in V |-> r.around[v]]
               /\ r.cached = [v \in V |-> r.cached[v]]
               /\ \A v \in V : old2new[v] = v =>
                    /\ r.around[v] = base.around[v]
                    /\ r.cached[v] = base.cached[v]
<1>1. list \in Seq(V) /\ N \in Nat /\ \A n \in 1 .. N : list[n] \in V
    BY IndicesListed
<1>2. PICK f : /\ f[0] = base
               /\ \A n \in 1 .. N : f[n] =
                    UpdatePolygonAroundVertex(f[n - 1], old2new, list[n])
               /\ UpdatePolygonAroundVertices(base, old2new) = f[N]
    BY <1>1, TurnsOfUpdatePolygonAroundVertices
<1>3. Good(f[0])
    BY <1>2 DEF IsBase
<1> HIDE DEF V, list, N
<1>4. ASSUME NEW n \in Nat, n < N, Good(f[n])
      PROVE  Good(f[n + 1])
    <2> DEFINE k == f[n]
               u == list[n + 1]
               r == UpdatePolygonAroundVertex(k, old2new, u)
    <2>1. n + 1 \in 1 .. N /\ (n + 1) - 1 = n
        BY <1>1, <1>4
    <2>2. f[n + 1] = r /\ u \in V
        BY <1>1, <1>2, <2>1
    <2> HIDE DEF k, u
    <2>3. /\ HasFields(k)
          /\ k.around = [v \in V |-> k.around[v]]
          /\ k.cached = [v \in V |-> k.cached[v]]
        BY <1>4 DEF k
    <2>4. /\ HasFields(r)
          /\ r.polygons = k.polygons
          /\ r.adjacent = k.adjacent
          /\ r.enabled = k.enabled
          /\ r.edges = k.edges
          /\ r.around = [v \in V |-> r.around[v]]
          /\ r.cached = [v \in V |-> r.cached[v]]
          /\ \A v \in V : old2new[v] = v =>
                r.around[v] = k.around[v] /\ r.cached[v] = k.cached[v]
        BY <2>2, <2>3, AroundIsRenumbered
    <2> HIDE DEF r
    <2>5. Good(r)
        BY <1>4, <2>4 DEF k
    <2>6. QED
        BY <2>2, <2>5
<1> HIDE DEF Good
<1> DEFINE S == {n \in Nat : Good(f[n])}
<1>5. \A n \in 0 .. N : n \in S
    <2>1. 0 \in S
        BY <1>3
    <2>2. \A n \in Nat : n < N /\ n \in S => n + 1 \in S
        BY <1>4
    <2> HIDE DEF S
    <2>3. QED
        BY <1>1, <2>1, <2>2, TurnInduction
<1>6. Good(f[N])
    BY <1>1, <1>5
<1> DEFINE r == f[N]
<1> HIDE DEF r
<1>7. Good(r) /\ UpdatePolygonAroundVertices(base, old2new) = r
    BY <1>2, <1>6 DEF r
<1>8. DOMAIN r.around = V
    <2>1. r.around = [v \in V |-> r.around[v]]
        BY <1>7 DEF Good
    <2>2. DOMAIN [v \in V |-> r.around[v]] = V
        OBVIOUS
    <2>3. QED
        BY <2>1, <2>2, Zenon
<1>9. Vertices(r) = V /\ Size(r.around) = Size(base.around)
    BY <1>8 DEF V, Vertices, Size
<1>10. IsBase(m, r)
    BY <1>7, <1>9 DEF Good, IsBase
<1>11. QED
    BY <1>7, <1>9, <1>10 DEF Good, V

\* The vertices of the polygons of m are renumbered in r, and those of its
\* edges.
AreRenumbered(m, r, old2new) ==
    /\ HasSlots(m, r.polygons)
    /\ \A x \in PolygonVertices(m) : VertexOf(r, x) = old2new[VertexOf(m, x)]
    /\ r.enabled = m.enabled
    /\ r.edges = IF m.enabled
                  THEN UpdateFacetVertices(m.edges, old2new) ELSE m.edges

\* Vertices that are renumbered.
LEMMA VerticesAreRenumbered ==
    ASSUME NEW m, IsSurface(m), NEW k, IsBase(m, k), Size(k.around) \in Nat,
           Vertices(k) = IndexRange(Size(k.around)),
           Vertices(k) \subseteq Vertices(m), NEW old2new,
           \A x \in PolygonVertices(m) :
                old2new[VertexOf(m, x)] \in Vertices(k),
           ImagesAreApart(m, old2new),
           \A v \in Vertices(k) :
                IF old2new[v] = v
                THEN k.around[v] = m.around[v] /\ k.cached[v] = m.cached[v]
                ELSE \E x \in PolygonVertices(m) : old2new[VertexOf(m, x)] = v
    PROVE  LET r == RenumberVertices(k, old2new)
           IN  /\ IsSurface(r)
               /\ HasFans(m) => HasFans(r)
               /\ Vertices(r) = Vertices(k)
               /\ k.edges = m.edges => AreRenumbered(m, r, old2new)
<1> DEFINE PV == PolygonVertices(m)
           list == PolygonVertexList(m)
           base == UpdatePolygonAroundVertices(k, old2new)
           u == RenumberVerticesOf(base, old2new, list)
           edges == UpdateFacetVertices(u.edges, old2new)
           r == RenumberVertices(k, old2new)
<1>1. HasPolygons(m) /\ k.polygons = m.polygons
    BY DEF IsSurface, IsBase
<1>2. list \in Seq(PV) /\ NoRepeat(list) /\ ToSet(list) = PV
    BY <1>1, CornersListed
<1>3. r = IF k.enabled THEN [u EXCEPT !.edges = edges] ELSE u
    <2>1. PolygonVertexList(k) = list
        BY <1>1, SameVertexList
    <2>2. UpdatePolygonVertices(k, old2new) = u
        BY <2>1 DEF UpdatePolygonVertices
    <2>3. QED
        BY <2>2 DEF RenumberVertices
<1>4. /\ IsBase(m, base)
      /\ Vertices(base) = Vertices(k)
      /\ Size(base.around) = Size(k.around)
      /\ \A v \in Vertices(k) : old2new[v] = v =>
            base.around[v] = k.around[v] /\ base.cached[v] = k.cached[v]
      /\ base.edges = k.edges
    BY AroundsAreRenumbered
<1> HIDE DEF base, list
<1>5. \A x \in PV : old2new[VertexOf(m, x)] \in Vertices(base)
    BY <1>4
<1>6. IsCarried(m, base, u, PV, old2new, {}) /\ u.edges = base.edges
    BY <1>1, <1>2, <1>4, <1>5, RenumberedAreCarried
<1>7. ASSUME NEW v \in Vertices(base)
      PROVE  \/ ArrivedAt(m, v, PV, old2new) # {}
             \/ v \in {} /\ LeftFrom(m, v, PV, old2new) # {}
             \/ IF LeftFrom(m, v, PV, old2new) = {}
                THEN /\ base.around[v] = m.around[v]
                     /\ base.cached[v] \in {m.cached[v], NotComputed}
                ELSE /\ base.around[v] = NoPolygonVertex
                     /\ base.cached[v] = NotComputed
    <2>1. CASE old2new[v] = v
        <3>1. LeftFrom(m, v, PV, old2new) = {}
            BY <2>1 DEF LeftFrom
        <3>2. base.around[v] = m.around[v] /\ base.cached[v] = m.cached[v]
            BY <1>4, <1>7, <2>1
        <3>3. QED
            BY <3>1, <3>2
    <2>2. CASE old2new[v] # v
        <3>1. PICK x \in PV : old2new[VertexOf(m, x)] = v
            BY <1>4, <1>7, <2>2
        <3>2. x \in ArrivedAt(m, v, PV, old2new)
            BY <2>2, <3>1 DEF ArrivedAt
        <3>3. QED
            BY <3>2
    <2>3. QED
        BY <2>1, <2>2
<1>8. IsSurface(u) /\ (HasFans(m) => HasFans(u))
    <2>1. /\ Size(base.around) \in Nat
          /\ Vertices(base) = IndexRange(Size(base.around))
          /\ Vertices(base) \subseteq Vertices(m)
        BY <1>4
    <2>2. \A x, y \in PolygonVertices(m) :
                /\ x[1] = y[1]
                /\ old2new[VertexOf(m, x)] = old2new[VertexOf(m, y)]
                => x = y
        BY DEF ImagesAreApart
    <2> HIDE DEF u
    <2>3. QED
        BY <1>5, <1>6, <1>7, <2>1, <2>2, CarriedSurface
<1> HIDE DEF u
<1>u. /\ HasSlots(m, u.polygons)
      /\ \A x \in PV : VertexOf(u, x) = old2new[VertexOf(m, x)]
      /\ u.enabled = m.enabled
      /\ k.enabled = m.enabled
      /\ u.edges = k.edges
    BY <1>4, <1>6 DEF IsCarried, HasMoved, IsBase
<1>v. Vertices(u) = Vertices(k)
    <2>1. u.around = [v \in Vertices(base) |-> u.around[v]]
        BY <1>6 DEF IsCarried
    <2>2. DOMAIN [v \in Vertices(base) |-> u.around[v]] = Vertices(base)
        OBVIOUS
    <2>3. DOMAIN u.around = Vertices(base)
        BY <2>1, <2>2, Zenon
    <2>4. QED
        BY <1>4, <2>3 DEF Vertices
<1>e. edges = UpdateFacetVertices(k.edges, old2new)
    BY <1>u
<1> HIDE DEF edges, r
<1>9. CASE ~k.enabled
    <2>1. r = u
        BY <1>3, <1>9
    <2>2. k.edges = m.edges => AreRenumbered(m, r, old2new)
        BY <1>9, <1>u, <2>1 DEF AreRenumbered
    <2>3. QED
        BY <1>8, <1>v, <2>1, <2>2 DEF r
<1>10. CASE k.enabled
    <2>1. r = [u EXCEPT !.edges = edges]
        BY <1>3, <1>10
    <2>2. HasFields(u)
        BY <1>8 DEF IsSurface
    <2>3. /\ HasFields(r)
          /\ r.polygons = u.polygons
          /\ r.adjacent = u.adjacent
          /\ r.around = u.around
          /\ r.cached = u.cached
          /\ r.enabled = u.enabled
          /\ r.edges = edges
        BY <2>1, <2>2 DEF HasFields
    <2>4. /\ u.enabled \in BOOLEAN
          /\ u.cached = [v \in Vertices(u) |-> u.cached[v]]
        BY <1>8 DEF IsSurface, HasLists
    <2>5. IsSurface(r)
        BY <1>8, <2>3, <2>4, SurfaceWithLists
    <2>f. HasFans(u) => HasFans(r)
        BY <1>8, <2>3, EdgesKeepFans
    <2>6. \A x \in PV : VertexOf(r, x) = VertexOf(u, x)
        BY <2>3 DEF VertexOf
    <2>7. k.edges = m.edges => AreRenumbered(m, r, old2new)
        BY <1>10, <1>e, <1>u, <2>3, <2>6 DEF AreRenumbered
    <2>8. Vertices(r) = Vertices(k)
        BY <1>v, <2>3 DEF Vertices
    <2>9. QED
        BY <1>8, <2>5, <2>7, <2>8, <2>f DEF r
<1>11. QED
    BY <1>9, <1>10 DEF r

\* A vertex is isolated when it has no polygon vertex.
LEMMA IsolatedHasNoCorner ==
    ASSUME NEW m, IsSurface(m), NEW v \in Vertices(m)
    PROVE  m.around[v] = NoPolygonVertex <=> CornersAt(m, v) = {}
<1>1. FindsPolygonAround(m, v) /\ HasPolygons(m)
    BY DEF IsSurface, HasAround
<1>2. NoPolygonVertex \notin CornersAt(m, v)
    BY <1>1, NoPolygonVertexIsNone DEF CornersAt
<1>3. QED
    BY <1>1, <1>2 DEF FindsPolygonAround

\* old2new gives the vertices that it keeps, as those of polygons, different
\* indices in r.
KeepsVertices(m, r, old2new) ==
    /\ \A v \in Vertices(m) : old2new[v] = NoId \/ old2new[v] \in Vertices(r)
    /\ \A u, v \in Vertices(m) :
          old2new[u] # NoId /\ old2new[u] = old2new[v] => u = v
    /\ \A x \in PolygonVertices(m) : old2new[VertexOf(m, x)] # NoId

\* A surface is one after its isolated vertices are deleted.
LEMMA DeletedVerticesKeepSurface ==
    ASSUME NEW m, IsSurface(m)
    PROVE  LET r == DeleteSurfaceVertices(m, IsolatedPoints(m))
           IN  /\ IsSurface(r)
               /\ HasFans(m) => HasFans(r)
               /\ \/ r = m
                  \/ \E old2new : /\ AreRenumbered(m, r, old2new)
                                  /\ KeepsVertices(m, r, old2new)
<1> DEFINE n == Size(m.around)
           D == IsolatedPoints(m)
           PV == PolygonVertices(m)
           old2new == MappingAfterDeletion(n, D)
           around == DeleteElements(m.around, D)
           cached == DeleteElements(m.cached, D)
           k == [m EXCEPT !.around = around, !.cached = cached]
           count == Cardinality(IndexRange(n) \ D)
<1>1. /\ HasFields(m) /\ HasPolygons(m) /\ HasAround(m) /\ HasLists(m)
      /\ n \in Nat /\ Vertices(m) = IndexRange(n)
    BY DEF IsSurface, HasPolygons
<1>2. \A v \in D : v \in Vertices(m) /\ CornersAt(m, v) = {}
    BY IsolatedHasNoCorner DEF IsolatedPoints
<1>3. DeleteSurfaceVertices(m, D)
        = IF D = {} THEN m ELSE RenumberVertices(k, old2new)
    BY <1>2 DEF DeleteSurfaceVertices
<1>4. DOMAIN m.around = IndexRange(n) /\ DOMAIN m.cached = IndexRange(n)
    BY <1>1 DEF Vertices, HasLists
<1>5. /\ count \in Nat
      /\ DOMAIN around = IndexRange(count)
      /\ Size(around) = count
      /\ DOMAIN cached = IndexRange(count)
    BY <1>1, <1>4, DeletedVectorSize
<1>6. /\ around = [v \in IndexRange(count) |-> around[v]]
      /\ cached = [v \in IndexRange(count) |-> cached[v]]
    BY <1>5 DEF DeleteElements
<1>7. \A v \in IndexRange(n) : v \notin D =>
        /\ old2new[v] \in IndexRange(count)
        /\ around[old2new[v]] = m.around[v]
        /\ cached[old2new[v]] = m.cached[v]
    <2>1. TAKE v \in IndexRange(n)
    <2>2. HAVE v \notin D
    <2>3. v \in IndexRange(n) \ D
        BY <2>2
    <2>4. around[old2new[v]] = m.around[v]
        BY <1>1, <1>4, <2>3, DeletedVectorFollowsMapping
    <2>5. cached[old2new[v]] = m.cached[v]
        BY <1>1, <1>4, <2>3, DeletedVectorFollowsMapping
    <2>6. old2new[v] \in IndexRange(count)
        BY <1>1, <2>3, MappingIsOneToOne
    <2>7. QED
        BY <2>4, <2>5, <2>6
<1>8. \A u, v \in IndexRange(n) :
        u \notin D /\ v \notin D /\ old2new[u] = old2new[v] => u = v
    <2>1. TAKE u, v \in IndexRange(n)
    <2>2. HAVE u \notin D /\ v \notin D /\ old2new[u] = old2new[v]
    <2>3. u \in IndexRange(n) \ D /\ v \in IndexRange(n) \ D
        BY <2>2
    <2>4. QED
        BY <1>1, <2>2, <2>3, MappingIsOneToOne
<1>9. \A v \in IndexRange(count) : \E w \in IndexRange(n) \ D : old2new[w] = v
    BY <1>1, <1>4, DeletedVectorComesFromKept
<1>10. \A v \in IndexRange(n) : v \in D => old2new[v] = NoId
    BY DEF MappingAfterDeletion
<1>11. IndexRange(count) \subseteq IndexRange(n)
    <2>1. count <= n
        BY <1>1, KeptBelowIsFinite DEF KeptBelow
    <2> HIDE DEF count
    <2>2. QED
        BY <1>1, <1>5, <2>1 DEF IndexRange
<1>12. \A x \in PV : /\ VertexOf(m, x) \in IndexRange(n)
                     /\ VertexOf(m, x) \notin D
    <2>1. TAKE x \in PV
    <2>2. VertexOf(m, x) \in IndexRange(n)
        BY <1>1, VertexIsKnown
    <2>3. x \in CornersAt(m, VertexOf(m, x))
        BY DEF CornersAt
    <2>4. QED
        BY <1>2, <2>2, <2>3
<1> HIDE DEF around, cached, old2new, count, D
<1>k. k = [m EXCEPT !.around = around, !.cached = cached]
    OBVIOUS
<1> HIDE DEF k
<1>13. /\ HasFields(k)
       /\ k.polygons = m.polygons
       /\ k.adjacent = m.adjacent
       /\ k.enabled = m.enabled
       /\ k.around = around
       /\ k.cached = cached
       /\ k.edges = m.edges
    BY <1>1, <1>k DEF HasFields
<1>14. Vertices(k) = IndexRange(count) /\ Size(k.around) = count
    BY <1>5, <1>13 DEF Vertices
<1>15. IsBase(m, k)
    BY <1>6, <1>13, <1>14 DEF IsBase
<1>16. ImagesAreApart(m, old2new)
    <2>1. SUFFICES ASSUME NEW x \in PV, NEW y \in PV, x[1] = y[1],
                          old2new[VertexOf(m, x)] = old2new[VertexOf(m, y)]
                   PROVE  x = y
        BY DEF ImagesAreApart
    <2>2. VertexOf(m, x) = VertexOf(m, y)
        BY <1>8, <1>12, <2>1
    <2>3. QED
        BY <1>1, <2>1, <2>2, VerticesApart
<1>17. ASSUME NEW v \in Vertices(k)
       PROVE  IF old2new[v] = v
              THEN k.around[v] = m.around[v] /\ k.cached[v] = m.cached[v]
              ELSE \E x \in PV : old2new[VertexOf(m, x)] = v
    <2>1. v \in IndexRange(count) /\ v \in IndexRange(n)
        BY <1>11, <1>14, <1>17
    <2>2. CASE old2new[v] = v
        <3>1. v \notin D
            BY <1>5, <1>10, <2>1, <2>2 DEF IndexRange, NoId
        <3>2. QED
            BY <1>7, <1>13, <2>1, <2>2, <3>1
    <2>3. CASE old2new[v] # v
        <3>1. PICK w \in IndexRange(n) \ D : old2new[w] = v
            BY <1>9, <2>1
        <3>2. CornersAt(m, w) # {}
            BY <1>1, <3>1, IsolatedHasNoCorner DEF D, IsolatedPoints
        <3>3. PICK x \in CornersAt(m, w) : TRUE
            BY <3>2
        <3>4. x \in PV /\ old2new[VertexOf(m, x)] = v
            BY <3>1, <3>3 DEF CornersAt
        <3>5. QED
            BY <2>3, <3>4
    <2>4. QED
        BY <2>2, <2>3
<1>18. \A x \in PV : old2new[VertexOf(m, x)] \in Vertices(k)
    BY <1>7, <1>12, <1>14
<1> DEFINE r == RenumberVertices(k, old2new)
<1>19. /\ IsSurface(r)
       /\ HasFans(m) => HasFans(r)
       /\ Vertices(r) = Vertices(k)
       /\ AreRenumbered(m, r, old2new)
    <2>1. /\ Size(k.around) \in Nat
          /\ Vertices(k) = IndexRange(Size(k.around))
          /\ Vertices(k) \subseteq Vertices(m)
        BY <1>1, <1>5, <1>11, <1>14
    <2>2. QED
        BY <1>13, <1>15, <1>16, <1>17, <1>18, <2>1, VerticesAreRenumbered
<1> HIDE DEF r
<1>20. KeepsVertices(m, r, old2new)
    <2>1. \A v \in IndexRange(n) : old2new[v] # NoId => v \notin D
        BY <1>10
    <2>2. NoId \notin IndexRange(count)
        BY <1>5 DEF IndexRange, NoId
    <2>3. \A v \in Vertices(m) :
            old2new[v] = NoId \/ old2new[v] \in Vertices(r)
        BY <1>1, <1>7, <1>10, <1>14, <1>19
    <2>4. \A u, v \in Vertices(m) :
            old2new[u] # NoId /\ old2new[u] = old2new[v] => u = v
        BY <1>1, <1>8, <2>1
    <2>5. \A x \in PV : old2new[VertexOf(m, x)] # NoId
        BY <1>7, <1>12, <2>2
    <2>6. QED
        BY <2>3, <2>4, <2>5 DEF KeepsVertices
<1>21. DeleteSurfaceVertices(m, D) = IF D = {} THEN m ELSE r
    BY <1>3 DEF r
<1>22. QED
    BY <1>19, <1>20, <1>21 DEF D

\* A surface is one after its vertices are permuted, the isolated ones fixed.
LEMMA PermutedVerticesKeepSurface ==
    ASSUME NEW m, IsSurface(m), NEW permutation,
           permutation \in PermutationsOf(Vertices(m)),
           \A v \in IsolatedPoints(m) : permutation[v] = v
    PROVE  LET r == PermuteSurfaceVertices(m, permutation)
               old2new == Old2NewPermutation(permutation)
           IN  /\ IsSurface(r)
               /\ HasFans(m) => HasFans(r)
               /\ AreRenumbered(m, r, old2new)
               /\ KeepsVertices(m, r, old2new)
<1> DEFINE n == Size(m.around)
           V == Vertices(m)
           PV == PolygonVertices(m)
           old2new == Old2NewPermutation(permutation)
           around == PermuteElements(m.around, permutation)
           cached == PermuteElements(m.cached, permutation)
           k == [m EXCEPT !.around = around, !.cached = cached]
<1>1. /\ HasFields(m) /\ HasPolygons(m) /\ HasAround(m) /\ HasLists(m)
      /\ n \in Nat /\ V = IndexRange(n)
    BY DEF IsSurface, HasPolygons
<1>2. PermuteSurfaceVertices(m, permutation) = RenumberVertices(k, old2new)
    BY DEF PermuteSurfaceVertices
<1>3. DOMAIN m.around = V /\ DOMAIN m.cached = V
    BY <1>1 DEF Vertices, HasLists
<1> HIDE DEF V
<1>4. permutation \in Bijection(V, V) /\ permutation \in [V -> V]
    <2>1. IsFiniteSet(V)
        BY <1>1, SizeOfVector
    <2>2. permutation \in [V -> V]
          /\ \A i, j \in V : permutation[i] = permutation[j] => i = j
        BY DEF PermutationsOf, IsInjective, V
    <2>3. QED
        BY <2>1, <2>2, PermutationIsBijection
<1>5. /\ \A i \in V : old2new[i] \in V
      /\ \A i \in V : old2new[permutation[i]] = i
      /\ \A i \in V : permutation[old2new[i]] = i
    <2>1. \A i \in V : /\ old2new \in [V -> V]
                       /\ old2new[permutation[i]] = i
                       /\ permutation[old2new[i]] = i
        BY <1>4, Old2NewInvertsPermutation
    <2> HIDE DEF old2new
    <2>2. QED
        BY <2>1
<1>6. \A i \in V : around[old2new[i]] = m.around[i]
                   /\ cached[old2new[i]] = m.cached[i]
    BY <1>3, <1>4, PermutedVectorFollowsMapping
<1>7. /\ around = [v \in V |-> around[v]]
      /\ cached = [v \in V |-> cached[v]]
      /\ DOMAIN around = V
    BY <1>3 DEF PermuteElements
<1>8. \A x \in PV : VertexOf(m, x) \in V
    BY <1>1, VertexIsKnown DEF V
<1> HIDE DEF around, cached, old2new
<1>k. k = [m EXCEPT !.around = around, !.cached = cached]
    OBVIOUS
<1> HIDE DEF k
<1>9. /\ HasFields(k)
      /\ k.polygons = m.polygons
      /\ k.adjacent = m.adjacent
      /\ k.enabled = m.enabled
      /\ k.around = around
      /\ k.cached = cached
      /\ k.edges = m.edges
    BY <1>1, <1>k DEF HasFields
<1>10. Vertices(k) = V /\ Size(k.around) = n
    BY <1>3, <1>7, <1>9 DEF Vertices, Size
<1>11. IsBase(m, k)
    BY <1>7, <1>9, <1>10 DEF IsBase
<1>12. ImagesAreApart(m, old2new)
    <2>1. SUFFICES ASSUME NEW x \in PV, NEW y \in PV, x[1] = y[1],
                          old2new[VertexOf(m, x)] = old2new[VertexOf(m, y)]
                   PROVE  x = y
        BY DEF ImagesAreApart
    <2>2. VertexOf(m, x) = VertexOf(m, y)
        BY <1>5, <1>8, <2>1
    <2>3. QED
        BY <1>1, <2>1, <2>2, VerticesApart
<1>13. ASSUME NEW v \in Vertices(k)
       PROVE  IF old2new[v] = v
              THEN k.around[v] = m.around[v] /\ k.cached[v] = m.cached[v]
              ELSE \E x \in PV : old2new[VertexOf(m, x)] = v
    <2>1. v \in V
        BY <1>10, <1>13
    <2>2. CASE old2new[v] = v
        BY <1>6, <1>9, <2>1, <2>2
    <2>3. CASE old2new[v] # v
        <3> DEFINE w == permutation[v]
        <3>1. w \in V /\ old2new[w] = v
            BY <1>4, <1>5, <2>1
        <3>2. w \notin IsolatedPoints(m)
            <4>1. SUFFICES ASSUME permutation[w] = w PROVE FALSE
                OBVIOUS
            <4>2. old2new[w] = w
                BY <1>5, <3>1, <4>1
            <4>3. QED
                BY <2>3, <3>1, <4>2
        <3>3. CornersAt(m, w) # {}
            BY <3>1, <3>2, IsolatedHasNoCorner DEF V, IsolatedPoints
        <3>4. PICK x \in CornersAt(m, w) : TRUE
            BY <3>3
        <3>5. x \in PV /\ old2new[VertexOf(m, x)] = v
            BY <3>1, <3>4 DEF CornersAt
        <3>6. QED
            BY <2>3, <3>5
    <2>4. QED
        BY <2>2, <2>3
<1>14. \A x \in PV : old2new[VertexOf(m, x)] \in Vertices(k)
    BY <1>5, <1>8, <1>10
<1> DEFINE r == RenumberVertices(k, old2new)
<1>15. /\ IsSurface(r)
       /\ HasFans(m) => HasFans(r)
       /\ Vertices(r) = Vertices(k)
       /\ AreRenumbered(m, r, old2new)
    <2>1. /\ Size(k.around) \in Nat
          /\ Vertices(k) = IndexRange(Size(k.around))
          /\ Vertices(k) \subseteq Vertices(m)
        BY <1>1, <1>10 DEF V
    <2>2. QED
        BY <1>9, <1>11, <1>12, <1>13, <1>14, <2>1, VerticesAreRenumbered
<1> HIDE DEF r
<1>16. KeepsVertices(m, r, old2new)
    <2>1. NoId \notin V
        BY <1>1 DEF IndexRange, NoId
    <2>2. \A v \in Vertices(m) : old2new[v] \in Vertices(r)
        BY <1>5, <1>10, <1>15 DEF V
    <2>3. \A u, v \in Vertices(m) : old2new[u] = old2new[v] => u = v
        BY <1>5 DEF V
    <2>4. \A x \in PV : old2new[VertexOf(m, x)] # NoId
        BY <1>5, <1>8, <2>1
    <2>5. QED
        BY <2>2, <2>3, <2>4 DEF KeepsVertices
<1>17. QED
    BY <1>2, <1>15, <1>16 DEF old2new, r

\* Where replace_vertex() moves the polygon vertices of each vertex.
OneImage(m, old, new) ==
    [v \in Vertices(m) |-> IF v = old THEN new ELSE v]

\* A surface is one after a vertex is replaced by another one.
LEMMA ReplacedVertexKeepsSurface ==
    ASSUME NEW m, IsSurface(m),
           NEW old \in Vertices(m), NEW new \in Vertices(m),
           IsManifold(m, old),
           old # new => ImagesAreApart(m, OneImage(m, old, new))
    PROVE  LET r == ReplaceSurfaceVertex(m, old, new)
           IN  IsSurface(r) /\ (HasFans(m) => HasFans(r))
<1> DEFINE V == Vertices(m)
           PV == PolygonVertices(m)
           list == PolygonsAroundVertex(m, old)
           image == OneImage(m, old, new)
           a == AssociatePolygonVertex(m, NoPolygonVertex, old)
           b == MovePolygonVertices(a, list, old, new)
           r == ResetAround(b, {old})
           base == ResetAround(a, {old})
<1>1. SUFFICES ASSUME old # new
               PROVE  IsSurface(r) /\ (HasFans(m) => HasFans(r))
    BY DEF ReplaceSurfaceVertex
<1>2. /\ HasFields(m) /\ HasPolygons(m) /\ HasAround(m) /\ HasLists(m)
      /\ Size(m.around) \in Nat /\ V = IndexRange(Size(m.around))
    BY DEF IsSurface, HasPolygons
<1>3. DOMAIN m.around = V /\ DOMAIN m.cached = V
    BY <1>2 DEF Vertices, HasLists
<1>4. list \in Seq(CornersAt(m, old)) /\ ToSet(list) = CornersAt(m, old)
    BY UpdatedIsListAround DEF PolygonsAroundVertex, IsListAround, IsManifold
<1>5. /\ HasFields(a)
      /\ a.polygons = m.polygons
      /\ a.adjacent = m.adjacent
      /\ a.around = [m.around EXCEPT ![old] = NoPolygonVertex]
      /\ a.cached = m.cached
      /\ a.enabled = m.enabled
    BY <1>2, AssociateFields
<1>6. \A x \in PV : VertexOf(m, x) \in V
    BY <1>2, VertexIsKnown
<1>7. /\ \A v \in V : image[v] = IF v = old THEN new ELSE v
      /\ image[old] = new
      /\ \A x \in PV : image[VertexOf(m, x)] \in V
    BY <1>6 DEF OneImage
<1>8. ImagesAreApart(m, image)
    BY <1>1
<1> HIDE DEF V, list, image, a
<1>9. IsLeft(m, base, old)
    BY <1>2, OneIsLeft DEF a
<1>10. Vertices(a) = V /\ a.around = [v \in V |-> a.around[v]]
    BY <1>3, <1>5 DEF Vertices
<1>11. IsBase(m, a)
    <2>1. a.cached = [v \in V |-> a.cached[v]]
        BY <1>2, <1>5 DEF HasLists, V
    <2>2. QED
        BY <1>5, <1>10, <2>1 DEF IsBase
<1>12. IsCarried(m, a, b, CornersAt(m, old), image, {})
    BY <1>1, <1>2, <1>4, <1>7, <1>10, <1>11, MovedAreCarried DEF V
<1> HIDE DEF b
<1>13. IsCarried(m, a, b, PV, image, {})
    <2>1. CornersAt(m, old) \subseteq PV
        BY DEF CornersAt
    <2>2. \A x \in PV \ CornersAt(m, old) :
                image[VertexOf(m, x)] = VertexOf(m, x)
        BY <1>6, <1>7 DEF CornersAt
    <2>3. QED
        BY <1>12, <2>1, <2>2, OthersStay
<1> DEFINE A(v) == ArrivedAt(m, v, PV, image)
           L(v) == LeftFrom(m, v, PV, image)
<1>14. /\ HasFields(b) /\ DOMAIN b.cached = V
       /\ \A v \in V : IF A(v) # {}
                       THEN b.around[v] \in A(v) /\ b.cached[v] = NotComputed
                       ELSE b.around[v] = a.around[v]
                            /\ b.cached[v] = a.cached[v]
    <2>1. b.cached = [v \in V |-> b.cached[v]]
        BY <1>10, <1>13 DEF IsCarried
    <2>2. DOMAIN [v \in V |-> b.cached[v]] = V
        OBVIOUS
    <2>3. DOMAIN b.cached = V
        BY <2>1, <2>2, Zenon
    <2>4. QED
        BY <1>10, <1>13, <2>3 DEF IsCarried, HasMoved
<1>15. /\ HasFields(r)
       /\ r.polygons = b.polygons
       /\ r.adjacent = b.adjacent
       /\ r.around = b.around
       /\ r.cached = [v \in V |-> IF v \in {old} THEN NotComputed
                                  ELSE b.cached[v]]
       /\ r.enabled = b.enabled
    <2>1. /\ HasFields(r)
          /\ r.polygons = b.polygons
          /\ r.adjacent = b.adjacent
          /\ r.around = b.around
          /\ r.cached = [v \in DOMAIN b.cached |->
                IF v \in {old} THEN NotComputed ELSE b.cached[v]]
          /\ r.enabled = b.enabled
        BY <1>14, ResetFields
    <2> HIDE DEF r
    <2>2. QED
        BY <1>14, <2>1
<1> HIDE DEF r, base
<1>16. /\ base.around = [m.around EXCEPT ![old] = NoPolygonVertex]
       /\ base.cached = [v \in V |-> IF v = old THEN NotComputed
                                     ELSE m.cached[v]]
    BY <1>3, <1>9 DEF IsLeft
<1>17. /\ Vertices(base) = V
       /\ base.around = a.around
       /\ Size(base.around) = Size(m.around)
    BY <1>3, <1>5, <1>16 DEF Vertices, Size
<1>18. HasMoved(m, r, PV, image)
    <2>1. HasMoved(m, b, PV, image)
        BY <1>13 DEF IsCarried
    <2>2. QED
        BY <1>15, <2>1 DEF HasMoved, VertexOf
<1>19. IsCarried(m, base, r, PV, image, {})
    <2>1. r.around = [v \in V |-> r.around[v]]
        BY <1>10, <1>13, <1>15 DEF IsCarried
    <2>2. r.cached = [v \in V |-> r.cached[v]]
        BY <1>15
    <2>3. ASSUME NEW v \in V
          PROVE  IF A(v) # {}
                 THEN r.around[v] \in A(v) /\ r.cached[v] = NotComputed
                 ELSE r.around[v] = base.around[v]
                      /\ r.cached[v] = base.cached[v]
        BY <1>5, <1>14, <1>15, <1>16, <1>17
    <2>4. QED
        BY <1>17, <1>18, <2>1, <2>2, <2>3 DEF IsCarried
<1>20. ASSUME NEW v \in V
       PROVE  \/ A(v) # {}
              \/ v \in {} /\ L(v) # {}
              \/ IF L(v) = {}
                 THEN /\ base.around[v] = m.around[v]
                      /\ base.cached[v] \in {m.cached[v], NotComputed}
                 ELSE /\ base.around[v] = NoPolygonVertex
                      /\ base.cached[v] = NotComputed
    <2>1. CASE v = old
        <3>1. base.around[v] = NoPolygonVertex /\ base.cached[v] = NotComputed
            BY <1>3, <1>16, <2>1
        <3>2. L(v) = {} => m.around[v] = NoPolygonVertex
            <4>1. HAVE L(v) = {}
            <4>2. CornersAt(m, v) = {}
                BY <1>1, <1>7, <2>1, <4>1 DEF LeftFrom, CornersAt
            <4>3. QED
                BY <4>2, IsolatedHasNoCorner DEF V
        <3>3. QED
            BY <3>1, <3>2
    <2>2. CASE v # old
        <3>1. L(v) = {}
            BY <1>7, <2>2 DEF LeftFrom
        <3>2. base.around[v] = m.around[v] /\ base.cached[v] = m.cached[v]
            BY <1>3, <1>16, <2>2
        <3>3. QED
            BY <3>1, <3>2
    <2>3. QED
        BY <2>1, <2>2
<1>21. \A x, y \in PV :
            /\ x[1] = y[1]
            /\ image[VertexOf(m, x)] = image[VertexOf(m, y)]
            => x = y
    BY <1>8 DEF ImagesAreApart
<1>22. /\ Size(base.around) \in Nat
       /\ Vertices(base) = IndexRange(Size(base.around))
       /\ Vertices(base) \subseteq Vertices(m)
       /\ \A x \in PV : image[VertexOf(m, x)] \in Vertices(base)
    BY <1>2, <1>7, <1>17 DEF V
<1>23. QED
    BY <1>17, <1>19, <1>20, <1>21, <1>22, CarriedSurface

\* Where replace_vertices() moves the polygon vertices of each vertex.
ImagesOf(m, mapping) == [v \in Vertices(m) |-> ImageOf(mapping, v)]

\* A surface is one after several vertices are replaced.
LEMMA ReplacedVerticesKeepSurface ==
    ASSUME NEW m, IsSurface(m), NEW mapping,
           \A v \in DOMAIN mapping : mapping[v] \in Vertices(m),
           \A u, v \in DOMAIN mapping : mapping[u] # v,
           ImagesAreApart(m, ImagesOf(m, mapping))
    PROVE  LET r == ReplaceVertices(m, mapping)
           IN  IsSurface(r) /\ (HasFans(m) => HasFans(r))
<1> DEFINE V == Vertices(m)
           PV == PolygonVertices(m)
           list == PolygonVertexList(m)
           image == ImagesOf(m, mapping)
           r == ReplaceVerticesOf(m, mapping, list)
<1>1. ReplaceVertices(m, mapping) = r
    BY DEF ReplaceVertices
<1>2. /\ HasFields(m) /\ HasPolygons(m) /\ HasAround(m) /\ HasLists(m)
      /\ Size(m.around) \in Nat /\ V = IndexRange(Size(m.around))
    BY DEF IsSurface, HasPolygons
<1>3. list \in Seq(PV) /\ NoRepeat(list) /\ ToSet(list) = PV
    BY <1>2, CornersListed
<1>4. IsBase(m, m)
    BY <1>2 DEF IsBase, HasAround, HasLists
<1> HIDE DEF list
<1>5. IsCarried(m, m, r, PV, image, DOMAIN mapping)
    <2>1. image = [v \in Vertices(m) |-> ImageOf(mapping, v)]
        BY DEF ImagesOf
    <2> HIDE DEF image
    <2>2. QED
        BY <1>2, <1>3, <1>4, <2>1, ReplacedAreCarried
<1>6. \A x \in PV : VertexOf(m, x) \in V
    BY <1>2, VertexIsKnown
<1>7. \A v \in V : image[v] = ImageOf(mapping, v) /\ image[v] \in V
    BY DEF ImagesOf, ImageOf
<1>8. ASSUME NEW v \in V
      PROVE  \/ ArrivedAt(m, v, PV, image) # {}
             \/ v \in DOMAIN mapping /\ LeftFrom(m, v, PV, image) # {}
             \/ IF LeftFrom(m, v, PV, image) = {}
                THEN /\ m.around[v] = m.around[v]
                     /\ m.cached[v] \in {m.cached[v], NotComputed}
                ELSE /\ m.around[v] = NoPolygonVertex
                     /\ m.cached[v] = NotComputed
    <2>1. CASE v \in DOMAIN mapping
        BY <2>1
    <2>2. CASE v \notin DOMAIN mapping
        <3>1. image[v] = v
            BY <1>7, <2>2 DEF ImageOf
        <3>2. LeftFrom(m, v, PV, image) = {}
            BY <3>1 DEF LeftFrom
        <3>3. QED
            BY <3>2
    <2>3. QED
        BY <2>1, <2>2
<1>9. \A x, y \in PV :
            /\ x[1] = y[1]
            /\ image[VertexOf(m, x)] = image[VertexOf(m, y)]
            => x = y
    BY DEF ImagesAreApart
<1>10. \A x \in PV : image[VertexOf(m, x)] \in V
    BY <1>6, <1>7
<1> HIDE DEF image, r
<1>11. IsSurface(r) /\ (HasFans(m) => HasFans(r))
    BY <1>2, <1>5, <1>8, <1>9, <1>10, CarriedSurface
<1>12. QED
    BY <1>1, <1>11

-----------------------------------------------------------------------------
(* One polygon vertex that goes to another vertex. *)

\* Polygon vertex x leaves vertex old for vertex new.
IsOneMoved(m, r, x, old, new) ==
    /\ HasFields(r)
    /\ r.polygons = WithSlot(m.polygons, x, new)
    /\ r.adjacent = m.adjacent
    /\ r.enabled = m.enabled
    /\ r.around = [v \in Vertices(m) |->
            IF v = new THEN x
            ELSE IF v = old /\ m.around[v] = x THEN NoPolygonVertex
            ELSE m.around[v]]
    /\ r.cached = [v \in Vertices(m) |->
            IF v = new \/ v = old THEN NotComputed ELSE m.cached[v]]

\* What set_polygon_vertex() changes, when the polygon vertex is not the one
\* around its vertex or is alone there.
LEMMA OneIsMoved ==
    ASSUME NEW m, IsSurface(m), NEW x \in PolygonVertices(m),
           NEW old, old = VertexOf(m, x), NEW new \in Vertices(m), new # old,
           m.around[old] # x \/ CornersAt(m, old) = {x}
    PROVE  IsOneMoved(m, SetPolygonVertex(m, x, new), x, old, new)
<1> DEFINE V == Vertices(m)
           list == PolygonsAroundVertex(m, old)
           left == IF m.around[old] = x
                   THEN AssociatePolygonVertex(m, NoPolygonVertex, old) ELSE m
           b == ResetAround(left, {old})
           r == MovePolygonVertex(b, x, old, new)
<1>1. /\ HasFields(m) /\ HasPolygons(m)
      /\ DOMAIN m.around = V /\ DOMAIN m.cached = V
      /\ old \in V
    BY VertexIsKnown DEF IsSurface, HasLists, Vertices
<1>2. m.around[old] = x => Len(list) < 2
    <2>1. HAVE m.around[old] = x
    <2>2. IsListAround(m, old, list)
        BY <1>1, UpdatedIsListAround DEF PolygonsAroundVertex
    <2>3. list \in Seq({x}) /\ NoRepeat(list)
        BY <2>1, <2>2 DEF IsListAround
    <2> HIDE DEF list
    <2>4. SUFFICES ASSUME Len(list) >= 2 PROVE FALSE
        BY <2>3
    <2>5. 1 \in DOMAIN list /\ 2 \in DOMAIN list
        BY <2>3, <2>4
    <2>6. list[1] = x /\ list[2] = x
        BY <2>3, <2>5
    <2>7. QED
        BY <2>3, <2>5, <2>6 DEF NoRepeat
<1>3. SetPolygonVertex(m, x, new) = r
    BY <1>2 DEF SetPolygonVertex, LeaveVertex
<1>4. /\ HasFields(b)
      /\ b.polygons = m.polygons
      /\ b.adjacent = m.adjacent
      /\ b.enabled = m.enabled
      /\ b.around = [v \in V |->
            IF v = old /\ m.around[v] = x
            THEN NoPolygonVertex ELSE m.around[v]]
      /\ b.cached = [v \in V |->
            IF v = old THEN NotComputed ELSE m.cached[v]]
    <2>1. CASE m.around[old] = x
        <3>1. IsLeft(m, b, old)
            BY <1>1, <2>1, OneIsLeft
        <3> HIDE DEF b
        <3>2. b.around = [v \in V |->
                IF v = old /\ m.around[v] = x
                THEN NoPolygonVertex ELSE m.around[v]]
            BY <1>1, <2>1, <3>1 DEF IsLeft
        <3>3. QED
            BY <1>1, <3>1, <3>2 DEF IsLeft
    <2>2. CASE m.around[old] # x
        <3>1. b = ResetAround(m, {old})
            BY <2>2
        <3> HIDE DEF b
        <3>2. /\ HasFields(b)
              /\ b.polygons = m.polygons
              /\ b.adjacent = m.adjacent
              /\ b.around = m.around
              /\ b.cached = [v \in DOMAIN m.cached |->
                    IF v \in {old} THEN NotComputed ELSE m.cached[v]]
              /\ b.enabled = m.enabled
            BY <1>1, <3>1, ResetFields
        <3>3. m.around = [v \in V |-> m.around[v]]
            BY DEF IsSurface, HasAround
        <3>4. b.around = [v \in V |->
                IF v = old /\ m.around[v] = x
                THEN NoPolygonVertex ELSE m.around[v]]
            BY <2>2, <3>2, <3>3
        <3>5. QED
            BY <1>1, <3>2, <3>4
    <2>3. QED
        BY <2>1, <2>2
<1> HIDE DEF b
<1>5. IsMove(b, r, x, new)
    BY <1>4, VertexIsMovedWithEdges
<1> HIDE DEF r
<1>6. r.around = [v \in V |->
            IF v = new THEN x
            ELSE IF v = old /\ m.around[v] = x THEN NoPolygonVertex
            ELSE m.around[v]]
    BY <1>4, <1>5 DEF IsMove
<1>7. r.cached = [v \in V |->
            IF v = new \/ v = old THEN NotComputed ELSE m.cached[v]]
    BY <1>4, <1>5 DEF IsMove
<1>8. IsOneMoved(m, r, x, old, new)
    BY <1>4, <1>5, <1>6, <1>7 DEF IsMove, IsOneMoved
<1>9. QED
    BY <1>3, <1>8

\* A surface is one after set_polygon_vertex() of a polygon vertex that is on
\* no adjacency.
LEMMA OneMovedSurface ==
    ASSUME NEW m, IsSurface(m), NEW x \in PolygonVertices(m),
           NEW old, old = VertexOf(m, x), NEW new \in Vertices(m), new # old,
           m.around[old] # x \/ CornersAt(m, old) = {x},
           new \notin VerticesOf(m, x[1]) \ {old},
           IsOnBorder(m, x), IsOnBorder(m, PreviousPolygonVertex(m, x)),
           NEW r, IsOneMoved(m, r, x, old, new)
    PROVE  IsSurface(r) /\ (HasFans(m) => HasFans(r))
<1> DEFINE V == Vertices(m)
           PV == PolygonVertices(m)
           previous == PreviousPolygonVertex(m, x)
<1>1. /\ HasFields(m) /\ HasPolygons(m) /\ HasAdjacencies(m)
      /\ HasAround(m) /\ HasLists(m) /\ m.enabled \in BOOLEAN
      /\ V = IndexRange(Size(m.around)) /\ Size(m.around) \in Nat
      /\ DOMAIN m.around = V
    BY DEF IsSurface, HasPolygons, Vertices
<1>2. /\ HasSlots(m, r.polygons)
      /\ \A y \in PV : VertexOf(r, y) =
            IF y = x THEN new ELSE VertexOf(m, y)
    <2>1. HasSlots(m, m.polygons)
        <3>1. ASSUME NEW p \in Polygons(m)
              PROVE  m.polygons[p] = [i \in DOMAIN m.polygons[p] |->
                                            m.polygons[p][i]]
            BY <1>1 DEF HasPolygons, IsPolygon
        <3>2. QED
            BY <1>1, <3>1 DEF HasPolygons, HasSlots
    <2> DEFINE f == m.polygons
               g == r.polygons
    <2>2. g = WithSlot(f, x, new) /\ HasSlots(m, f)
        BY <2>1 DEF IsOneMoved
    <2> HIDE DEF f, g
    <2>3. /\ HasSlots(m, g)
          /\ \A y \in PolygonVertices(m) : g[y[1]][y[2]] =
                IF y = x THEN new ELSE f[y[1]][y[2]]
        BY <2>2, SlotIsSet
    <2>4. QED
        BY <2>3 DEF f, g, VertexOf
<1>3. /\ DOMAIN r.polygons = Polygons(m)
      /\ \A p \in Polygons(m) : DOMAIN r.polygons[p] = DOMAIN m.polygons[p]
    <2>1. r.polygons = [p \in Polygons(m) |-> r.polygons[p]]
        BY <1>2 DEF HasSlots
    <2>2. DOMAIN [p \in Polygons(m) |-> r.polygons[p]] = Polygons(m)
        OBVIOUS
    <2>3. DOMAIN r.polygons = Polygons(m)
        BY <2>1, <2>2, Zenon
    <2>4. ASSUME NEW p \in Polygons(m)
          PROVE  DOMAIN r.polygons[p] = DOMAIN m.polygons[p]
        <3>1. r.polygons[p] = [i \in DOMAIN m.polygons[p] |-> r.polygons[p][i]]
            BY <1>2 DEF HasSlots
        <3>2. DOMAIN [i \in DOMAIN m.polygons[p] |-> r.polygons[p][i]]
                = DOMAIN m.polygons[p]
            OBVIOUS
        <3>3. QED
            BY <3>1, <3>2, Zenon
    <2>5. QED
        BY <2>3, <2>4
<1>4. /\ Polygons(r) = Polygons(m)
      /\ PolygonVertices(r) = PV
      /\ \A p \in Polygons(m) : Size(r.polygons[p]) = Size(m.polygons[p])
      /\ Size(r.polygons) = Size(m.polygons)
    BY <1>3 DEF Polygons, PolygonVertices, PolygonVerticesOf, Size
<1>5. Vertices(r) = V /\ Size(r.around) = Size(m.around)
    <2>1. DOMAIN r.around = V
        BY DEF IsOneMoved
    <2>2. QED
        BY <1>1, <2>1 DEF Vertices, Size
<1>6. ASSUME NEW y \in PV
      PROVE  /\ VertexOf(r, y) \in V
             /\ NextPolygonVertex(r, y) = NextPolygonVertex(m, y)
    <2>1. y[1] \in Polygons(m)
        BY CornerIsPair
    <2>2. VertexOf(m, y) \in V
        BY <1>1, VertexIsKnown
    <2>3. QED
        BY <1>2, <1>4, <2>1, <2>2 DEF NextPolygonVertex
<1>7. ASSUME NEW y \in PV, y[1] = x[1], y # x PROVE VertexOf(m, y) # new
    <2>1. y[2] \in DOMAIN m.polygons[x[1]]
        BY <1>7, CornerIsPair
    <2>2. VertexOf(m, y) \in VerticesOf(m, x[1])
        BY <1>7, <2>1 DEF VertexOf, VerticesOf
    <2>3. QED
        BY <2>2
<1>8. ASSUME NEW y \in PV, NEW z \in PV, y[1] = z[1],
             VertexOf(r, y) = VertexOf(r, z)
      PROVE  y = z
    <2>1. CASE y = x
        BY <1>2, <1>7, <1>8, <2>1
    <2>2. CASE z = x
        BY <1>2, <1>7, <1>8, <2>2
    <2>3. CASE y # x /\ z # x
        BY <1>1, <1>2, <1>8, <2>3, VerticesApart
    <2>4. QED
        BY <2>1, <2>2, <2>3
<1>9. HasPolygons(r)
    <2>1. ASSUME NEW p \in Polygons(m)
          PROVE  IsPolygon(r.polygons[p], Size(r.around))
        <3> DEFINE q == r.polygons[p]
                   n == Size(m.polygons[p])
        <3>1. n \in Nat /\ n >= 3 /\ DOMAIN m.polygons[p] = IndexRange(n)
            BY <1>1 DEF HasPolygons, IsPolygon
        <3>2. Size(q) = n
            BY <1>4
        <3>3. q = [i \in IndexRange(n) |-> q[i]]
            BY <1>2, <3>1 DEF HasSlots
        <3>4. \A i \in IndexRange(n) : <<p, i>> \in PV
                /\ VertexOf(r, <<p, i>>) = q[i]
            BY <3>1, CornerIsPair DEF VertexOf
        <3>5. \A i \in IndexRange(n) : q[i] \in IndexRange(Size(r.around))
            BY <1>1, <1>5, <1>6, <3>4
        <3>6. \A i, j \in IndexRange(n) : q[i] = q[j] => i = j
            <4>1. TAKE i, j \in IndexRange(n)
            <4>2. HAVE q[i] = q[j]
            <4>3. <<p, i>> = <<p, j>>
                <5>1. <<p, i>>[1] = <<p, j>>[1]
                    OBVIOUS
                <5>2. VertexOf(r, <<p, i>>) = VertexOf(r, <<p, j>>)
                    BY <3>4, <4>2
                <5>3. QED
                    BY <1>8, <3>4, <5>1, <5>2
            <4>4. QED
                BY <4>3
        <3> HIDE DEF q, n
        <3>7. DOMAIN q = IndexRange(n)
            <4>1. DOMAIN [i \in IndexRange(n) |-> q[i]] = IndexRange(n)
                OBVIOUS
            <4>2. QED
                BY <3>3, <4>1, Zenon
        <3>8. IsPolygon(q, Size(r.around))
            BY <3>1, <3>2, <3>3, <3>5, <3>6, <3>7 DEF IsPolygon
        <3>9. QED
            BY <3>8 DEF q
    <2>2. r.polygons = [p \in Polygons(m) |-> r.polygons[p]]
        BY <1>2 DEF HasSlots
    <2>3. Size(m.polygons) \in Nat
          /\ Polygons(m) = IndexRange(Size(m.polygons))
        BY <1>1 DEF HasPolygons
    <2>4. QED
        BY <1>1, <1>4, <1>5, <2>1, <2>2, <2>3 DEF HasPolygons
<1>10. ASSUME NEW y \in PV, y # x, y # previous
       PROVE  EdgeCycle(r, y) = EdgeCycle(m, y)
    <2>1. /\ NextPolygonVertex(m, y) \in PV
          /\ PreviousPolygonVertex(m, NextPolygonVertex(m, y)) = y
        BY <1>1, StepsInPolygon
    <2>2. NextPolygonVertex(m, y) # x
        BY <1>10, <2>1
    <2>3. QED
        BY <1>2, <1>6, <1>10, <2>1, <2>2 DEF EdgeCycle
<1>11. HasAdjacencies(r)
    <2>1. r.adjacent = m.adjacent
        BY DEF IsOneMoved
    <2>2. \A y : AdjacentOf(r, y) = AdjacentOf(m, y)
        BY <2>1 DEF AdjacentOf
    <2>3. HasPlaces(r)
        BY <1>1, <1>3, <1>4, <2>1 DEF HasAdjacencies, HasPlaces
    <2>4. ASSUME NEW y \in PV, ~IsOnBorder(r, y)
          PROVE  \E z : IsAcross(r, y, z)
        <3>1. ~IsOnBorder(m, y) /\ y # x /\ y # previous
            BY <2>2, <2>4 DEF IsOnBorder
        <3>2. PICK z : IsAcross(m, y, z)
            BY <1>1, <3>1 DEF HasAdjacencies
        <3>3. z \in PV /\ AdjacentOf(m, z) = y[1] /\ y[1] \in Polygons(m)
            BY <3>2, CornerIsPair DEF IsAcross
        <3>4. ~IsOnBorder(m, z)
            BY <1>1, <3>3 DEF IsOnBorder, HasPolygons, IndexRange, NoId
        <3>5. EdgeCycle(r, y) = EdgeCycle(m, y)
              /\ EdgeCycle(r, z) = EdgeCycle(m, z)
            BY <1>10, <3>1, <3>3, <3>4
        <3>6. IsAcross(r, y, z)
            BY <1>4, <2>2, <3>2, <3>5 DEF IsAcross
        <3>7. QED
            BY <3>6
    <2>5. QED
        BY <1>4, <2>3, <2>4 DEF HasAdjacencies
<1>12. \A v : CornersAt(r, v) =
            IF v = new THEN CornersAt(m, v) \cup {x}
            ELSE IF v = old THEN CornersAt(m, v) \ {x}
            ELSE CornersAt(m, v)
    BY <1>2, <1>4 DEF CornersAt
<1>13. HasAround(r)
    <2>1. ASSUME NEW v \in V PROVE FindsPolygonAround(r, v)
        <3>1. r.around[v] = IF v = new THEN x
                ELSE IF v = old /\ m.around[v] = x THEN NoPolygonVertex
                ELSE m.around[v]
            BY DEF IsOneMoved
        <3>2. FindsPolygonAround(m, v)
            BY <1>1 DEF HasAround
        <3>3. CASE v = new
            BY <1>12, <3>1, <3>3 DEF FindsPolygonAround
        <3>4. CASE v = old
            <4>1. x \in CornersAt(m, v)
                BY <3>4 DEF CornersAt
            <4>2. CornersAt(r, v) = CornersAt(m, v) \ {x}
                BY <1>12, <3>4
            <4>3. CASE m.around[v] = x
                <5>1. CornersAt(r, v) = {}
                    BY <3>4, <4>2, <4>3
                <5>2. QED
                    BY <3>1, <3>4, <4>3, <5>1 DEF FindsPolygonAround
            <4>4. CASE m.around[v] # x
                BY <3>1, <3>2, <3>4, <4>1, <4>2, <4>4 DEF FindsPolygonAround
            <4>5. QED
                BY <4>3, <4>4
        <3>5. CASE v # new /\ v # old
            BY <1>12, <3>1, <3>2, <3>5 DEF FindsPolygonAround
        <3>6. QED
            BY <3>3, <3>4, <3>5
    <2>2. r.around = [v \in V |-> r.around[v]]
        BY DEF IsOneMoved
    <2>3. QED
        BY <1>5, <2>1, <2>2 DEF HasAround
<1>14. HasLists(r)
    <2>1. ASSUME NEW v \in V PROVE IsCached(r, v)
        <3>1. r.cached[v] = IF v = new \/ v = old
                            THEN NotComputed ELSE m.cached[v]
            BY DEF IsOneMoved
        <3>2. CASE v = new \/ v = old
            <4>1. NotComputed.computed = FALSE
                BY DEF NotComputed
            <4>2. r.cached[v] = NotComputed
                BY <3>1, <3>2
            <4>3. r.cached[v].computed = FALSE
                BY <4>1, <4>2
            <4>4. QED
                BY <4>2, <4>3 DEF IsCached
        <3>3. CASE v # new /\ v # old
            <4>1. r.cached[v] = m.cached[v]
                  /\ CornersAt(r, v) = CornersAt(m, v)
                BY <1>12, <3>1, <3>3
            <4>2. IsCached(m, v)
                BY <1>1 DEF HasLists
            <4>3. QED
                BY <4>1, <4>2 DEF IsCached, IsListAround
        <3>4. QED
            BY <3>2, <3>3
    <2>2. r.cached = [v \in V |-> r.cached[v]] /\ DOMAIN r.cached = V
        BY DEF IsOneMoved
    <2>3. QED
        BY <1>5, <2>1, <2>2 DEF HasLists
<1>15. HasFields(r) /\ r.enabled \in BOOLEAN
    BY <1>1 DEF IsOneMoved
<1>16. IsSurface(r)
    BY <1>9, <1>11, <1>13, <1>14, <1>15 DEF IsSurface
<1>17. ASSUME NEW v, v # old, v # new PROVE KeepsTurns(m, r, v)
    <2>1. ASSUME NEW y \in CornersAt(m, v)
          PROVE  /\ y \in CornersAt(r, v)
                 /\ PreviousPolygonVertex(r, y) = PreviousPolygonVertex(m, y)
        <3>1. y[1] \in Polygons(m)
            BY CornerIsPair DEF CornersAt
        <3>2. QED
            BY <1>4, <1>12, <1>17, <3>1 DEF PreviousPolygonVertex
    <2>2. \A y : AdjacentOf(r, y) = AdjacentOf(m, y)
        BY DEF IsOneMoved, AdjacentOf
    <2>3. ASSUME NEW e \in EdgesAt(m, v), NEW f, IsAcross(m, e, f)
          PROVE  f \in PolygonVertices(r) /\ EdgeCycle(r, e) = EdgeCycle(r, f)
        <3>1. e \in PV /\ e[1] \in Polygons(m)
            BY <1>1, EdgeAtVertex
        <3>2. /\ f \in PV
              /\ f[1] = AdjacentOf(m, e)
              /\ AdjacentOf(m, f) = e[1]
              /\ EdgeCycle(m, f) = EdgeCycle(m, e)
            BY <2>3 DEF IsAcross
        <3>3. f[1] \in Polygons(m)
            BY <3>2, CornerIsPair
        <3>4. NoId \notin Polygons(m)
            BY <1>1 DEF HasPolygons, IndexRange, NoId
        <3>5. ~IsOnBorder(m, e) /\ ~IsOnBorder(m, f)
            BY <3>1, <3>2, <3>3, <3>4 DEF IsOnBorder
        <3>6. e # x /\ e # previous /\ f # x /\ f # previous
            BY <3>5
        <3>7. QED
            BY <1>4, <1>10, <3>1, <3>2, <3>6
    <2>4. QED
        BY <2>1, <2>2, <2>3 DEF KeepsTurns
<1>18. ASSUME HasFans(m) PROVE HasFans(r)
    <2>1. ASSUME NEW v \in ListsInUse(r) PROVE KeepsList(m, r, v)
        <3>1. v \in V
            BY <1>5, <2>1 DEF ListsInUse, ComputedVertices
        <3>2. r.cached[v] # NotComputed
            BY <2>1, ResetIsNotInUse
        <3>3. v # old /\ v # new
            BY <3>1, <3>2 DEF IsOneMoved
        <3>4. r.around[v] = m.around[v] /\ r.cached[v] = m.cached[v]
            BY <3>1, <3>3 DEF IsOneMoved
        <3>5. QED
            BY <1>17, <3>1, <3>3, <3>4 DEF KeepsList
    <2>2. QED
        BY <1>18, <2>1, ListsStayFans
<1>19. QED
    BY <1>16, <1>18

\* The same, for all that a surface and set_polygon_vertex() can be.
LEMMA SetKeepsSurface ==
    ASSUME NEW m, IsSurface(m), NEW x \in PolygonVertices(m),
           NEW new \in Vertices(m),
           \/ m.around[VertexOf(m, x)] # x
           \/ CornersAt(m, VertexOf(m, x)) = {x},
           new \notin VerticesOf(m, x[1]) \ {VertexOf(m, x)},
           IsOnBorder(m, x), IsOnBorder(m, PreviousPolygonVertex(m, x))
    PROVE  LET r == SetPolygonVertex(m, x, new)
           IN  IsSurface(r) /\ (HasFans(m) => HasFans(r))
<1> DEFINE old == VertexOf(m, x)
           r == SetPolygonVertex(m, x, new)
<1>1. CASE new = old
    BY <1>1 DEF SetPolygonVertex
<1>2. CASE new # old
    <2>1. m.around[old] # x \/ CornersAt(m, old) = {x}
        OBVIOUS
    <2>2. new \notin VerticesOf(m, x[1]) \ {old} /\ old = VertexOf(m, x)
        OBVIOUS
    <2> HIDE DEF old
    <2>3. IsOneMoved(m, r, x, old, new)
        BY <1>2, <2>1, <2>2, OneIsMoved
    <2> HIDE DEF r
    <2>4. IsSurface(r) /\ (HasFans(m) => HasFans(r))
        BY <1>2, <2>1, <2>2, <2>3, OneMovedSurface
    <2>5. QED
        BY <2>4 DEF r
<1>3. QED
    BY <1>1, <1>2

-----------------------------------------------------------------------------
(* Every operation keeps a surface. *)

\* Polygons stay polygons when their vertices stay distinct.
LEMMA ImagesStayApart ==
    ASSUME HasPolygons(mesh), NEW mapping, StayDistinct(mapping)
    PROVE  ImagesAreApart(mesh, ImagesOf(mesh, mapping))
<1> DEFINE PV == PolygonVertices(mesh)
           image == ImagesOf(mesh, mapping)
<1>1. SUFFICES ASSUME NEW x \in PV, NEW y \in PV, x[1] = y[1],
                      image[VertexOf(mesh, x)] = image[VertexOf(mesh, y)]
               PROVE  x = y
    BY DEF ImagesAreApart
<1> DEFINE p == x[1]
           vertices == VerticesOf(mesh, p)
           moved == vertices \cap DOMAIN mapping
           restricted == [v \in moved |-> mapping[v]]
           a == VertexOf(mesh, x)
           b == VertexOf(mesh, y)
<1>2. p \in Polygons(mesh) /\ a \in vertices /\ b \in vertices
    BY <1>1, CornerIsPair DEF VertexOf, VerticesOf
<1>3. /\ {mapping[v] : v \in moved} \cap vertices = {}
      /\ IsInjective(restricted)
    BY <1>2 DEF StayDistinct
<1>4. /\ image[a] = ImageOf(mapping, a)
      /\ image[b] = ImageOf(mapping, b)
    BY VertexIsKnown DEF ImagesOf
<1>5. \A u, v \in moved : mapping[u] = mapping[v] => u = v
    <2> HIDE DEF moved
    <2>1. QED
        BY <1>3 DEF IsInjective
<1>6. a = b
    <2>1. CASE a \in DOMAIN mapping /\ b \in DOMAIN mapping
        BY <1>1, <1>2, <1>4, <1>5, <2>1 DEF ImageOf
    <2>2. CASE a \in DOMAIN mapping /\ b \notin DOMAIN mapping
        <3>1. mapping[a] = b
            BY <1>1, <1>4, <2>2 DEF ImageOf
        <3>2. QED
            BY <1>2, <1>3, <2>2, <3>1
    <2>3. CASE a \notin DOMAIN mapping /\ b \in DOMAIN mapping
        <3>1. mapping[b] = a
            BY <1>1, <1>4, <2>3 DEF ImageOf
        <3>2. QED
            BY <1>2, <1>3, <2>3, <3>1
    <2>4. CASE a \notin DOMAIN mapping /\ b \notin DOMAIN mapping
        BY <1>1, <1>4, <2>4 DEF ImageOf
    <2>5. QED
        BY <2>1, <2>2, <2>3, <2>4
<1>7. QED
    BY <1>1, <1>6, VerticesApart

\* A polygon of the code is one of the mesh when it has its vertices.
LEMMA NewPolygonIsPolygon ==
    ASSUME HasPolygons(mesh), NEW vertices \in NewPolygons,
           \A i \in DOMAIN vertices : vertices[i] \in Vertices(mesh)
    PROVE  IsPolygon(vertices, Size(mesh.around))
<1> DEFINE n == Size(vertices)
           V == IndexRange(Size(mesh.around))
<1>1. /\ vertices \in [IndexRange(n) -> Nat]
      /\ IsInjective(vertices)
      /\ n \in Nat
      /\ n >= 3
    BY BoundsAssumption
<1>2. Vertices(mesh) = V
    BY DEF HasPolygons
<1>3. DOMAIN vertices = IndexRange(n)
    BY <1>1
<1> HIDE DEF n, V
<1>4. vertices \in [IndexRange(n) -> V]
    BY <1>1, <1>2, <1>3
<1>5. QED
    BY <1>1, <1>3, <1>4 DEF IsPolygon, IsInjective, n, V

\* No step of a surface makes its polygons, adjacencies, polygons around the
\* vertices and lists disagree, nor leaves a list in use that is not a fan.
LEMMA StepKeepsSurface ==
    ASSUME IsSurface(mesh), SurfaceNext
    PROVE  IsSurface(mesh)' /\ (HasFans(mesh) => HasFans(mesh)')
<1> DEFINE m == mesh
<1>1. /\ HasPolygons(m) /\ m.enabled \in BOOLEAN
      /\ Vertices(m) = IndexRange(Size(m.around))
    BY DEF IsSurface, HasPolygons
<1>2. CASE RunCreatePoint
    BY <1>2, PointKeepsSurface, PointKeepsFans DEF RunCreatePoint
<1>3. CASE RunCreatePolygon
    <2>1. PICK vertices \in NewPolygons :
            /\ \A i \in DOMAIN vertices : vertices[i] \in Vertices(m)
            /\ mesh' = CreatePolygon(m, vertices)
        BY <1>3 DEF RunCreatePolygon
    <2>2. IsPolygon(vertices, Size(m.around))
        BY <1>1, <2>1, NewPolygonIsPolygon
    <2>3. QED
        BY <2>1, <2>2, PolygonKeepsSurface, PolygonKeepsFans
<1>4. CASE \E S \in SUBSET Polygons(m) :
                RunComputePolygonAdjacencies(S) /\ KeepsLists(m, mesh')
    <2>1. PICK S \in SUBSET Polygons(m) :
                RunComputePolygonAdjacencies(S) /\ KeepsLists(m, mesh')
        BY <1>4
    <2> DEFINE r == ComputePolygonAdjacencies(m, S)
    <2>2. /\ m.enabled => S = Polygons(m)
          /\ mesh' = r
        BY <2>1 DEF RunComputePolygonAdjacencies
    <2>3. IsSurface(r)
        BY <2>2, ComputeKeepsSurface
    <2>4. ASSUME HasFans(m) PROVE HasFans(r)
        BY <2>1, <2>2, <2>4, ComputeKeepsFans
    <2>5. QED
        BY <2>2, <2>3, <2>4
<1>5. CASE RunUnsetPolygonAdjacents
    BY <1>5, UnsetKeepsSurface, UnsetKeepsFans DEF RunUnsetPolygonAdjacents
<1>6. CASE RunDeletePolygons
    <2>1. PICK D \in SUBSET Polygons(m) :
            /\ \A v \in Vertices(m) : m.around[v][1] \in D =>
                \/ IsManifold(m, v)
                \/ \E x \in ToSet(PolygonsAroundVertex(m, v)) : x[1] \notin D
            /\ mesh' = DeletePolygons(m, D)
        BY <1>6 DEF RunDeletePolygons
    <2>2. QED
        BY <2>1, DeletedPolygonsKeepSurface
<1>7. CASE RunPermutePolygons
    BY <1>7, PermutedPolygonsKeepSurface DEF RunPermutePolygons
<1>8. CASE RunDeleteIsolatedVertices
    BY <1>8, DeletedVerticesKeepSurface DEF RunDeleteIsolatedVertices
<1>9. CASE RunPermuteVertices
    <2>1. PICK p \in VertexPermutations :
            /\ DOMAIN p = Vertices(m)
            /\ \A v \in IsolatedPoints(m) : p[v] = v
            /\ mesh' = PermuteSurfaceVertices(m, p)
        BY <1>9 DEF RunPermuteVertices
    <2>2. p \in PermutationsOf(IndexRange(Size(p)))
        BY BoundsAssumption
    <2>3. DOMAIN p = IndexRange(Size(p))
        BY <2>2 DEF PermutationsOf
    <2>4. p \in PermutationsOf(Vertices(m))
        BY <2>1, <2>2, <2>3
    <2>5. QED
        BY <2>1, <2>4, PermutedVerticesKeepSurface
<1>10. CASE \E x \in PolygonVertices(m), new \in Vertices(m) :
                RunSetPolygonVertex(x, new)
    <2>1. PICK x \in PolygonVertices(m), new \in Vertices(m) :
                RunSetPolygonVertex(x, new)
        BY <1>10
    <2>2. /\ new \notin VerticesOf(m, x[1]) \ {VertexOf(m, x)}
          /\ IsOnBorder(m, x)
          /\ IsOnBorder(m, PreviousPolygonVertex(m, x))
          /\ \/ m.around[VertexOf(m, x)] # x
             \/ CornersAt(m, VertexOf(m, x)) = {x}
          /\ mesh' = SetPolygonVertex(m, x, new)
        BY <2>1 DEF RunSetPolygonVertex
    <2>3. QED
        BY <2>2, SetKeepsSurface
<1>11. CASE RunReplaceVertex
    <2>1. PICK old \in Vertices(m), new \in Vertices(m) :
            /\ old = new \/ StayDistinct([v \in {old} |-> new])
            /\ IsManifold(m, old)
            /\ mesh' = ReplaceSurfaceVertex(m, old, new)
        BY <1>11 DEF RunReplaceVertex
    <2>2. old # new => ImagesAreApart(m, OneImage(m, old, new))
        <3> DEFINE mapping == [v \in {old} |-> new]
        <3>1. HAVE old # new
        <3>2. StayDistinct(mapping)
            BY <2>1, <3>1
        <3>3. ImagesOf(m, mapping) = OneImage(m, old, new)
            BY DEF ImagesOf, ImageOf, OneImage
        <3> HIDE DEF mapping
        <3>4. QED
            BY <1>1, <3>2, <3>3, ImagesStayApart
    <2>3. QED
        BY <2>1, <2>2, ReplacedVertexKeepsSurface
<1>12. CASE RunReplaceVertices
    <2>1. PICK mapping \in Mappings :
            /\ DOMAIN mapping \cup Range(mapping) \subseteq Vertices(m)
            /\ StayDistinct(mapping)
            /\ mesh' = ReplaceVertices(m, mapping)
        BY <1>12 DEF RunReplaceVertices
    <2>2. \A v \in DOMAIN mapping : mapping[v] \in Range(mapping)
        BY DEF Range
    <2>3. Range(mapping) \cap DOMAIN mapping = {}
        BY DEF Mappings
    <2>4. /\ \A v \in DOMAIN mapping : mapping[v] \in Vertices(m)
          /\ \A u, v \in DOMAIN mapping : mapping[u] # v
        BY <2>1, <2>2, <2>3
    <2>5. ImagesAreApart(m, ImagesOf(m, mapping))
        BY <1>1, <2>1, ImagesStayApart
    <2>6. QED
        BY <2>1, <2>4, <2>5, ReplacedVerticesKeepSurface
<1>13. CASE RunEnableEdges
    BY <1>13, EdgesKeepSurface, EdgeOperationsKeepFans DEF RunEnableEdges
<1>14. CASE RunDisableEdges
    BY <1>14, EdgesKeepSurface, EdgeOperationsKeepFans DEF RunDisableEdges
<1>15. CASE RunDeleteIsolatedEdges
    BY <1>15, EdgesKeepSurface, EdgeOperationsKeepFans
    DEF RunDeleteIsolatedEdges
<1>16. CASE RunCopy
    BY <1>16, CopyKeepsSurface, CopyHasFans DEF RunCopy
<1>17. CASE RunQueryPolygonsAround
    BY <1>17, QueryKeepsSurface, QueryKeepsFans DEF RunQueryPolygonsAround
<1>18. QED
    BY <1>2, <1>3, <1>4, <1>5, <1>6, <1>7, <1>8, <1>9, <1>10, <1>11, <1>12,
       <1>13, <1>14, <1>15, <1>16, <1>17 DEF SurfaceNext

\* An empty mesh is a surface.
LEMMA EmptyMeshIsSurface == IsSurface(EmptyMesh)
<1> DEFINE k == EmptyMesh
<1>1. HasFields(k)
    BY DEF HasFields, EmptyMesh
<1>2. /\ k.polygons = <<>> /\ k.adjacent = <<>> /\ k.enabled = FALSE
      /\ k.around = <<>> /\ k.cached = <<>>
    BY DEF EmptyMesh
<1> HIDE DEF k
<1>3. IndexRange(0) = {}
    BY DEF IndexRange
<1>4. /\ k.around = [v \in IndexRange(0) |-> NoPolygonVertex]
      /\ k.cached = [v \in IndexRange(0) |-> NotComputed]
    BY <1>2, <1>3
<1>5. IsSurface(k)
    BY <1>1, <1>2, <1>4, PointsAreSurface
<1>6. QED
    BY <1>5 DEF k

\* An empty mesh has no list.
LEMMA EmptyMeshHasFans == HasFans(EmptyMesh)
BY DEF HasFans, ListsInUse, ComputedVertices, Vertices, EmptyMesh

\* The polygons, adjacencies, polygons around vertices and lists of a surface
\* agree in every state, and the lists in use are fans.
LEMMA SurfacesStaySurfaces ==
    SurfaceSpec => [](IsSurface(mesh) /\ HasFans(mesh))
<1> DEFINE IsGood == IsSurface(mesh) /\ HasFans(mesh)
<1>1. SurfaceInit => IsGood
    BY EmptyMeshIsSurface, EmptyMeshHasFans DEF SurfaceInit
<1>2. IsGood /\ [SurfaceNext]_mesh => IsGood'
    <2>1. SUFFICES ASSUME IsGood, [SurfaceNext]_mesh
                   PROVE  IsGood'
        OBVIOUS
    <2>2. CASE SurfaceNext
        BY <2>1, <2>2, StepKeepsSurface
    <2>3. CASE UNCHANGED mesh
        BY <2>1, <2>3
    <2>4. QED
        BY <2>1, <2>2, <2>3
<1>3. QED
    BY <1>1, <1>2, PTL DEF SurfaceSpec

\* Whatever the operations, the polygon across an edge of a surface has an
\* edge with the same two vertices and this polygon across it.
THEOREM AdjacenciesAreMutual == SurfaceSpec => []AdjacencyIsMutual
<1>1. IsSurface(mesh) => AdjacencyIsMutual
    <2>1. SUFFICES ASSUME IsSurface(mesh), NEW x \in PolygonVertices(mesh)
                   PROVE  HasMutualAdjacency(mesh, x)
        BY DEF AdjacencyIsMutual
    <2>2. HasPolygons(mesh) /\ HasAdjacencies(mesh)
        BY <2>1 DEF IsSurface
    <2>3. CASE IsOnBorder(mesh, x)
        BY <2>3 DEF HasMutualAdjacency
    <2>4. CASE ~IsOnBorder(mesh, x)
        <3>1. PICK y : IsAcross(mesh, x, y)
            BY <2>2, <2>4 DEF HasAdjacencies
        <3>2. QED
            BY <2>2, <3>1, AcrossIsFound
    <2>5. QED
        BY <2>3, <2>4
<1>2. QED
    BY <1>1, SurfacesStaySurfaces, PTL

\* One more polygon does not make a surface something else.
LEMMA ExtendedAreSurfaces ==
    ASSUME IsSurface(mesh), NEW m \in Extended
    PROVE  IsSurface(m)
<1>1. CASE m = mesh
    BY <1>1
<1>2. CASE m # mesh
    <2>1. PICK p \in NewPolygons :
            /\ Range(p) \subseteq Vertices(mesh)
            /\ m = CreatePolygon(mesh, p)
        BY <1>2 DEF Extended
    <2>2. \A i \in DOMAIN p : p[i] \in Vertices(mesh)
        BY <2>1 DEF Range
    <2>3. HasPolygons(mesh)
        BY DEF IsSurface
    <2>4. IsPolygon(p, Size(mesh.around))
        BY <2>2, <2>3, NewPolygonIsPolygon
    <2>5. IsSurface(CreatePolygon(mesh, p))
        BY <2>4, PolygonKeepsSurface
    <2>6. QED
        BY <2>1, <2>5
<1>3. QED
    BY <1>1, <1>2

\* From any polygon of any vertex of a surface, turning around the vertex
\* lists once each polygon that adjacencies join to the first, also after one
\* more polygon and after its adjacencies are computed.
THEOREM TurnsVisitFans == SurfaceSpec => []TurnsVisitTheFan
<1>1. IsSurface(mesh) => TurnsVisitTheFan
    <2>1. SUFFICES ASSUME IsSurface(mesh), ~mesh.enabled
                   PROVE  TurnsVisitTheFan
        BY DEF TurnsVisitTheFan
    <2>2. \A n \in Extended : IsSurface(n)
        BY <2>1, ExtendedAreSurfaces
    <2>3. ASSUME NEW n \in Extended
          PROVE  IsSurface(ComputePolygonAdjacencies(n, Polygons(n)))
        BY <2>2, <2>3, ComputeKeepsSurface
    <2> DEFINE M == Extended \cup
                {ComputePolygonAdjacencies(n, Polygons(n)) : n \in Extended}
    <2>4. ASSUME NEW m \in M PROVE IsSurface(m)
        BY <2>2, <2>3, <2>4
    <2> HIDE DEF M
    <2>5. ASSUME NEW m \in M, NEW first \in PolygonVertices(m)
          PROVE  LET list == ComputePolygonsAroundVertex(m, first)
                 IN  /\ IsInjective(list)
                     /\ \A x \in ToSet(list) :
                            Neighbours(m, x) \subseteq ToSet(list)
        <3>1. HasPolygons(m) /\ HasAdjacencies(m)
            BY <2>4, <2>5 DEF IsSurface
        <3>2. QED
            BY <3>1, <2>5, TurnVisitsFan
    <2>6. QED
        BY <2>5 DEF TurnsVisitTheFan, M
<1>2. QED
    BY <1>1, SurfacesStaySurfaces, PTL

\* Whatever the operations, polygons_around_vertex() returns for each vertex
\* the polygons that turning around it now would list, also where it returns a
\* list that was cached before other operations.
THEOREM CachedListsStayCurrent == SurfaceSpec => []CachedListsAreCurrent
<1>1. IsSurface(mesh) /\ HasFans(mesh) => CachedListsAreCurrent
    BY FanIsCurrent DEF CachedListsAreCurrent
<1>2. QED
    BY <1>1, SurfacesStaySurfaces, PTL

-----------------------------------------------------------------------------
(* Which edges compute_polygon_adjacencies() connects. *)

\* Of the edges of V, those with these two vertices that are on border.
BordersOf(m, V, cycle) ==
    {x \in V : EdgeCycle(m, x) = cycle /\ IsOnBorder(m, x)}

\* The two edges x and y have each other for adjacent.
ArePaired(r, B, x, y) ==
    /\ B = {x, y}
    /\ x # y
    /\ AdjacentOf(r, x) = y[1]
    /\ AdjacentOf(r, y) = x[1]

\* The edges of B are on border but x, that has y for adjacent, and y, that has
\* z.
AreInLine(r, B, x, y, z) ==
    /\ {x, y, z} \subseteq B
    /\ x # y
    /\ y # z
    /\ x # z
    /\ AdjacentOf(r, x) = y[1]
    /\ AdjacentOf(r, y) = z[1]
    /\ \A u \in B \ {x, y} : IsOnBorder(r, u)

\* The adjacents of the edges B met so far, x the last of them: of one, of two,
\* and of more.
AreJoined(r, B, x) ==
    \/ B = {x} /\ IsOnBorder(r, x)
    \/ \E y : ArePaired(r, B, x, y)
    \/ \E y, z : AreInLine(r, B, x, y, z)

\* Two edges are connected to each other, and no more than two to any.
AreMatched(r, B) ==
    \/ \E x, y : ArePaired(r, B, x, y)
    \/ /\ \A u \in B : IsOnBorder(r, u)
       /\ \A x, y : B = {x, y} => x = y

\* What is said of the edges B depends on their adjacents only.
LEMMA SameJoins ==
    ASSUME NEW m, NEW r, NEW B,
           \A u \in B : AdjacentOf(r, u) = AdjacentOf(m, u)
    PROVE  /\ \A x : AreJoined(m, B, x) => AreJoined(r, B, x)
           /\ AreMatched(m, B) => AreMatched(r, B)
<1>1. \A x, y : ArePaired(m, B, x, y) => ArePaired(r, B, x, y)
    BY DEF ArePaired
<1>2. \A x, y, z : AreInLine(m, B, x, y, z) => AreInLine(r, B, x, y, z)
    BY DEF AreInLine, IsOnBorder
<1>3. \A u \in B : IsOnBorder(m, u) => IsOnBorder(r, u)
    BY DEF IsOnBorder
<1>4. \A x : AreJoined(m, B, x) => AreJoined(r, B, x)
    BY <1>1, <1>2, <1>3 DEF AreJoined
<1>5. AreMatched(m, B) => AreMatched(r, B)
    BY <1>1, <1>3 DEF AreMatched
<1>6. QED
    BY <1>4, <1>5

\* A polygon is never NoId.
LEMMA PolygonIsNotNoId ==
    ASSUME NEW m, HasPolygons(m), NEW x \in PolygonVertices(m)
    PROVE  x[1] # NoId
<1>1. x[1] \in Polygons(m)
    BY CornerIsPair
<1>2. QED
    BY <1>1 DEF HasPolygons, IndexRange, NoId

\* The edge x has the edge l, met before it, for adjacent: what l gets.
WithLast(set, l, x) ==
    IF IsOnBorder(set, l)
    THEN DoSetPolygonAdjacent(set, l, x[1])
    ELSE DoSetPolygonAdjacent(set, FindPolygonAdjacentEdge(set, l), NoId)

\* One more edge on border, of the vertices of the others.
LEMMA OneMoreIsJoined ==
    ASSUME NEW m, HasFields(m), HasPolygons(m), HasPlaces(m),
           NEW B \in SUBSET PolygonVertices(m), NEW l, l \in B,
           AreJoined(m, B, l),
           NEW x \in PolygonVertices(m), x \notin B, IsOnBorder(m, x),
           \A u \in B : EdgeCycle(m, u) = EdgeCycle(m, x),
           NEW set, set = DoSetPolygonAdjacent(m, x, l[1]),
           NEW r, r = WithLast(set, l, x)
    PROVE  /\ SameButAdjacent(m, r)
           /\ AreJoined(r, B \cup {x}, x)
           /\ \A z \in PolygonVertices(m) :
                z \notin B \cup {x} => AdjacentOf(r, z) = AdjacentOf(m, z)
<1>1. /\ SameButAdjacent(m, set)
      /\ \A z \in PolygonVertices(m) : AdjacentOf(set, z) =
            IF z = x THEN l[1] ELSE AdjacentOf(m, z)
    BY OneIsSet
<1>2. /\ l \in PolygonVertices(m)
      /\ l # x
      /\ AdjacentOf(set, l) = AdjacentOf(m, l)
    BY <1>1
<1>3. \A u \in PolygonVertices(m) : u[1] # NoId
    BY PolygonIsNotNoId
<1>4. CASE IsOnBorder(m, l)
    <2>1. r = DoSetPolygonAdjacent(set, l, x[1])
        BY <1>2, <1>4 DEF IsOnBorder, WithLast
    <2>2. /\ SameButAdjacent(m, r)
          /\ \A z \in PolygonVertices(m) : AdjacentOf(r, z) =
                IF z = l THEN x[1]
                ELSE IF z = x THEN l[1] ELSE AdjacentOf(m, z)
        BY <1>2, <2>1, TwoAreSet
    <2>3. B = {l}
        BY <1>2, <1>3, <1>4 DEF AreJoined, ArePaired, AreInLine, IsOnBorder
    <2>4. ArePaired(r, B \cup {x}, x, l)
        BY <1>2, <2>2, <2>3 DEF ArePaired
    <2>5. AreJoined(r, B \cup {x}, x)
        BY <2>4 DEF AreJoined
    <2>6. QED
        BY <2>2, <2>3, <2>5
<1>5. CASE ~IsOnBorder(m, l)
    <2>1. PICK y : /\ y \in B
                   /\ y # l
                   /\ AdjacentOf(m, l) = y[1]
                   /\ \A u \in B \ {l, y} : IsOnBorder(m, u)
        <3>1. CASE \E y : ArePaired(m, B, l, y)
            BY <3>1 DEF ArePaired
        <3>2. CASE \E y, z : AreInLine(m, B, l, y, z)
            BY <3>2 DEF AreInLine
        <3>3. QED
            BY <1>5, <3>1, <3>2 DEF AreJoined
    <2>2. FindPolygonAdjacentEdge(set, l) = y
        <3>1. /\ HasPolygons(set)
              /\ PolygonVertices(set) = PolygonVertices(m)
              /\ EdgeCycle(set, l) = EdgeCycle(set, y)
            BY <1>1, <2>1, SameMesh
        <3>2. AdjacentOf(set, l) = y[1]
            BY <1>2, <2>1
        <3>3. QED
            BY <1>2, <2>1, <3>1, <3>2, EdgeIsFound
    <2>3. r = DoSetPolygonAdjacent(set, y, NoId)
        BY <1>2, <1>5, <2>2 DEF IsOnBorder, WithLast
    <2>4. y \in PolygonVertices(m) /\ y # x
        BY <2>1
    <2>5. /\ SameButAdjacent(m, r)
          /\ \A z \in PolygonVertices(m) : AdjacentOf(r, z) =
                IF z = y THEN NoId
                ELSE IF z = x THEN l[1] ELSE AdjacentOf(m, z)
        BY <2>3, <2>4, TwoAreSet
    <2>6. AreInLine(r, B \cup {x}, x, l, y)
        BY <1>2, <2>1, <2>4, <2>5 DEF AreInLine, IsOnBorder
    <2>7. AreJoined(r, B \cup {x}, x)
        BY <2>6 DEF AreJoined
    <2>8. QED
        BY <2>1, <2>5, <2>7
<1>6. QED
    BY <1>4, <1>5

\* The end of it: two are connected, and of more those that are not on border
\* get there.
LEMMA JoinedAreMatched ==
    ASSUME NEW m, HasFields(m), HasPolygons(m), HasPlaces(m),
           NEW B \in SUBSET PolygonVertices(m), NEW x, x \in B,
           AreJoined(m, B, x) \/ AreMatched(m, B),
           \A u \in B : EdgeCycle(m, u) = EdgeCycle(m, x)
    PROVE  LET r == DisconnectNonManifoldEdge(m, x)
           IN  /\ SameButAdjacent(m, r)
               /\ AreMatched(r, B)
               /\ \A z \in PolygonVertices(m) :
                    z \notin B => AdjacentOf(r, z) = AdjacentOf(m, z)
<1> DEFINE f == FindPolygonAdjacentEdge(m, x)
           r == DisconnectNonManifoldEdge(m, x)
<1>1. r = IF IsOnBorder(m, x) \/ AdjacentOf(m, f) \in {NoId, x[1]}
          THEN m
          ELSE DoSetPolygonAdjacent(DoSetPolygonAdjacent(m, x, NoId), f, NoId)
    BY DEF DisconnectNonManifoldEdge
<1>2. SameButAdjacent(m, m)
    BY DEF SameButAdjacent
<1>3. \A u \in PolygonVertices(m) : u[1] # NoId
    BY PolygonIsNotNoId
<1> HIDE DEF r, f
<1>4. CASE /\ \A u \in B : IsOnBorder(m, u)
           /\ AreMatched(m, B) \/ B = {x}
    <2>1. r = m
        BY <1>1, <1>4
    <2>2. AreMatched(m, B)
        <3>1. B = {x} => \A y, z : B = {y, z} => y = z
            OBVIOUS
        <3>2. QED
            BY <1>4, <3>1 DEF AreMatched
    <2>3. QED
        BY <1>2, <2>1, <2>2 DEF r
<1>5. CASE \E y : ArePaired(m, B, x, y)
    <2>1. PICK y : ArePaired(m, B, x, y)
        BY <1>5
    <2>2. /\ y \in PolygonVertices(m) /\ y[1] = AdjacentOf(m, x)
          /\ EdgeCycle(m, y) = EdgeCycle(m, x)
        BY <2>1 DEF ArePaired
    <2>3. f = y
        BY <2>2, EdgeIsFound DEF f
    <2>4. r = m
        BY <1>1, <2>1, <2>3 DEF ArePaired
    <2>5. AreMatched(m, B)
        BY <2>1 DEF AreMatched
    <2>6. QED
        BY <1>2, <2>4, <2>5 DEF r
<1>6. CASE \E y, z : AreInLine(m, B, x, y, z)
    <2>1. PICK y, z : AreInLine(m, B, x, y, z)
        BY <1>6
    <2>2. /\ y \in PolygonVertices(m) /\ y[1] = AdjacentOf(m, x)
          /\ EdgeCycle(m, y) = EdgeCycle(m, x)
          /\ z \in PolygonVertices(m) /\ z[1] = AdjacentOf(m, y)
          /\ EdgeCycle(m, z) = EdgeCycle(m, x)
          /\ x # z
        BY <2>1 DEF AreInLine
    <2>3. f = y /\ ~IsOnBorder(m, x)
        BY <2>2, EdgeIsFound DEF f
    <2>4. z[1] # x[1]
        BY <2>2, EdgesApart
    <2>5. r = DoSetPolygonAdjacent(DoSetPolygonAdjacent(m, x, NoId), y, NoId)
        BY <1>1, <1>3, <2>2, <2>3, <2>4
    <2>6. /\ SameButAdjacent(m, r)
          /\ \A u \in PolygonVertices(m) : AdjacentOf(r, u) =
                IF u = y THEN NoId
                ELSE IF u = x THEN NoId ELSE AdjacentOf(m, u)
        BY <2>2, <2>5, TwoAreSet
    <2>7. \A u \in B : IsOnBorder(r, u)
        BY <2>1, <2>6 DEF AreInLine, IsOnBorder
    <2>8. \A u, v : B = {u, v} => u = v
        BY <2>1 DEF AreInLine
    <2>9. AreMatched(r, B)
        BY <2>7, <2>8 DEF AreMatched
    <2>10. QED
        BY <2>1, <2>6, <2>9 DEF r, AreInLine
<1>7. CASE \E y, z : ArePaired(m, B, y, z)
    <2>1. PICK y, z : ArePaired(m, B, y, z)
        BY <1>7
    <2>2. ArePaired(m, B, x, y) \/ ArePaired(m, B, x, z)
        BY <2>1 DEF ArePaired
    <2>3. QED
        BY <1>5, <2>2
<1>8. QED
    BY <1>4, <1>5, <1>6, <1>7 DEF AreJoined, AreMatched

\* Of the edges of V, that are met, those on border are joined, and the others
\* are as they were.
IsJoined(m, V, r, last, cycle) ==
    LET B == BordersOf(m, V, cycle)
    IN  /\ cycle \in DOMAIN last <=> B # {}
        /\ B # {} => last[cycle] \in B /\ AreJoined(r, B, last[cycle])

\* The adjacents of edges that are not on border, or not met, do not change.
OthersAreSame(m, V, r) ==
    \A x \in PolygonVertices(m) :
        x \notin V \/ ~IsOnBorder(m, x) => AdjacentOf(r, x) = AdjacentOf(m, x)

\* One polygon edge in compute_polygon_adjacencies().
LEMMA EdgeIsJoined ==
    ASSUME NEW m, HasFields(m), HasPolygons(m), HasPlaces(m),
           NEW w, w = [mesh |-> w.mesh, last |-> w.last],
           SameButAdjacent(m, w.mesh),
           NEW V \in SUBSET PolygonVertices(m),
           OthersAreSame(m, V, w.mesh),
           \A cycle : IsJoined(m, V, w.mesh, w.last, cycle),
           NEW x \in PolygonVertices(m), x \notin V
    PROVE  LET u == ConnectEdge(w, x)
           IN  /\ u = [mesh |-> u.mesh, last |-> u.last]
               /\ SameButAdjacent(m, u.mesh)
               /\ OthersAreSame(m, V \cup {x}, u.mesh)
               /\ \A cycle : IsJoined(m, V \cup {x}, u.mesh, u.last, cycle)
<1> DEFINE n == w.mesh
           last == w.last
           c == EdgeCycle(n, x)
           l == last[c]
           set == DoSetPolygonAdjacent(n, x, l[1])
           W == V \cup {x}
           u == ConnectEdge(w, x)
           k == WithLast(set, l, x)
<1>1. u = IF ~IsOnBorder(n, x) THEN w
          ELSE IF c \notin DOMAIN last
          THEN [w EXCEPT !.last = Inserted(@, c, x)]
          ELSE [mesh |-> k, last |-> [last EXCEPT ![c] = x]]
    BY DEF ConnectEdge, WithLast
<1>2. /\ HasFields(n)
      /\ HasPolygons(n)
      /\ HasPlaces(n)
      /\ PolygonVertices(n) = PolygonVertices(m)
      /\ \A y : EdgeCycle(n, y) = EdgeCycle(m, y)
      /\ \A h : SameButAdjacent(n, h) => SameButAdjacent(m, h)
    BY SameMesh
<1>3. IsOnBorder(n, x) <=> IsOnBorder(m, x)
    BY DEF OthersAreSame, IsOnBorder
<1>4. c = EdgeCycle(m, x)
    BY <1>2
<1> HIDE DEF u, k, n, c
<1>5. \A d : BordersOf(m, W, d) =
            IF d = c /\ IsOnBorder(m, x)
            THEN BordersOf(m, V, d) \cup {x} ELSE BordersOf(m, V, d)
    BY <1>4 DEF BordersOf
<1>6. CASE ~IsOnBorder(m, x)
    <2>1. u = w
        BY <1>1, <1>3, <1>6
    <2>2. \A d : BordersOf(m, W, d) = BordersOf(m, V, d)
        BY <1>5, <1>6
    <2>3. \A d : IsJoined(m, W, n, last, d)
        BY <2>2 DEF IsJoined, n
    <2>4. OthersAreSame(m, W, n)
        BY <1>6 DEF OthersAreSame, n
    <2>5. QED
        BY <2>1, <2>3, <2>4 DEF u, n
<1>7. CASE IsOnBorder(m, x) /\ c \notin DOMAIN last
    <2>1. u.mesh = n /\ u.last = Inserted(last, c, x)
          /\ u = [mesh |-> u.mesh, last |-> u.last]
        BY <1>1, <1>3, <1>7 DEF n
    <2>2. /\ DOMAIN u.last = DOMAIN last \cup {c}
          /\ u.last[c] = x
          /\ \A d \in DOMAIN last : u.last[d] = last[d]
        BY <1>7, <2>1 DEF Inserted
    <2>3. ASSUME NEW d PROVE IsJoined(m, W, n, u.last, d)
        <3>1. IsJoined(m, V, n, last, d)
            BY DEF n
        <3>2. CASE d = c
            <4>1. BordersOf(m, W, c) = {x}
                BY <1>5, <1>7, <3>1, <3>2 DEF IsJoined
            <4>2. AreJoined(n, {x}, x)
                BY <1>3, <1>7 DEF AreJoined
            <4>3. QED
                BY <2>2, <3>2, <4>1, <4>2 DEF IsJoined
        <3>3. CASE d # c
            <4>1. BordersOf(m, W, d) = BordersOf(m, V, d)
                BY <1>5, <3>3
            <4>2. QED
                BY <2>2, <3>1, <3>3, <4>1 DEF IsJoined
        <3>4. QED
            BY <3>2, <3>3
    <2>4. OthersAreSame(m, W, n)
        BY DEF OthersAreSame, n
    <2>5. SameButAdjacent(m, n)
        BY DEF n
    <2>6. QED
        BY <2>1, <2>3, <2>4, <2>5 DEF u
<1>8. CASE IsOnBorder(m, x) /\ c \in DOMAIN last
    <2> DEFINE B == BordersOf(m, V, c)
    <2>1. u.mesh = k /\ u.last = [last EXCEPT ![c] = x]
          /\ u = [mesh |-> u.mesh, last |-> u.last]
        BY <1>1, <1>3, <1>8
    <2>2. IsJoined(m, V, n, last, c)
        BY DEF n
    <2>3. l \in B /\ AreJoined(n, B, l)
        BY <1>8, <2>2 DEF IsJoined
    <2>4. /\ B \subseteq PolygonVertices(n)
          /\ x \notin B
          /\ \A y \in B : EdgeCycle(n, y) = EdgeCycle(n, x)
        BY <1>2, <1>4 DEF BordersOf
    <2>5. x \in PolygonVertices(n) /\ IsOnBorder(n, x)
        BY <1>2, <1>3, <1>8
    <2> HIDE DEF B
    <2>6. /\ SameButAdjacent(n, k)
          /\ AreJoined(k, B \cup {x}, x)
          /\ \A z \in PolygonVertices(n) :
                z \notin B \cup {x} => AdjacentOf(k, z) = AdjacentOf(n, z)
        <3>1. B \in SUBSET PolygonVertices(n)
            BY <2>4
        <3>2. k = WithLast(set, l, x)
            BY DEF k
        <3>3. set = DoSetPolygonAdjacent(n, x, l[1])
            OBVIOUS
        <3> HIDE DEF set, l
        <3>4. QED
            BY <1>2, <2>3, <2>4, <2>5, <3>1, <3>2, <3>3, OneMoreIsJoined
    <2>7. /\ DOMAIN u.last = DOMAIN last
          /\ u.last[c] = x
          /\ \A d \in DOMAIN last : d # c => u.last[d] = last[d]
        BY <1>8, <2>1
    <2>8. ASSUME NEW d PROVE IsJoined(m, W, k, u.last, d)
        <3>1. IsJoined(m, V, n, last, d)
            BY DEF n
        <3>2. CASE d = c
            <4>1. BordersOf(m, W, c) = B \cup {x}
                BY <1>5, <1>8 DEF B
            <4>2. QED
                BY <1>8, <2>6, <2>7, <3>2, <4>1 DEF IsJoined
        <3>3. CASE d # c
            <4>1. BordersOf(m, W, d) = BordersOf(m, V, d)
                BY <1>5, <3>3
            <4>2. ASSUME NEW y \in BordersOf(m, V, d)
                  PROVE  AdjacentOf(k, y) = AdjacentOf(n, y)
                <5>1. y \in PolygonVertices(n) /\ y \notin B \cup {x}
                    BY <1>2, <1>4, <3>3 DEF BordersOf, B
                <5>2. QED
                    BY <2>6, <5>1
            <4>3. \A y : AreJoined(n, BordersOf(m, V, d), y)
                            => AreJoined(k, BordersOf(m, V, d), y)
                BY <4>2, SameJoins
            <4>4. QED
                BY <2>7, <3>1, <3>3, <4>1, <4>3 DEF IsJoined
        <3>4. QED
            BY <3>2, <3>3
    <2>9. OthersAreSame(m, W, k)
        <3>1. ASSUME NEW y \in PolygonVertices(m),
                     y \notin W \/ ~IsOnBorder(m, y)
              PROVE  AdjacentOf(k, y) = AdjacentOf(m, y)
            <4>1. y \notin B \cup {x}
                BY <1>8, <3>1 DEF B, BordersOf
            <4>2. AdjacentOf(k, y) = AdjacentOf(n, y)
                BY <1>2, <2>6, <4>1
            <4>3. QED
                BY <3>1, <4>2 DEF OthersAreSame, n
        <3>2. QED
            BY <3>1 DEF OthersAreSame
    <2>10. SameButAdjacent(m, k)
        BY <1>2, <2>6
    <2>11. QED
        BY <2>1, <2>8, <2>9, <2>10 DEF u
<1>9. QED
    BY <1>6, <1>7, <1>8

\* The loop over the polygon edges.
LEMMA EdgesAreJoined ==
    ASSUME NEW m, HasFields(m), HasPolygons(m), HasPlaces(m),
           NEW edges \in Seq(PolygonVertices(m)), NoRepeat(edges)
    PROVE  LET w == ConnectEdges(m, edges)
           IN  /\ SameButAdjacent(m, w.mesh)
               /\ \A cycle : IsJoined(m, ToSet(edges), w.mesh, w.last, cycle)
<1> DEFINE N == Len(edges)
           PV == PolygonVertices(m)
           Until(n) == {edges[i] : i \in 1 .. n}
           Good(w, n) ==
                /\ w = [mesh |-> w.mesh, last |-> w.last]
                /\ SameButAdjacent(m, w.mesh)
                /\ OthersAreSame(m, Until(n), w.mesh)
                /\ \A cycle : IsJoined(m, Until(n), w.mesh, w.last, cycle)
<1>1. N \in Nat /\ DOMAIN edges = 1 .. N /\ \A n \in 1 .. N : edges[n] \in PV
    OBVIOUS
<1>2. PICK f : /\ f[0] = [mesh |-> m, last |-> <<>>]
               /\ \A n \in 1 .. N : f[n] = ConnectEdge(f[n - 1], edges[n])
               /\ ConnectEdges(m, edges) = f[N]
    BY TurnsOfConnectEdges
<1>3. Good(f[0], 0)
    <2> DEFINE w == f[0]
    <2>1. w.mesh = m /\ w.last = <<>> /\ w = [mesh |-> w.mesh, last |-> w.last]
        BY <1>2
    <2>2. SameButAdjacent(m, m)
        BY DEF SameButAdjacent
    <2>3. DOMAIN w.last = {}
        BY <2>1
    <2>4. Until(0) = {}
        OBVIOUS
    <2> HIDE DEF w, Until
    <2>5. \A cycle : BordersOf(m, Until(0), cycle) = {}
        BY <2>4 DEF BordersOf
    <2>6. \A cycle : IsJoined(m, Until(0), w.mesh, w.last, cycle)
        BY <2>3, <2>5 DEF IsJoined
    <2>7. OthersAreSame(m, Until(0), w.mesh)
        BY <2>1 DEF OthersAreSame
    <2>8. Good(w, 0)
        BY <2>1, <2>2, <2>6, <2>7
    <2>9. QED
        BY <2>8 DEF w
<1> HIDE DEF N, PV
<1>4. ASSUME NEW n \in Nat, n < N, Good(f[n], n)
      PROVE  Good(f[n + 1], n + 1)
    <2> DEFINE w == f[n]
               u == f[n + 1]
               x == edges[n + 1]
    <2>1. n + 1 \in 1 .. N /\ (n + 1) - 1 = n /\ n \in 0 .. N
        BY <1>1, <1>4
    <2>2. u = ConnectEdge(w, x) /\ x \in PV
        BY <1>1, <1>2, <2>1
    <2>3. x \notin Until(n) /\ Until(n) \subseteq PV
        <3>1. ASSUME NEW i \in 1 .. n PROVE edges[i] # x /\ edges[i] \in PV
            <4>1. i \in 1 .. N /\ i # n + 1
                BY <1>1, <2>1
            <4>2. QED
                BY <1>1, <2>1, <4>1 DEF NoRepeat
        <3>2. QED
            BY <3>1
    <2>4. Until(n + 1) = Until(n) \cup {x}
        <3>1. \A i : i \in 1 .. n + 1 <=> i \in 1 .. n \/ i = n + 1
            BY <2>1
        <3>2. QED
            BY <3>1
    <2> HIDE DEF u, x, w, Until
    <2>5. /\ u = [mesh |-> u.mesh, last |-> u.last]
          /\ SameButAdjacent(m, u.mesh)
          /\ OthersAreSame(m, Until(n) \cup {x}, u.mesh)
          /\ \A cycle : IsJoined(m, Until(n) \cup {x}, u.mesh, u.last, cycle)
        <3>1. Good(w, n)
            BY <1>4 DEF w
        <3>2. QED
            BY <2>2, <2>3, <3>1, EdgeIsJoined DEF PV
    <2>6. Good(u, n + 1)
        BY <2>4, <2>5
    <2>7. QED
        BY <2>6 DEF u
<1> HIDE DEF Good
<1> DEFINE S == {n \in Nat : Good(f[n], n)}
<1>5. \A n \in 0 .. N : n \in S
    <2>1. 0 \in S
        BY <1>3
    <2>2. \A n \in Nat : n < N /\ n \in S => n + 1 \in S
        BY <1>4
    <2> HIDE DEF S
    <2>3. QED
        BY <1>1, <2>1, <2>2, TurnInduction
<1>6. Good(f[N], N)
    BY <1>1, <1>5
<1>7. Until(N) = ToSet(edges)
    BY <1>1 DEF ToSet
<1>8. QED
    BY <1>2, <1>6, <1>7 DEF Good

\* The loop over the last edges that were met.
LEMMA EdgesAreMatched ==
    ASSUME NEW m, NEW V \in SUBSET PolygonVertices(m), HasPolygons(m),
           NEW n, HasFields(n), HasPolygons(n), HasPlaces(n),
           PolygonVertices(n) = PolygonVertices(m),
           \A y : EdgeCycle(n, y) = EdgeCycle(m, y),
           NEW last, \A cycle : IsJoined(m, V, n, last, cycle),
           NEW edges \in Seq({last[c] : c \in DOMAIN last}),
           ToSet(edges) = {last[c] : c \in DOMAIN last}
    PROVE  \A cycle : AreMatched(DisconnectNonManifoldEdges(n, edges),
                                 BordersOf(m, V, cycle))
<1> DEFINE N == Len(edges)
           Latest == {last[c] : c \in DOMAIN last}
           PV == PolygonVertices(m)
           B(c) == BordersOf(m, V, c)
           Good(r, k) ==
                /\ SameButAdjacent(n, r)
                /\ \A c \in DOMAIN last :
                        AreJoined(r, B(c), last[c]) \/ AreMatched(r, B(c))
                /\ \A i \in 1 .. k : AreMatched(r, B(EdgeCycle(m, edges[i])))
<1>1. /\ N \in Nat
      /\ DOMAIN edges = 1 .. N
      /\ \A k \in 1 .. N : edges[k] \in Latest
    OBVIOUS
<1>2. PICK f : /\ f[0] = n
               /\ \A k \in 1 .. N :
                    f[k] = DisconnectNonManifoldEdge(f[k - 1], edges[k])
               /\ DisconnectNonManifoldEdges(n, edges) = f[N]
    BY TurnsOfDisconnectNonManifoldEdges
<1>3. ASSUME NEW c \in DOMAIN last
      PROVE  /\ last[c] \in B(c)
             /\ B(c) \subseteq PV
             /\ \A y \in B(c) : EdgeCycle(m, y) = c
             /\ AreJoined(n, B(c), last[c])
    <2>1. IsJoined(m, V, n, last, c)
        OBVIOUS
    <2>2. QED
        BY <2>1 DEF IsJoined, BordersOf
<1>4. Good(f[0], 0)
    <2>1. SameButAdjacent(n, n)
        BY DEF SameButAdjacent
    <2> HIDE DEF B
    <2>2. QED
        BY <1>2, <1>3, <2>1
<1> HIDE DEF N, Latest, B, PV
<1>5. ASSUME NEW j \in Nat, j < N, Good(f[j], j)
      PROVE  Good(f[j + 1], j + 1)
    <2> DEFINE k == f[j]
               r == f[j + 1]
               x == edges[j + 1]
               c == EdgeCycle(m, x)
    <2>1. j + 1 \in 1 .. N /\ (j + 1) - 1 = j
        BY <1>1, <1>5
    <2>2. r = DisconnectNonManifoldEdge(k, x) /\ x \in Latest
        BY <1>1, <1>2, <2>1
    <2>3. c \in DOMAIN last /\ last[c] = x
        <3>1. PICK d \in DOMAIN last : last[d] = x
            BY <2>2 DEF Latest
        <3>2. EdgeCycle(m, x) = d
            BY <1>3, <3>1
        <3>3. QED
            BY <3>1, <3>2
    <2> HIDE DEF r, x
    <2>4. /\ x \in B(c)
          /\ B(c) \subseteq PV
          /\ \A y \in B(c) : EdgeCycle(m, y) = c
        BY <1>3, <2>3
    <2>5. /\ HasFields(k)
          /\ HasPolygons(k)
          /\ HasPlaces(k)
          /\ PolygonVertices(k) = PV
          /\ \A y : EdgeCycle(k, y) = EdgeCycle(m, y)
          /\ \A h : SameButAdjacent(k, h) => SameButAdjacent(n, h)
        BY <1>5, SameMesh DEF PV
    <2>6. AreJoined(k, B(c), x) \/ AreMatched(k, B(c))
        BY <1>5, <2>3
    <2>7. /\ SameButAdjacent(k, r)
          /\ AreMatched(r, B(c))
          /\ \A z \in PV : z \notin B(c) => AdjacentOf(r, z) = AdjacentOf(k, z)
        <3> DEFINE D == B(c)
        <3>1. /\ D \in SUBSET PolygonVertices(k)
              /\ x \in D
              /\ AreJoined(k, D, x) \/ AreMatched(k, D)
              /\ \A u \in D : EdgeCycle(k, u) = EdgeCycle(k, x)
            BY <2>4, <2>5, <2>6
        <3> HIDE DEF k, D
        <3>2. /\ SameButAdjacent(k, r)
              /\ AreMatched(r, D)
              /\ \A z \in PolygonVertices(k) :
                    z \notin D => AdjacentOf(r, z) = AdjacentOf(k, z)
            BY <2>2, <2>5, <3>1, JoinedAreMatched
        <3>3. QED
            BY <2>5, <3>2 DEF D
    <2> HIDE DEF k
    <2>8. ASSUME NEW d, d # c
          PROVE  /\ \A y : AreJoined(k, B(d), y) => AreJoined(r, B(d), y)
                 /\ AreMatched(k, B(d)) => AreMatched(r, B(d))
        <3>1. ASSUME NEW u \in B(d)
              PROVE  AdjacentOf(r, u) = AdjacentOf(k, u)
            <4>1. u \in PV /\ EdgeCycle(m, u) = d
                BY <3>1 DEF B, BordersOf, PV
            <4>2. u \notin B(c)
                BY <2>4, <2>8, <4>1
            <4>3. QED
                BY <2>7, <4>1, <4>2
        <3>2. QED
            BY <3>1, SameJoins
    <2>9. Good(k, j)
        BY <1>5 DEF k
    <2>10. ASSUME NEW d \in DOMAIN last
           PROVE  AreJoined(r, B(d), last[d]) \/ AreMatched(r, B(d))
        BY <2>7, <2>8, <2>9
    <2>11. ASSUME NEW i \in 1 .. j + 1
           PROVE  AreMatched(r, B(EdgeCycle(m, edges[i])))
        <3>1. CASE i = j + 1
            BY <2>7, <3>1 DEF x
        <3>2. CASE i # j + 1
            <4>1. i \in 1 .. j
                BY <3>2
            <4>2. AreMatched(k, B(EdgeCycle(m, edges[i])))
                BY <2>9, <4>1
            <4>3. QED
                BY <2>7, <2>8, <4>2
        <3>3. QED
            BY <3>1, <3>2
    <2>12. SameButAdjacent(n, r)
        BY <2>5, <2>7
    <2>13. Good(r, j + 1)
        BY <2>10, <2>11, <2>12
    <2>14. QED
        BY <2>13 DEF r
<1> HIDE DEF Good
<1> DEFINE S == {k \in Nat : Good(f[k], k)}
<1>6. \A k \in 0 .. N : k \in S
    <2>1. 0 \in S
        BY <1>4
    <2>2. \A k \in Nat : k < N /\ k \in S => k + 1 \in S
        BY <1>5
    <2> HIDE DEF S
    <2>3. QED
        BY <1>1, <2>1, <2>2, TurnInduction
<1>7. Good(f[N], N)
    BY <1>1, <1>6
<1>8. ASSUME NEW c PROVE AreMatched(f[N], B(c))
    <2>1. CASE c \notin DOMAIN last
        <3>1. IsJoined(m, V, n, last, c)
            OBVIOUS
        <3>2. B(c) = {}
            BY <2>1, <3>1 DEF IsJoined, B
        <3>3. QED
            BY <3>2 DEF AreMatched
    <2>2. CASE c \in DOMAIN last
        <3>1. last[c] \in ToSet(edges) /\ EdgeCycle(m, last[c]) = c
            BY <1>3, <2>2
        <3>2. PICK i \in 1 .. N : edges[i] = last[c]
            BY <1>1, <3>1 DEF ToSet
        <3>3. QED
            BY <1>7, <3>1, <3>2 DEF Good
    <2>3. QED
        BY <2>1, <2>2
<1>9. QED
    BY <1>2, <1>8 DEF B

\* compute_polygon_adjacencies() without edges connects two edges on border.
LEMMA BordersAreMatched ==
    ASSUME NEW m, HasFields(m), HasPolygons(m), HasPlaces(m),
           NEW S \in SUBSET Polygons(m)
    PROVE  \A cycle : AreMatched(ConnectBorders(m, S),
                        BordersOf(m, PolygonVerticesOf(m, S), cycle))
<1> DEFINE V == PolygonVerticesOf(m, S)
           edges == InOrder(m, V)
           w == ConnectEdges(m, edges)
           Latest == {w.last[c] : c \in DOMAIN w.last}
           ends == InOrder(m, Latest)
           r == DisconnectNonManifoldEdges(w.mesh, ends)
<1>1. ConnectBorders(m, S) = r
    BY DEF ConnectBorders
<1>2. V \subseteq PolygonVertices(m)
    BY DEF PolygonVertices, PolygonVerticesOf
<1>3. edges \in Seq(PolygonVertices(m)) /\ NoRepeat(edges) /\ ToSet(edges) = V
    <2>1. edges \in Seq(V) /\ NoRepeat(edges) /\ ToSet(edges) = V
        BY <1>2, CornersInOrder
    <2> HIDE DEF edges, V
    <2>2. QED
        BY <1>2, <2>1
<1> HIDE DEF edges, V
<1>4. /\ SameButAdjacent(m, w.mesh)
      /\ \A cycle : IsJoined(m, V, w.mesh, w.last, cycle)
    BY <1>3, EdgesAreJoined
<1> HIDE DEF w
<1>5. /\ HasFields(w.mesh)
      /\ HasPolygons(w.mesh)
      /\ HasPlaces(w.mesh)
      /\ PolygonVertices(w.mesh) = PolygonVertices(m)
      /\ \A y : EdgeCycle(w.mesh, y) = EdgeCycle(m, y)
    BY <1>4, SameMesh
<1>6. Latest \subseteq PolygonVertices(m)
    <2>1. ASSUME NEW c \in DOMAIN w.last
          PROVE  w.last[c] \in PolygonVertices(m)
        <3>1. IsJoined(m, V, w.mesh, w.last, c)
            BY <1>4
        <3>2. w.last[c] \in BordersOf(m, V, c)
            BY <3>1 DEF IsJoined
        <3>3. QED
            BY <1>2, <3>2 DEF BordersOf
    <2>2. QED
        BY <2>1
<1>7. ends \in Seq(Latest) /\ ToSet(ends) = Latest
    BY <1>6, CornersInOrder
<1> HIDE DEF ends
<1>8. \A cycle : AreMatched(r, BordersOf(m, V, cycle))
    BY <1>2, <1>4, <1>5, <1>7, EdgesAreMatched
<1>9. QED
    BY <1>1, <1>8 DEF V

\* The edges of S that could be connected to x.
MatesOf(m, S, x) ==
    {y \in PolygonVerticesOf(m, S) \ {x} :
        EdgeCycle(m, y) = EdgeCycle(m, x) /\ (m.enabled \/ IsOnBorder(m, y))}

\* compute_polygon_adjacencies() connects an edge to another when there is
\* exactly one.
LEMMA OnlyPairsAreConnected ==
    ASSUME NEW m, IsSurface(m), NEW S \in SUBSET Polygons(m),
           NEW x \in PolygonVerticesOf(m, S), IsOnBorder(m, x)
    PROVE  AdjacentOf(ComputePolygonAdjacencies(m, S), x) =
                IF Cardinality(MatesOf(m, S, x)) = 1
                THEN (CHOOSE y \in MatesOf(m, S, x) : TRUE)[1]
                ELSE NoId
<1> DEFINE r == ComputePolygonAdjacencies(m, S)
           M == MatesOf(m, S, x)
           Pick(T) == CHOOSE y \in T : TRUE
<1>1. /\ HasFields(m) /\ HasPolygons(m) /\ HasPlaces(m)
    BY DEF IsSurface, HasAdjacencies
<1>2. PolygonVerticesOf(m, S) \subseteq PolygonVertices(m)
    BY DEF PolygonVertices, PolygonVerticesOf
<1>3. IsFiniteSet(M)
    BY <1>1, <1>2, CornersAreFinite, FS_Subset DEF MatesOf
<1>4. ASSUME NEW y, y[1] # NoId, M = {y}
      PROVE  Cardinality(M) = 1 /\ Pick(M)[1] = y[1]
    BY <1>4, FS_Singleton
<1>5. Cardinality(M) = 1 => \E y : M = {y}
    BY <1>3, FS_Singleton
<1>6. CASE m.enabled
    <2> DEFINE Others(z) == {y \in PolygonVerticesOf(m, S) \ {z} :
                                EdgeCycle(m, y) = EdgeCycle(m, z)}
    <2>1. /\ x = <<x[1], x[2]>>
          /\ x[1] \in S
          /\ x[1] \in Polygons(m)
          /\ x[2] \in DOMAIN m.polygons[x[1]]
        BY CornerIsPair
    <2>2. Others(<<x[1], x[2]>>) = M
        BY <1>6, <2>1 DEF MatesOf
    <2>3. r = ConnectByEdges(m, S)
        BY <1>6 DEF ComputePolygonAdjacencies
    <2> DEFINE adjacent == [p \in Polygons(m) |->
            [i \in DOMAIN m.polygons[p] |->
                IF p \in S /\ Cardinality(Others(<<p, i>>)) = 1
                THEN (CHOOSE y \in Others(<<p, i>>) : TRUE)[1]
                ELSE m.adjacent[p][i]]]
    <2>4. r = [m EXCEPT !.adjacent = adjacent]
        BY <2>3 DEF ConnectByEdges
    <2> HIDE DEF r, adjacent
    <2>5. r.adjacent = adjacent
        BY <1>1, <2>4 DEF HasFields
    <2> HIDE DEF Others
    <2>6. adjacent[x[1]] = [i \in DOMAIN m.polygons[x[1]] |->
                IF x[1] \in S /\ Cardinality(Others(<<x[1], i>>)) = 1
                THEN (CHOOSE y \in Others(<<x[1], i>>) : TRUE)[1]
                ELSE m.adjacent[x[1]][i]]
        BY <2>1 DEF adjacent
    <2>7. adjacent[x[1]][x[2]] =
                IF x[1] \in S /\ Cardinality(Others(<<x[1], x[2]>>)) = 1
                THEN (CHOOSE y \in Others(<<x[1], x[2]>>) : TRUE)[1]
                ELSE m.adjacent[x[1]][x[2]]
        BY <2>1, <2>6
    <2>8. AdjacentOf(r, x) = IF Cardinality(M) = 1 THEN Pick(M)[1] ELSE NoId
        BY <2>1, <2>2, <2>5, <2>7 DEF AdjacentOf, IsOnBorder
    <2>9. QED
        BY <2>8 DEF r
<1>7. CASE ~m.enabled
    <2> DEFINE B == BordersOf(m, PolygonVerticesOf(m, S), EdgeCycle(m, x))
    <2>1. AreMatched(r, B)
        BY <1>1, <1>7, BordersAreMatched DEF ComputePolygonAdjacencies
    <2>2. M = B \ {x} /\ x \in B
        BY <1>7 DEF MatesOf, BordersOf
    <2>3. B \subseteq PolygonVertices(m)
        BY <1>2 DEF BordersOf
    <2> HIDE DEF r, B, M
    <2>4. CASE \E a, b : ArePaired(r, B, a, b)
        <3>1. PICK a, b : ArePaired(r, B, a, b)
            BY <2>4
        <3>2. PICK y : B = {x, y} /\ x # y /\ AdjacentOf(r, x) = y[1]
            BY <2>2, <3>1 DEF ArePaired
        <3>3. y[1] # NoId /\ M = {y}
            BY <1>1, <2>2, <2>3, <3>2, PolygonIsNotNoId
        <3>4. Cardinality(M) = 1 /\ Pick(M)[1] = y[1]
            BY <1>4, <3>3
        <3>5. QED
            BY <3>2, <3>4 DEF r, M
    <2>5. CASE /\ \A u \in B : IsOnBorder(r, u)
               /\ \A a, b : B = {a, b} => a = b
        <3>1. Cardinality(M) # 1
            <4>1. SUFFICES ASSUME NEW y, M = {y} PROVE FALSE
                BY <1>5
            <4>2. B = {x, y} /\ x # y
                BY <2>2, <4>1
            <4>3. QED
                BY <2>5, <4>2
        <3>2. AdjacentOf(r, x) = NoId
            BY <2>2, <2>5 DEF IsOnBorder
        <3>3. QED
            BY <3>1, <3>2 DEF r, M
    <2>6. QED
        BY <2>1, <2>4, <2>5 DEF AreMatched
<1>8. QED
    BY <1>6, <1>7

\* Computing the adjacencies of any polygons of a surface connects an edge on
\* border to another when there is exactly one to connect, also after one more
\* polygon: in whatever order the edges of a third polygon are met, none of the
\* three is left with half an adjacency.
THEOREM ComputingConnectsPairs == SurfaceSpec => []ComputeConnectsPairs
<1>1. IsSurface(mesh) => ComputeConnectsPairs
    <2>1. SUFFICES ASSUME IsSurface(mesh),
                          NEW m \in Extended, NEW S \in SUBSET Polygons(m)
                   PROVE  LET connected == ComputePolygonAdjacencies(m, S)
                              Mates(x) ==
                                {y \in PolygonVerticesOf(m, S) \ {x} :
                                    /\ EdgeCycle(m, y) = EdgeCycle(m, x)
                                    /\ m.enabled \/ IsOnBorder(m, y)}
                          IN  \A x \in PolygonVerticesOf(m, S) :
                                IsOnBorder(m, x) =>
                                    AdjacentOf(connected, x) =
                                        IF Cardinality(Mates(x)) = 1
                                        THEN (CHOOSE y \in Mates(x) : TRUE)[1]
                                        ELSE NoId
        BY DEF ComputeConnectsPairs
    <2>2. IsSurface(m)
        BY <2>1, ExtendedAreSurfaces
    <2>3. QED
        BY <2>2, OnlyPairsAreConnected DEF MatesOf
<1>2. QED
    BY <1>1, SurfacesStaySurfaces, PTL

-----------------------------------------------------------------------------
(* The storage of the edges: each one added, removed, counted. *)

\* The map and the two attributes describe n facets, each under one index.
HasFacets(s, n) ==
    /\ s = [indices |-> s.indices, vertices |-> s.vertices,
            counter |-> s.counter]
    /\ DOMAIN s.vertices = IndexRange(n)
    /\ DOMAIN s.counter = IndexRange(n)
    /\ \A c \in DOMAIN s.indices :
          s.indices[c] \in IndexRange(n) /\ s.vertices[s.indices[c]] = c
    /\ \A id \in IndexRange(n) :
          /\ s.vertices[id] \in DOMAIN s.indices
          /\ s.indices[s.vertices[id]] = id
          /\ s.counter[id] \in Nat

IsStorage(s) == \E n \in Nat : HasFacets(s, n)

\* There are as many facets as the storage has indices.
LEMMA SizeOfStorage ==
    ASSUME NEW n \in Nat, NEW s, HasFacets(s, n)
    PROVE  /\ Size(s.indices) = n
           /\ Size(s.counter) = n
           /\ Size(s.vertices) = n
           /\ IsFiniteSet(DOMAIN s.indices)
<1> DEFINE I == IndexRange(n)
           f == [id \in I |-> s.vertices[id]]
<1>1. IsFiniteSet(I) /\ Cardinality(I) = n
    BY SizeOfVector
<1>2. f \in Bijection(I, DOMAIN s.indices)
    <2>1. f \in [I -> DOMAIN s.indices]
        BY DEF HasFacets
    <2>2. \A i, j \in I : f[i] = f[j] => i = j
        <3>1. TAKE i, j \in I
        <3>2. s.indices[f[i]] = i /\ s.indices[f[j]] = j
            BY DEF HasFacets
        <3>3. QED
            BY <3>2
    <2>3. \A c \in DOMAIN s.indices : \E i \in I : f[i] = c
        BY DEF HasFacets
    <2> HIDE DEF f, I
    <2>4. QED
        BY <2>1, <2>2, <2>3, Fun_IsBij
<1>3. IsFiniteSet(DOMAIN s.indices) /\ Cardinality(DOMAIN s.indices) = n
    <2>1. ExistsBijection(I, DOMAIN s.indices)
        BY <1>2 DEF ExistsBijection
    <2>2. QED
        BY <1>1, <2>1, FS_Bijection
<1>4. QED
    BY <1>1, <1>3 DEF HasFacets, Size

\* A storage is consistent.
LEMMA StorageIsConsistent ==
    ASSUME NEW s, IsStorage(s)
    PROVE  IsConsistent(s)
<1>1. PICK n \in Nat : HasFacets(s, n)
    BY DEF IsStorage
<1>2. Size(s.indices) = n
    BY <1>1, SizeOfStorage
<1>3. QED
    BY <1>1, <1>2 DEF HasFacets, IsConsistent

\* Counts are numbers.
LEMMA CountIsNumber ==
    ASSUME NEW s, IsStorage(s), NEW c
    PROVE  CountOf(s, c) \in Nat
<1>1. PICK n \in Nat : HasFacets(s, n)
    BY DEF IsStorage
<1>2. QED
    BY <1>1 DEF HasFacets, CountOf

\* There is nothing in the storage of a mesh without edges.
LEMMA EmptyStorageHolds ==
    /\ IsStorage(EmptyStorage)
    /\ DOMAIN EmptyStorage.indices = {}
    /\ \A c : CountOf(EmptyStorage, c) = 0
<1>1. DOMAIN <<>> = {}
    OBVIOUS
<1>2. IndexRange(0) = {}
    BY DEF IndexRange
<1>3. HasFacets(EmptyStorage, 0)
    BY <1>1, <1>2 DEF HasFacets, EmptyStorage
<1>4. QED
    BY <1>1, <1>3 DEF IsStorage, CountOf, EmptyStorage

\* A storage with one more use of a facet that it has.
CountedMore(s, id) ==
    [i \in DOMAIN s.counter |->
        IF i = id THEN s.counter[id] + 1 ELSE s.counter[i]]

CountedLess(s, id) ==
    [i \in DOMAIN s.counter |->
        IF i = id THEN IF s.counter[id] = 0 THEN 0 ELSE s.counter[id] - 1
                  ELSE s.counter[i]]

\* The storage with other counters.
LEMMA OtherCounters ==
    ASSUME NEW n \in Nat, NEW s, HasFacets(s, n), NEW r, NEW counter,
           r = [indices |-> s.indices, vertices |-> s.vertices,
                counter |-> counter],
           DOMAIN counter = IndexRange(n),
           \A id \in IndexRange(n) : counter[id] \in Nat
    PROVE  /\ HasFacets(r, n)
           /\ \A c : CountOf(r, c) = IF c \in DOMAIN s.indices
                                     THEN counter[s.indices[c]] ELSE 0
<1>1. /\ r.indices = s.indices
      /\ r.vertices = s.vertices
      /\ r.counter = counter
    OBVIOUS
<1>2. HasFacets(r, n)
    BY <1>1 DEF HasFacets
<1>3. QED
    BY <1>1, <1>2 DEF CountOf

\* add_facet() counts one more use, and only of this facet.
LEMMA FacetIsAdded ==
    ASSUME NEW s, IsStorage(s), NEW c
    PROVE  LET r == AddFacet(s, c)
           IN  /\ IsStorage(r)
               /\ DOMAIN r.indices = DOMAIN s.indices \cup {c}
               /\ \A d : CountOf(r, d) = IF d = c THEN CountOf(s, d) + 1
                                                  ELSE CountOf(s, d)
<1> DEFINE r == AddFacet(s, c)
<1>1. PICK n \in Nat : HasFacets(s, n)
    BY DEF IsStorage
<1>2. Size(s.indices) = n
    BY <1>1, SizeOfStorage
<1>3. CASE c \in DOMAIN s.indices
    <2> DEFINE id == s.indices[c]
               counter == CountedMore(s, id)
    <2>1. r = [indices |-> s.indices, vertices |-> s.vertices,
               counter |-> counter]
        <3>1. r = [s EXCEPT !.counter[id] = @ + 1]
            BY <1>3 DEF AddFacet
        <3>2. s = [indices |-> s.indices, vertices |-> s.vertices,
                   counter |-> s.counter]
            BY <1>1 DEF HasFacets
        <3>3. counter = [s.counter EXCEPT ![id] = @ + 1]
            BY DEF CountedMore
        <3> HIDE DEF r, counter
        <3>4. QED
            BY <3>1, <3>2, <3>3
    <2>2. /\ DOMAIN counter = IndexRange(n)
          /\ \A i \in IndexRange(n) : counter[i] \in Nat
          /\ \A i \in IndexRange(n) : counter[i] =
                IF i = id THEN s.counter[i] + 1 ELSE s.counter[i]
        BY <1>1, <1>3 DEF CountedMore, HasFacets
    <2> HIDE DEF r, counter
    <2>3. /\ HasFacets(r, n)
          /\ \A d : CountOf(r, d) = IF d \in DOMAIN s.indices
                                    THEN counter[s.indices[d]] ELSE 0
        BY <1>1, <2>1, <2>2, OtherCounters
    <2>4. \A d \in DOMAIN s.indices : s.indices[d] = id => d = c
        BY <1>1, <1>3 DEF HasFacets
    <2>5. ASSUME NEW d
          PROVE  CountOf(r, d) = IF d = c THEN CountOf(s, d) + 1
                                          ELSE CountOf(s, d)
        <3>1. CASE d \in DOMAIN s.indices
            <4>1. s.indices[d] \in IndexRange(n)
                BY <1>1, <3>1 DEF HasFacets
            <4>2. QED
                BY <2>2, <2>3, <2>4, <3>1, <4>1 DEF CountOf
        <3>2. CASE d \notin DOMAIN s.indices
            BY <1>3, <2>3, <3>2 DEF CountOf
        <3>3. QED
            BY <3>1, <3>2
    <2>6. DOMAIN r.indices = DOMAIN s.indices \cup {c}
        BY <1>3, <2>1
    <2>7. QED
        BY <2>3, <2>5, <2>6 DEF IsStorage, r
<1>4. CASE c \notin DOMAIN s.indices
    <2> DEFINE I == IndexRange(n)
               J == IndexRange(n + 1)
               indices == Inserted(s.indices, c, n)
               vertices == [ResizeElements(s.vertices, n + 1, {})
                                EXCEPT ![n] = c]
               counter == ResizeElements(s.counter, n + 1, 1)
    <2>1. r = [indices |-> indices, vertices |-> vertices,
               counter |-> counter]
        BY <1>2, <1>4 DEF AddFacet
    <2>2. J = I \cup {n} /\ n \notin I /\ n \in J
        BY DEF IndexRange
    <2>3. /\ DOMAIN indices = DOMAIN s.indices \cup {c}
          /\ indices[c] = n
          /\ \A d \in DOMAIN s.indices : indices[d] = s.indices[d]
        BY <1>4 DEF Inserted
    <2>4. /\ DOMAIN vertices = J
          /\ vertices[n] = c
          /\ \A i \in I : vertices[i] = s.vertices[i]
        BY <1>1, <2>2 DEF ResizeElements, HasFacets
    <2>5. /\ DOMAIN counter = J
          /\ counter[n] = 1
          /\ \A i \in I : counter[i] = s.counter[i]
        BY <1>1, <2>2 DEF ResizeElements, HasFacets
    <2> HIDE DEF r, indices, vertices, counter
    <2>6. /\ r.indices = indices
          /\ r.vertices = vertices
          /\ r.counter = counter
        BY <2>1
    <2>7. HasFacets(r, n + 1)
        <3>1. \A d \in DOMAIN indices :
                indices[d] \in J /\ vertices[indices[d]] = d
            BY <1>1, <2>2, <2>3, <2>4 DEF HasFacets
        <3>2. \A i \in J : /\ vertices[i] \in DOMAIN indices
                           /\ indices[vertices[i]] = i
                           /\ counter[i] \in Nat
            BY <1>1, <2>2, <2>3, <2>4, <2>5 DEF HasFacets
        <3>3. QED
            BY <2>1, <2>4, <2>5, <2>6, <3>1, <3>2 DEF HasFacets
    <2>8. ASSUME NEW d
          PROVE  CountOf(r, d) = IF d = c THEN CountOf(s, d) + 1
                                          ELSE CountOf(s, d)
        <3>1. CASE d = c
            BY <1>4, <2>3, <2>5, <2>6, <3>1 DEF CountOf
        <3>2. CASE d # c
            <4>1. d \in DOMAIN s.indices => s.indices[d] \in I
                BY <1>1 DEF HasFacets
            <4>2. QED
                BY <2>3, <2>5, <2>6, <3>2, <4>1 DEF CountOf
        <3>3. QED
            BY <3>1, <3>2
    <2>9. n + 1 \in Nat
        OBVIOUS
    <2>10. QED
        BY <2>3, <2>6, <2>7, <2>8, <2>9 DEF IsStorage, r
<1>5. QED
    BY <1>3, <1>4

\* remove_facet() counts one use less, and only of this facet.
LEMMA FacetIsRemoved ==
    ASSUME NEW s, IsStorage(s), NEW c
    PROVE  LET r == RemoveFacet(s, c)
           IN  /\ IsStorage(r)
               /\ DOMAIN r.indices = DOMAIN s.indices
               /\ \A d : CountOf(r, d) =
                    IF d = c /\ CountOf(s, d) # 0
                    THEN CountOf(s, d) - 1 ELSE CountOf(s, d)
<1> DEFINE r == RemoveFacet(s, c)
<1>1. PICK n \in Nat : HasFacets(s, n)
    BY DEF IsStorage
<1>2. CASE c \notin DOMAIN s.indices
    BY <1>2 DEF RemoveFacet, CountOf
<1>3. CASE c \in DOMAIN s.indices
    <2> DEFINE id == s.indices[c]
               counter == CountedLess(s, id)
    <2>1. r = [indices |-> s.indices, vertices |-> s.vertices,
               counter |-> counter]
        <3>1. r = [s EXCEPT !.counter[id] = IF @ = 0 THEN 0 ELSE @ - 1]
            BY <1>3 DEF RemoveFacet
        <3>2. s = [indices |-> s.indices, vertices |-> s.vertices,
                   counter |-> s.counter]
            BY <1>1 DEF HasFacets
        <3>3. counter = [s.counter EXCEPT ![id] = IF @ = 0 THEN 0 ELSE @ - 1]
            BY DEF CountedLess
        <3> HIDE DEF r, counter
        <3>4. QED
            BY <3>1, <3>2, <3>3
    <2>2. /\ DOMAIN counter = IndexRange(n)
          /\ \A i \in IndexRange(n) : counter[i] \in Nat
          /\ \A i \in IndexRange(n) : counter[i] =
                IF i = id /\ s.counter[i] # 0
                THEN s.counter[i] - 1 ELSE s.counter[i]
        BY <1>1, <1>3 DEF CountedLess, HasFacets
    <2> HIDE DEF r, counter
    <2>3. /\ HasFacets(r, n)
          /\ \A d : CountOf(r, d) = IF d \in DOMAIN s.indices
                                    THEN counter[s.indices[d]] ELSE 0
        BY <1>1, <2>1, <2>2, OtherCounters
    <2>4. \A d \in DOMAIN s.indices : s.indices[d] = id => d = c
        BY <1>1, <1>3 DEF HasFacets
    <2>5. ASSUME NEW d
          PROVE  CountOf(r, d) = IF d = c /\ CountOf(s, d) # 0
                                 THEN CountOf(s, d) - 1 ELSE CountOf(s, d)
        <3>1. CASE d \in DOMAIN s.indices
            <4>1. s.indices[d] \in IndexRange(n)
                BY <1>1, <3>1 DEF HasFacets
            <4>2. QED
                BY <2>2, <2>3, <2>4, <3>1, <4>1 DEF CountOf
        <3>2. CASE d \notin DOMAIN s.indices
            BY <1>3, <2>3, <3>2 DEF CountOf
        <3>3. QED
            BY <3>1, <3>2
    <2>6. DOMAIN r.indices = DOMAIN s.indices
        BY <2>1
    <2>7. QED
        BY <2>3, <2>5, <2>6 DEF IsStorage, r
<1>4. QED
    BY <1>2, <1>3

-----------------------------------------------------------------------------
(* What the counters count: for each x of a set, the facet g[x]. *)

UsersOf(S, g, c) == {x \in S : g[x] = c}

Counts(s, S, g) == \A c : CountOf(s, c) = Cardinality(UsersOf(S, g, c))

\* Users are finitely many.
LEMMA UsersAreFinite ==
    ASSUME NEW S, IsFiniteSet(S), NEW g, NEW c
    PROVE  /\ IsFiniteSet(UsersOf(S, g, c))
           /\ Cardinality(UsersOf(S, g, c)) \in Nat
<1>1. UsersOf(S, g, c) \in SUBSET S
    BY DEF UsersOf
<1>2. IsFiniteSet(UsersOf(S, g, c))
    BY <1>1, FS_Subset
<1>3. QED
    BY <1>2, FS_CardinalityType

\* One more user adds its facet.
LEMMA OneMoreIsCounted ==
    ASSUME NEW s, IsStorage(s), NEW S, IsFiniteSet(S), NEW g, Counts(s, S, g),
           NEW x, x \notin S
    PROVE  LET r == AddFacet(s, g[x])
           IN  /\ IsStorage(r)
               /\ DOMAIN r.indices = DOMAIN s.indices \cup {g[x]}
               /\ Counts(r, S \cup {x}, g)
<1> DEFINE r == AddFacet(s, g[x])
           T == S \cup {x}
<1>1. /\ IsStorage(r)
      /\ DOMAIN r.indices = DOMAIN s.indices \cup {g[x]}
      /\ \A d : CountOf(r, d) = IF d = g[x] THEN CountOf(s, d) + 1
                                            ELSE CountOf(s, d)
    BY FacetIsAdded
<1> HIDE DEF r
<1>2. ASSUME NEW d
      PROVE  CountOf(r, d) = Cardinality(UsersOf(T, g, d))
    <2>1. CountOf(s, d) = Cardinality(UsersOf(S, g, d))
        BY DEF Counts
    <2>2. IsFiniteSet(UsersOf(S, g, d))
        BY UsersAreFinite
    <2>3. CASE g[x] = d
        <3>1. /\ UsersOf(T, g, d) = UsersOf(S, g, d) \cup {x}
              /\ x \notin UsersOf(S, g, d)
            BY <2>3 DEF UsersOf
        <3>2. Cardinality(UsersOf(T, g, d)) = Cardinality(UsersOf(S, g, d)) + 1
            BY <2>2, <3>1, FS_AddElement
        <3>3. QED
            BY <1>1, <2>1, <2>3, <3>2
    <2>4. CASE g[x] # d
        <3>1. UsersOf(T, g, d) = UsersOf(S, g, d)
            BY <2>4 DEF UsersOf
        <3>2. QED
            BY <1>1, <2>1, <2>4, <3>1
    <2>5. QED
        BY <2>3, <2>4
<1>3. QED
    BY <1>1, <1>2 DEF Counts, r

\* One user less removes its facet.
LEMMA OneLessIsCounted ==
    ASSUME NEW s, IsStorage(s), NEW S, IsFiniteSet(S), NEW g, Counts(s, S, g),
           NEW x \in S
    PROVE  LET r == RemoveFacet(s, g[x])
           IN  /\ IsStorage(r)
               /\ DOMAIN r.indices = DOMAIN s.indices
               /\ Counts(r, S \ {x}, g)
<1> DEFINE r == RemoveFacet(s, g[x])
           T == S \ {x}
<1>1. /\ IsStorage(r)
      /\ DOMAIN r.indices = DOMAIN s.indices
      /\ \A d : CountOf(r, d) = IF d = g[x] /\ CountOf(s, d) # 0
                                THEN CountOf(s, d) - 1 ELSE CountOf(s, d)
    BY FacetIsRemoved
<1> HIDE DEF r
<1>2. ASSUME NEW d
      PROVE  CountOf(r, d) = Cardinality(UsersOf(T, g, d))
    <2>1. CountOf(s, d) = Cardinality(UsersOf(S, g, d))
        BY DEF Counts
    <2>2. IsFiniteSet(UsersOf(S, g, d))
        BY UsersAreFinite
    <2>3. CASE g[x] = d
        <3>1. /\ UsersOf(T, g, d) = UsersOf(S, g, d) \ {x}
              /\ x \in UsersOf(S, g, d)
            BY <2>3 DEF UsersOf
        <3>2. Cardinality(UsersOf(S, g, d)) # 0
            BY <2>2, <3>1, FS_EmptySet
        <3>3. Cardinality(UsersOf(T, g, d)) = Cardinality(UsersOf(S, g, d)) - 1
            BY <2>2, <3>1, FS_RemoveElement
        <3>4. QED
            BY <1>1, <2>1, <2>3, <3>2, <3>3
    <2>4. CASE g[x] # d
        <3>1. UsersOf(T, g, d) = UsersOf(S, g, d)
            BY <2>4 DEF UsersOf
        <3>2. QED
            BY <1>1, <2>1, <2>4, <3>1
    <2>5. QED
        BY <2>3, <2>4
<1>3. QED
    BY <1>1, <1>2 DEF Counts, r

\* A user that goes to another facet updates both.
LEMMA OneElseIsCounted ==
    ASSUME NEW s, IsStorage(s), NEW S, IsFiniteSet(S), NEW g, Counts(s, S, g),
           NEW x \in S, NEW h, \A y \in S \ {x} : h[y] = g[y]
    PROVE  LET r == UpdateFacetVertex(s, g[x], h[x])
           IN  /\ IsStorage(r)
               /\ DOMAIN r.indices = DOMAIN s.indices \cup {h[x]}
               /\ Counts(r, S, h)
<1> DEFINE a == AddFacet(s, h[x])
           r == RemoveFacet(a, g[x])
<1>1. /\ IsStorage(a)
      /\ DOMAIN a.indices = DOMAIN s.indices \cup {h[x]}
      /\ \A d : CountOf(a, d) = IF d = h[x] THEN CountOf(s, d) + 1
                                            ELSE CountOf(s, d)
    BY FacetIsAdded
<1>2. UpdateFacetVertex(s, g[x], h[x]) = r
    BY DEF UpdateFacetVertex
<1> HIDE DEF a
<1>3. /\ IsStorage(r)
      /\ DOMAIN r.indices = DOMAIN a.indices
      /\ \A d : CountOf(r, d) = IF d = g[x] /\ CountOf(a, d) # 0
                                THEN CountOf(a, d) - 1 ELSE CountOf(a, d)
    BY <1>1, FacetIsRemoved
<1> HIDE DEF r
<1>4. ASSUME NEW d
      PROVE  CountOf(r, d) = Cardinality(UsersOf(S, h, d))
    <2> DEFINE U == UsersOf(S, g, d)
               W == U \ {x}
    <2>1. CountOf(s, d) = Cardinality(U) /\ CountOf(s, d) \in Nat
        BY CountIsNumber DEF Counts
    <2>2. IsFiniteSet(U)
        BY UsersAreFinite
    <2>3. /\ IsFiniteSet(W)
          /\ Cardinality(W) = IF x \in U THEN Cardinality(U) - 1
                                         ELSE Cardinality(U)
        BY <2>2, FS_RemoveElement
    <2>4. x \in U <=> g[x] = d
        BY DEF UsersOf
    <2>5. Cardinality(UsersOf(S, h, d)) =
                IF h[x] = d THEN Cardinality(W) + 1 ELSE Cardinality(W)
        <3>1. CASE h[x] = d
            <4>1. UsersOf(S, h, d) = W \cup {x} /\ x \notin W
                BY <3>1 DEF UsersOf
            <4> HIDE DEF W
            <4>2. QED
                BY <2>3, <3>1, <4>1, FS_AddElement
        <3>2. CASE h[x] # d
            <4>1. UsersOf(S, h, d) = W
                BY <3>2 DEF UsersOf
            <4>2. QED
                BY <3>2, <4>1
        <3>3. QED
            BY <3>1, <3>2
    <2>6. x \in U => Cardinality(U) # 0
        BY <2>2, FS_EmptySet
    <2> HIDE DEF U, W
    <2>7. QED
        BY <1>1, <1>3, <2>1, <2>3, <2>4, <2>5, <2>6
<1>5. QED
    BY <1>1, <1>2, <1>3, <1>4 DEF Counts

\* A list of users and the list of their facets.
FacetsOfList(g, list) == [i \in 1 .. Len(list) |-> g[list[i]]]

\* add_facet() for each of a list of new users.
LEMMA ListIsCounted ==
    ASSUME NEW s, IsStorage(s), NEW S, IsFiniteSet(S), NEW g, Counts(s, S, g),
           NEW T, NEW list \in Seq(T), NoRepeat(list), S \cap ToSet(list) = {}
    PROVE  LET r == AddFacets(s, FacetsOfList(g, list))
           IN  /\ IsStorage(r)
               /\ DOMAIN r.indices
                    = DOMAIN s.indices \cup {g[x] : x \in ToSet(list)}
               /\ Counts(r, S \cup ToSet(list), g)
<1> DEFINE cycles == FacetsOfList(g, list)
           N == Len(list)
           First(n) == FirstOnes(list, n)
           Holds(t, n) == /\ IsStorage(t)
                          /\ DOMAIN t.indices = DOMAIN s.indices \cup
                                    {g[x] : x \in First(n)}
                          /\ Counts(t, S \cup First(n), g)
                          /\ IsFiniteSet(S \cup First(n))
<1>1. N \in Nat /\ cycles \in Seq({g[list[i]] : i \in 1 .. N})
    BY DEF FacetsOfList
<1>2. Len(cycles) = N /\ \A n \in 1 .. N : cycles[n] = g[list[n]]
    BY <1>1 DEF FacetsOfList
<1> HIDE DEF cycles
<1>3. PICK f : /\ f[0] = s
               /\ \A n \in 1 .. N : f[n] = AddFacet(f[n - 1], cycles[n])
               /\ AddFacets(s, cycles) = f[N]
    BY <1>1, <1>2, TurnsOfAddFacets
<1>4. Holds(f[0], 0)
    <2>1. First(0) = {}
        BY DEF FirstOnes
    <2>2. S \cup First(0) = S /\ {g[x] : x \in First(0)} = {}
        BY <2>1
    <2> HIDE DEF First
    <2>3. QED
        BY <1>3, <2>2
<1>5. ASSUME NEW n \in Nat, n < N, Holds(f[n], n)
      PROVE  Holds(f[n + 1], n + 1)
    <2> DEFINE x == list[n + 1]
    <2>1. n + 1 \in 1 .. N /\ (n + 1) - 1 = n
        BY <1>1, <1>5
    <2>2. f[n + 1] = AddFacet(f[n], g[x])
        BY <1>2, <1>3, <2>1
    <2>3. First(n + 1) = First(n) \cup {x}
        BY <1>5, OneMoreIsFirst
    <2>4. x \notin S \cup First(n)
        <3>1. x \in ToSet(list)
            BY <2>1 DEF ToSet
        <3>2. \A i \in 1 .. n : list[i] # x
            BY <1>1, <1>5, <2>1 DEF NoRepeat
        <3>3. QED
            BY <3>1, <3>2 DEF FirstOnes
    <2> HIDE DEF x, First
    <2>5. /\ IsStorage(f[n + 1])
          /\ DOMAIN f[n + 1].indices = DOMAIN f[n].indices \cup {g[x]}
          /\ Counts(f[n + 1], (S \cup First(n)) \cup {x}, g)
        <3> DEFINE t == f[n]
                   U == S \cup First(n)
        <3>1. IsStorage(t) /\ Counts(t, U, g) /\ IsFiniteSet(U) /\ x \notin U
            BY <1>5, <2>4
        <3>2. f[n + 1] = AddFacet(t, g[x])
            BY <2>2
        <3> HIDE DEF t, U
        <3>3. LET r == AddFacet(t, g[x])
              IN  /\ IsStorage(r)
                  /\ DOMAIN r.indices = DOMAIN t.indices \cup {g[x]}
                  /\ Counts(r, U \cup {x}, g)
            BY <3>1, OneMoreIsCounted
        <3>4. QED
            BY <3>2, <3>3 DEF t, U
    <2>6. (S \cup First(n)) \cup {x} = S \cup First(n + 1)
        BY <2>3
    <2>7. DOMAIN f[n + 1].indices
            = DOMAIN s.indices \cup {g[y] : y \in First(n + 1)}
        BY <1>5, <2>3, <2>5
    <2>8. IsFiniteSet(S \cup First(n + 1))
        BY <1>5, <2>6, FS_AddElement
    <2>9. QED
        BY <2>5, <2>6, <2>7, <2>8
<1>6. Holds(f[N], N)
    <2> DEFINE R == {n \in Nat : Holds(f[n], n)}
    <2> HIDE DEF Holds
    <2>1. 0 \in R
        BY <1>4
    <2>2. \A n \in Nat : n < N /\ n \in R => n + 1 \in R
        BY <1>5
    <2> HIDE DEF R
    <2>3. \A n \in 0 .. N : n \in R
        BY <1>1, <2>1, <2>2, TurnInduction
    <2>4. QED
        BY <1>1, <2>3 DEF R
<1>7. First(N) = ToSet(list)
    BY AllAreFirst
<1> HIDE DEF First
<1>8. QED
    BY <1>3, <1>6, <1>7 DEF cycles

\* remove_facet() for each of a list of users.
LEMMA ListIsDiscounted ==
    ASSUME NEW s, IsStorage(s), NEW S, IsFiniteSet(S), NEW g, Counts(s, S, g),
           NEW list \in Seq(S), NoRepeat(list)
    PROVE  LET r == RemoveFacets(s, FacetsOfList(g, list))
           IN  /\ IsStorage(r)
               /\ DOMAIN r.indices = DOMAIN s.indices
               /\ Counts(r, S \ ToSet(list), g)
<1> DEFINE cycles == FacetsOfList(g, list)
           N == Len(list)
           First(n) == FirstOnes(list, n)
           Holds(t, n) == /\ IsStorage(t)
                          /\ DOMAIN t.indices = DOMAIN s.indices
                          /\ Counts(t, S \ First(n), g)
                          /\ IsFiniteSet(S \ First(n))
<1>1. N \in Nat /\ cycles \in Seq({g[list[i]] : i \in 1 .. N})
    BY DEF FacetsOfList
<1>2. Len(cycles) = N /\ \A n \in 1 .. N : cycles[n] = g[list[n]]
    BY <1>1 DEF FacetsOfList
<1> HIDE DEF cycles
<1>3. PICK f : /\ f[0] = s
               /\ \A n \in 1 .. N : f[n] = RemoveFacet(f[n - 1], cycles[n])
               /\ RemoveFacets(s, cycles) = f[N]
    <2> DEFINE T == {g[list[i]] : i \in 1 .. N}
    <2>1. cycles \in Seq(T) /\ Len(cycles) = N
        BY <1>1, <1>2
    <2> HIDE DEF T, N
    <2>2. \E f : /\ f[0] = s
                 /\ \A n \in 1 .. Len(cycles) : f[n] =
                        RemoveFacet(f[n - 1], cycles[n])
                 /\ RemoveFacets(s, cycles) = f[Len(cycles)]
        BY <2>1, TurnsOfRemoveFacets
    <2>3. QED
        BY <2>1, <2>2
<1>4. Holds(f[0], 0)
    <2>1. First(0) = {}
        BY DEF FirstOnes
    <2>2. S \ First(0) = S
        BY <2>1
    <2> HIDE DEF First
    <2>3. QED
        BY <1>3, <2>2
<1>5. ASSUME NEW n \in Nat, n < N, Holds(f[n], n)
      PROVE  Holds(f[n + 1], n + 1)
    <2> DEFINE x == list[n + 1]
    <2>1. n + 1 \in 1 .. N /\ (n + 1) - 1 = n
        BY <1>1, <1>5
    <2>2. f[n + 1] = RemoveFacet(f[n], g[x])
        BY <1>2, <1>3, <2>1
    <2>3. First(n + 1) = First(n) \cup {x}
        BY <1>5, OneMoreIsFirst
    <2>4. x \in S \ First(n)
        <3>1. x \in S
            BY <2>1
        <3>2. \A i \in 1 .. n : list[i] # x
            BY <1>1, <1>5, <2>1 DEF NoRepeat
        <3>3. QED
            BY <3>1, <3>2 DEF FirstOnes
    <2> HIDE DEF x, First
    <2>5. /\ IsStorage(f[n + 1])
          /\ DOMAIN f[n + 1].indices = DOMAIN f[n].indices
          /\ Counts(f[n + 1], (S \ First(n)) \ {x}, g)
        <3> DEFINE t == f[n]
                   U == S \ First(n)
        <3>1. IsStorage(t) /\ Counts(t, U, g) /\ IsFiniteSet(U) /\ x \in U
            BY <1>5, <2>4
        <3>2. f[n + 1] = RemoveFacet(t, g[x])
            BY <2>2
        <3> HIDE DEF t, U
        <3>3. /\ IsStorage(f[n + 1])
              /\ DOMAIN f[n + 1].indices = DOMAIN t.indices
              /\ Counts(f[n + 1], U \ {x}, g)
            BY <3>1, <3>2, OneLessIsCounted
        <3>4. QED
            BY <3>3 DEF t, U
    <2>6. (S \ First(n)) \ {x} = S \ First(n + 1)
        BY <2>3
    <2>7. IsFiniteSet(S \ First(n + 1))
        BY <1>5, <2>6, FS_RemoveElement
    <2>8. QED
        BY <1>5, <2>5, <2>6, <2>7
<1>6. Holds(f[N], N)
    <2> DEFINE R == {n \in Nat : Holds(f[n], n)}
    <2> HIDE DEF Holds
    <2>1. 0 \in R
        BY <1>4
    <2>2. \A n \in Nat : n < N /\ n \in R => n + 1 \in R
        BY <1>5
    <2> HIDE DEF R
    <2>3. \A n \in 0 .. N : n \in R
        BY <1>1, <2>1, <2>2, TurnInduction
    <2>4. QED
        BY <1>1, <2>3 DEF R
<1>7. First(N) = ToSet(list)
    BY AllAreFirst
<1> HIDE DEF First
<1>8. QED
    BY <1>3, <1>6, <1>7 DEF cycles

-----------------------------------------------------------------------------
(* The edges of a surface. *)

\* The edge of each polygon edge.
CyclesOf(m) == [x \in PolygonVertices(m) |-> EdgeCycle(m, x)]

\* When they are enabled, each edge is counted for each polygon edge it has.
HasEdges(m) ==
    IF m.enabled
    THEN /\ IsStorage(m.edges)
         /\ \A c \in DOMAIN m.edges.indices : c \subseteq Vertices(m)
         /\ Counts(m.edges, PolygonVertices(m), CyclesOf(m))
    ELSE m.edges = EmptyStorage

\* An edge has two vertices of the mesh.
LEMMA CycleIsKnown ==
    ASSUME NEW m, HasPolygons(m), NEW x \in PolygonVertices(m)
    PROVE  EdgeCycle(m, x) \subseteq Vertices(m)
<1>1. NextPolygonVertex(m, x) \in PolygonVertices(m)
    BY StepsInPolygon
<1>2. QED
    BY <1>1, VertexIsKnown DEF EdgeCycle

\* Counts depend on the facets of the users only.
LEMMA SameCounts ==
    ASSUME NEW s, NEW S, NEW g, Counts(s, S, g),
           NEW h, \A x \in S : h[x] = g[x]
    PROVE  Counts(s, S, h)
<1>1. \A c : UsersOf(S, h, c) = UsersOf(S, g, c)
    BY DEF UsersOf
<1>2. QED
    BY <1>1 DEF Counts

\* Operations that change neither polygons nor edges.
LEMMA SameEdges ==
    ASSUME NEW m, HasEdges(m), NEW r,
           r.polygons = m.polygons, r.edges = m.edges, r.enabled = m.enabled,
           Vertices(m) \subseteq Vertices(r)
    PROVE  HasEdges(r)
<1>1. /\ PolygonVertices(r) = PolygonVertices(m)
      /\ \A x : EdgeCycle(r, x) = EdgeCycle(m, x)
    BY SamePolygons
<1>2. CyclesOf(r) = CyclesOf(m)
    BY <1>1 DEF CyclesOf
<1>3. QED
    BY <1>1, <1>2 DEF HasEdges

\* What HasEdges() says of what the runs check.
LEMMA EdgesAreCounted ==
    ASSUME NEW m, HasPolygons(m), HasEdges(m)
    PROVE  /\ IsConsistent(m.edges)
           /\ m.enabled => \A cycle : CountsEdge(m, cycle)
<1>1. CASE m.enabled
    <2>1. /\ IsStorage(m.edges)
          /\ Counts(m.edges, PolygonVertices(m), CyclesOf(m))
        BY <1>1 DEF HasEdges
    <2>2. ASSUME NEW cycle PROVE CountsEdge(m, cycle)
        <3>1. UsersOf(PolygonVertices(m), CyclesOf(m), cycle)
                = {x \in PolygonVertices(m) : EdgeCycle(m, x) = cycle}
            BY DEF UsersOf, CyclesOf
        <3>2. QED
            BY <2>1, <3>1 DEF CountsEdge, Counts
    <2>3. QED
        BY <2>1, <2>2, StorageIsConsistent
<1>2. CASE ~m.enabled
    BY <1>2, EmptyStorageHolds, StorageIsConsistent DEF HasEdges
<1>3. QED
    BY <1>1, <1>2

\* The list of the edges of some polygons is that of the facets of their
\* polygon edges.
LEMMA CyclesOfList ==
    ASSUME NEW m, HasPolygons(m), NEW S \in SUBSET Polygons(m)
    PROVE  LET list == InOrder(m, PolygonVerticesOf(m, S))
           IN  /\ EdgeCycles(m, S) = FacetsOfList(CyclesOf(m), list)
               /\ list \in Seq(PolygonVerticesOf(m, S))
               /\ NoRepeat(list)
               /\ ToSet(list) = PolygonVerticesOf(m, S)
               /\ PolygonVerticesOf(m, S) \subseteq PolygonVertices(m)
<1> DEFINE V == PolygonVerticesOf(m, S)
           list == InOrder(m, V)
<1>1. V \subseteq PolygonVertices(m)
    BY DEF PolygonVertices, PolygonVerticesOf
<1> HIDE DEF V
<1>2. list \in Seq(V) /\ NoRepeat(list) /\ ToSet(list) = V
    BY <1>1, CornersInOrder
<1>3. EdgeCycles(m, S) = [i \in DOMAIN list |-> EdgeCycle(m, list[i])]
    BY DEF EdgeCycles, V
<1> HIDE DEF list
<1>4. DOMAIN list = 1 .. Len(list) /\ \A i \in DOMAIN list : list[i] \in V
    BY <1>2
<1>5. \A i \in 1 .. Len(list) : CyclesOf(m)[list[i]] = EdgeCycle(m, list[i])
    BY <1>1, <1>4 DEF CyclesOf
<1>6. EdgeCycles(m, S) = FacetsOfList(CyclesOf(m), list)
    BY <1>3, <1>4, <1>5 DEF FacetsOfList
<1>7. QED
    BY <1>1, <1>2, <1>6 DEF V, list

\* create_point()
LEMMA PointKeepsEdges ==
    ASSUME NEW m, IsSurface(m), HasEdges(m)
    PROVE  HasEdges(CreatePoint(m))
<1> DEFINE around == AppendElement(m.around, NoPolygonVertex)
           lists == AppendElement(m.cached, NotComputed)
           r == CreatePoint(m)
<1>1. HasFields(m) /\ Size(m.around) \in Nat
      /\ Vertices(m) = IndexRange(Size(m.around))
    BY DEF IsSurface, HasPolygons
<1>2. r = [m EXCEPT !.around = around, !.cached = lists]
    BY DEF CreatePoint
<1>3. DOMAIN around = IndexRange(Size(m.around) + 1)
    BY DEF AppendElement
<1> HIDE DEF r, around, lists
<1>4. r.polygons = m.polygons /\ r.edges = m.edges /\ r.enabled = m.enabled
      /\ r.around = around
    BY <1>1, <1>2 DEF HasFields
<1>5. Vertices(m) \subseteq Vertices(r)
    BY <1>1, <1>3, <1>4 DEF Vertices, IndexRange
<1>6. HasEdges(r)
    BY <1>4, <1>5, SameEdges
<1>7. QED
    BY <1>6 DEF r

\* compute_polygon_adjacencies()
LEMMA ComputeKeepsEdges ==
    ASSUME NEW m, IsSurface(m), HasEdges(m), NEW S \in SUBSET Polygons(m),
           m.enabled => S = Polygons(m)
    PROVE  HasEdges(ComputePolygonAdjacencies(m, S))
<1>1. HasFields(m) /\ HasPolygons(m) /\ HasAdjacencies(m)
    BY DEF IsSurface
<1> DEFINE r == ComputePolygonAdjacencies(m, S)
<1>2. SameButAdjacent(m, r)
    <2>1. CASE m.enabled
        <3>1. r = ConnectByEdges(m, Polygons(m))
            BY <2>1 DEF ComputePolygonAdjacencies
        <3>2. QED
            BY <1>1, <3>1, PairsAreConnected
    <2>2. CASE ~m.enabled
        <3>1. r = ConnectBorders(m, S)
            BY <2>2 DEF ComputePolygonAdjacencies
        <3>2. QED
            BY <1>1, <3>1, BordersAreConnected
    <2>3. QED
        BY <2>1, <2>2
<1> HIDE DEF r
<1>3. HasEdges(r)
    BY <1>2, SameEdges DEF SameButAdjacent, Vertices
<1>4. QED
    BY <1>3 DEF r

\* unset_polygon_adjacent()
LEMMA UnsetKeepsEdges ==
    ASSUME NEW m, IsSurface(m), HasEdges(m),
           NEW x \in PolygonVertices(m), ~IsOnBorder(m, x)
    PROVE  HasEdges(UnsetPolygonAdjacents(m, x))
<1> DEFINE y == PolygonAdjacentEdge(m, x)
           k == SetPolygonAdjacent(m, x, NoId)
           r == SetPolygonAdjacent(k, y, NoId)
<1>1. HasFields(m) /\ HasPolygons(m) /\ HasAdjacencies(m) /\ HasPlaces(m)
    BY DEF IsSurface, HasAdjacencies
<1>2. y \in PolygonVertices(m)
    <2>1. PICK z : IsAcross(m, x, z)
        BY <1>1 DEF HasAdjacencies
    <2>2. y = z
        BY <1>1, <2>1, AcrossIsFound
    <2>3. QED
        BY <2>1, <2>2 DEF IsAcross
<1> HIDE DEF y
<1>3. /\ HasFields(k) /\ HasPolygons(k) /\ HasPlaces(k)
      /\ k.polygons = m.polygons /\ k.around = m.around
      /\ k.enabled = m.enabled /\ k.edges = m.edges
      /\ PolygonVertices(k) = PolygonVertices(m)
    BY <1>1, OneIsSetAndReset
<1> HIDE DEF k
<1>4. y \in PolygonVertices(k)
    BY <1>2, <1>3
<1>5. /\ r.polygons = m.polygons /\ r.around = m.around
      /\ r.enabled = m.enabled /\ r.edges = m.edges
    <2>1. LET t == SetPolygonAdjacent(k, y, NoId)
          IN  /\ t.polygons = k.polygons /\ t.around = k.around
              /\ t.enabled = k.enabled /\ t.edges = k.edges
        BY <1>3, <1>4, OneIsSetAndReset
    <2>2. QED
        BY <1>3, <2>1
<1>6. UnsetPolygonAdjacents(m, x) = r
    BY DEF UnsetPolygonAdjacents, k, y
<1> HIDE DEF r
<1>7. HasEdges(r)
    BY <1>5, SameEdges DEF Vertices
<1>8. QED
    BY <1>6, <1>7

\* polygons_around_vertex()
LEMMA QueryKeepsEdges ==
    ASSUME NEW m, IsSurface(m), HasEdges(m), NEW v, NEW first
    PROVE  HasEdges(QueryPolygonsAround(m, v, first))
<1> DEFINE lists == [m.cached EXCEPT ![v] = [computed |-> TRUE,
                polygons |-> UpdatedPolygonsAroundVertex(m, v, first)]]
           r == QueryPolygonsAround(m, v, first)
<1>1. r = [m EXCEPT !.cached = lists]
    BY DEF QueryPolygonsAround
<1>2. HasFields(m)
    BY DEF IsSurface
<1> HIDE DEF r, lists
<1>3. r.polygons = m.polygons /\ r.edges = m.edges /\ r.enabled = m.enabled
      /\ r.around = m.around
    BY <1>1, <1>2 DEF HasFields
<1>4. HasEdges(r)
    BY <1>3, SameEdges DEF Vertices
<1>5. QED
    BY <1>4 DEF r

\* enable_edges(), disable_edges()
LEMMA EnabledHasEdges ==
    ASSUME NEW m, IsSurface(m), HasEdges(m)
    PROVE  HasEdges(EnableEdges(m)) /\ HasEdges(DisableEdges(m))
<1>1. HasFields(m) /\ HasPolygons(m) /\ m.enabled \in BOOLEAN
    BY DEF IsSurface
<1>2. HasEdges(EnableEdges(m))
    <2>1. CASE m.enabled
        BY <2>1 DEF EnableEdges
    <2>2. CASE ~m.enabled
        <3> DEFINE edges == AddFacets(EmptyStorage, EdgeCycles(m, Polygons(m)))
                   r == EnableEdges(m)
        <3>1. r = [m EXCEPT !.enabled = TRUE, !.edges = edges]
            BY <2>2 DEF EnableEdges
        <3> HIDE DEF r, edges
        <3>2. /\ r.polygons = m.polygons /\ r.around = m.around
              /\ r.edges = edges
            BY <1>1, <3>1 DEF HasFields
        <3>3. r.enabled
            BY <1>1, <3>1 DEF HasFields
        <3> DEFINE list == InOrder(m, PolygonVerticesOf(m, Polygons(m)))
                   PV == PolygonVertices(m)
        <3>4. /\ EdgeCycles(m, Polygons(m)) = FacetsOfList(CyclesOf(m), list)
              /\ list \in Seq(PV) /\ NoRepeat(list) /\ ToSet(list) = PV
            <4>1. PolygonVerticesOf(m, Polygons(m)) = PV
                BY DEF PolygonVertices
            <4>2. QED
                BY <1>1, <4>1, CyclesOfList
        <3>5. Counts(EmptyStorage, {}, CyclesOf(m)) /\ IsFiniteSet({})
            <4>1. \A c : UsersOf({}, CyclesOf(m), c) = {}
                BY DEF UsersOf
            <4>2. QED
                BY <4>1, EmptyStorageHolds, FS_EmptySet DEF Counts
        <3> HIDE DEF list, PV
        <3>6. /\ IsStorage(edges)
              /\ DOMAIN edges.indices = {CyclesOf(m)[x] : x \in PV}
              /\ Counts(edges, PV, CyclesOf(m))
            <4> DEFINE added == AddFacets(EmptyStorage,
                                          FacetsOfList(CyclesOf(m), list))
            <4>1. /\ IsStorage(added)
                  /\ DOMAIN added.indices = DOMAIN EmptyStorage.indices
                        \cup {CyclesOf(m)[x] : x \in ToSet(list)}
                  /\ Counts(added, {} \cup ToSet(list), CyclesOf(m))
                BY <3>4, <3>5, EmptyStorageHolds, ListIsCounted
            <4>2. edges = added
                BY <3>4 DEF edges
            <4> HIDE DEF added
            <4>3. {} \cup ToSet(list) = PV
                BY <3>4
            <4>4. DOMAIN edges.indices = {CyclesOf(m)[x] : x \in PV}
                BY <3>4, <4>1, <4>2, EmptyStorageHolds
            <4>5. QED
                BY <4>1, <4>2, <4>3, <4>4
        <3>7. /\ PolygonVertices(r) = PV /\ CyclesOf(r) = CyclesOf(m)
              /\ Vertices(r) = Vertices(m)
            BY <3>2, SamePolygons DEF CyclesOf, Vertices, PV
        <3>8. \A c \in DOMAIN edges.indices : c \subseteq Vertices(m)
            BY <1>1, <3>6, CycleIsKnown DEF CyclesOf, PV
        <3>9. HasEdges(r)
            BY <3>2, <3>3, <3>6, <3>7, <3>8 DEF HasEdges
        <3>10. QED
            BY <3>9 DEF r
    <2>3. QED
        BY <2>1, <2>2
<1>3. HasEdges(DisableEdges(m))
    <2> DEFINE r == DisableEdges(m)
    <2>1. r = [m EXCEPT !.enabled = FALSE, !.edges = EmptyStorage]
        BY DEF DisableEdges
    <2> HIDE DEF r
    <2>2. ~r.enabled
        BY <1>1, <2>1 DEF HasFields
    <2>3. r.edges = EmptyStorage
        BY <1>1, <2>1 DEF HasFields
    <2>4. HasEdges(r)
        BY <2>2, <2>3 DEF HasEdges
    <2>5. QED
        BY <2>4 DEF r
<1>4. QED
    BY <1>2, <1>3

\* create_polygon()
LEMMA PolygonKeepsEdges ==
    ASSUME NEW m, IsSurface(m), HasEdges(m),
           NEW vertices, IsPolygon(vertices, Size(m.around))
    PROVE  HasEdges(CreatePolygon(m, vertices))
<1> DEFINE p == Size(m.polygons)
           c == WithPolygon(m, vertices)
           new == {<<p, i>> : i \in DOMAIN vertices}
           corners == [i \in 1 .. Size(vertices) |-> <<p, i - 1>>]
           a == AssociateCorners(c, corners)
           r == CreatePolygon(m, vertices)
           PV == PolygonVertices(m)
<1>1. /\ HasFields(m) /\ HasPolygons(m) /\ HasAdjacencies(m)
      /\ HasAround(m) /\ m.enabled \in BOOLEAN
    BY DEF IsSurface
<1>2. /\ HasFields(c)
      /\ c.around = m.around
      /\ c.enabled = m.enabled
      /\ c.edges = m.edges
      /\ HasPolygons(c)
      /\ p \notin Polygons(m)
      /\ Polygons(c) = Polygons(m) \cup {p}
      /\ c.polygons[p] = vertices
      /\ PolygonVertices(c) = PV \cup new
      /\ \A x \in PV : EdgeCycle(c, x) = EdgeCycle(m, x)
    BY <1>1, PolygonIsAdded
<1>3. r = IF m.enabled
          THEN [a EXCEPT !.edges = AddFacets(@, EdgeCycles(c, {p}))]
          ELSE a
    BY DEF CreatePolygon, WithPolygon
<1> HIDE DEF c, r, PV
<1>4. Vertices(c) = Vertices(m)
    BY <1>2 DEF Vertices
<1>5. corners \in Seq(PolygonVertices(c))
    BY <1>2, CornersOfPolygon
<1> HIDE DEF corners, p
<1>6. SameButAround(c, a)
    <2>1. c.around = [v \in Vertices(c) |-> c.around[v]]
        BY <1>1, <1>2, <1>4 DEF HasAround
    <2>2. QED
        BY <1>2, <1>5, <2>1, CornersAreAssociated
<1> HIDE DEF a
<1>7. /\ HasFields(a)
      /\ a.polygons = c.polygons
      /\ a.edges = m.edges
      /\ a.enabled = m.enabled
      /\ Vertices(a) = Vertices(m)
    <2>1. DOMAIN a.around = Vertices(c)
        BY <1>6 DEF SameButAround
    <2>2. QED
        BY <1>2, <1>4, <1>6, <2>1 DEF SameButAround, Vertices
<1>8. CASE ~m.enabled
    <2>1. r = a
        BY <1>3, <1>8
    <2>2. HasEdges(r)
        BY <1>7, <1>8, <2>1 DEF HasEdges
    <2>3. QED
        BY <2>2 DEF r
<1>9. CASE m.enabled
    <2> DEFINE V == PolygonVerticesOf(c, {p})
               list == InOrder(c, V)
               edges == AddFacets(m.edges, EdgeCycles(c, {p}))
    <2>1. r = [a EXCEPT !.edges = AddFacets(a.edges, EdgeCycles(c, {p}))]
        BY <1>3, <1>9
    <2>2. r = [a EXCEPT !.edges = edges]
        BY <1>7, <2>1
    <2> HIDE DEF edges
    <2>3. /\ r.polygons = c.polygons
          /\ r.enabled = m.enabled
          /\ r.edges = edges
          /\ r.around = a.around
        BY <1>7, <2>2 DEF HasFields
    <2>4. /\ EdgeCycles(c, {p}) = FacetsOfList(CyclesOf(c), list)
          /\ list \in Seq(V) /\ NoRepeat(list) /\ ToSet(list) = V
          /\ V \subseteq PolygonVertices(c)
        <3>1. {p} \in SUBSET Polygons(c)
            BY <1>2
        <3>2. QED
            BY <1>2, <3>1, CyclesOfList
    <2>5. PV \cap V = {} /\ PolygonVertices(c) = PV \cup V
        <3>1. \A x : x \in V <=> x \in PolygonVertices(c) /\ x[1] = p
            BY <1>2, CornerIsPair
        <3>2. ASSUME NEW x \in PV PROVE x[1] # p
            <4>1. x[1] \in Polygons(m)
                BY CornerIsPair DEF PV
            <4>2. QED
                BY <1>2, <4>1
        <3>3. \A x \in new : x[1] = p
            OBVIOUS
        <3> HIDE DEF V, new
        <3>4. QED
            BY <1>2, <3>1, <3>2, <3>3
    <2> HIDE DEF V, list
    <2>6. /\ IsStorage(m.edges)
          /\ \A cycle \in DOMAIN m.edges.indices : cycle \subseteq Vertices(m)
          /\ Counts(m.edges, PV, CyclesOf(c))
        <3>1. /\ IsStorage(m.edges)
              /\ \A cycle \in DOMAIN m.edges.indices :
                    cycle \subseteq Vertices(m)
              /\ Counts(m.edges, PV, CyclesOf(m))
            BY <1>9 DEF HasEdges, PV
        <3>2. \A x \in PV : CyclesOf(c)[x] = CyclesOf(m)[x]
            BY <1>2, <2>5 DEF CyclesOf, PV
        <3>3. QED
            BY <3>1, <3>2, SameCounts
    <2>7. IsFiniteSet(PV)
        BY <1>1, CornersAreFinite DEF PV
    <2>8. /\ IsStorage(edges)
          /\ DOMAIN edges.indices = DOMAIN m.edges.indices \cup
                {CyclesOf(c)[x] : x \in ToSet(list)}
          /\ Counts(edges, PV \cup ToSet(list), CyclesOf(c))
        <3> DEFINE added == AddFacets(m.edges, FacetsOfList(CyclesOf(c), list))
        <3>1. PV \cap ToSet(list) = {}
            BY <2>4, <2>5
        <3>2. /\ IsStorage(added)
              /\ DOMAIN added.indices = DOMAIN m.edges.indices \cup
                    {CyclesOf(c)[x] : x \in ToSet(list)}
              /\ Counts(added, PV \cup ToSet(list), CyclesOf(c))
            BY <2>4, <2>6, <2>7, <3>1, ListIsCounted
        <3>3. edges = added
            BY <2>4 DEF edges
        <3> HIDE DEF added
        <3>4. QED
            BY <3>2, <3>3
    <2>9. /\ PolygonVertices(r) = PolygonVertices(c)
          /\ CyclesOf(r) = CyclesOf(c)
          /\ Vertices(r) = Vertices(m)
        BY <1>7, <2>3, SamePolygons DEF CyclesOf, Vertices
    <2>10. ASSUME NEW cycle \in DOMAIN edges.indices
           PROVE  cycle \subseteq Vertices(m)
        <3>1. CASE cycle \in DOMAIN m.edges.indices
            BY <2>6, <3>1
        <3>2. CASE cycle \in {CyclesOf(c)[x] : x \in ToSet(list)}
            <4>1. PICK x \in ToSet(list) : cycle = CyclesOf(c)[x]
                BY <3>2
            <4>2. x \in PolygonVertices(c)
                BY <2>4, <4>1
            <4>3. QED
                BY <1>2, <1>4, <4>1, <4>2, CycleIsKnown DEF CyclesOf
        <3>3. QED
            BY <2>8, <3>1, <3>2
    <2>11. Counts(edges, PolygonVertices(r), CyclesOf(r))
        BY <2>4, <2>5, <2>8, <2>9
    <2>12. HasEdges(r)
        BY <1>9, <2>3, <2>8, <2>9, <2>10, <2>11 DEF HasEdges
    <2>13. QED
        BY <2>12 DEF r
<1>10. QED
    BY <1>1, <1>8, <1>9

\* copy()
LEMMA CopyKeepsEdges ==
    ASSUME NEW m, IsSurface(m), HasEdges(m)
    PROVE  HasEdges(CopyMesh(m))
<1> DEFINE r == CopyMesh(m)
<1>1. r.polygons = m.polygons /\ r.edges = m.edges /\ r.enabled = m.enabled
      /\ r.around = m.around
    BY CopyKeepsSurface
<1> HIDE DEF r
<1>2. HasEdges(r)
    BY <1>1, SameEdges DEF Vertices
<1>3. QED
    BY <1>2 DEF r

-----------------------------------------------------------------------------
(* Edges that are deleted, renamed and renumbered. *)

\* Whether r has the facets of s that are not in D, each renamed by g, with
\* the counters that they had.
HasKept(n, s, r, D, kept, g, vertices, ids) ==
    /\ r = [indices |-> r.indices, vertices |-> DeleteElements(vertices, D),
            counter |-> DeleteElements(s.counter, D)]
    /\ kept = {c \in DOMAIN s.indices : s.indices[c] \notin D}
    /\ DOMAIN vertices = IndexRange(n)
    /\ \A c \in kept : vertices[s.indices[c]] = g[c]
    /\ ids = MappingAfterDeletion(n, D)
    /\ \A c, d \in kept : g[c] = g[d] => c = d
    /\ DOMAIN r.indices = {g[c] : c \in kept}
    /\ \A c \in kept : r.indices[g[c]] = ids[s.indices[c]]

\* The facets that are kept keep their counters.
LEMMA FacetsAreKept ==
    ASSUME NEW n \in Nat, NEW s, HasFacets(s, n), NEW D,
           NEW kept, NEW g, NEW vertices, NEW ids, NEW r,
           HasKept(n, s, r, D, kept, g, vertices, ids)
    PROVE  /\ IsStorage(r)
           /\ \A c \in kept : CountOf(r, g[c]) = CountOf(s, c)
<1> DEFINE I == IndexRange(n)
           count == Cardinality(I \ D)
           J == IndexRange(count)
<1>1. /\ DOMAIN s.counter = I
      /\ \A c \in DOMAIN s.indices :
            s.indices[c] \in I /\ s.vertices[s.indices[c]] = c
      /\ \A id \in I :
            /\ s.vertices[id] \in DOMAIN s.indices
            /\ s.indices[s.vertices[id]] = id
            /\ s.counter[id] \in Nat
    BY DEF HasFacets
<1>2. /\ r = [indices |-> r.indices, vertices |-> DeleteElements(vertices, D),
              counter |-> DeleteElements(s.counter, D)]
      /\ kept = {c \in DOMAIN s.indices : s.indices[c] \notin D}
      /\ DOMAIN vertices = I
      /\ \A c \in kept : vertices[s.indices[c]] = g[c]
      /\ ids = MappingAfterDeletion(n, D)
      /\ \A c, d \in kept : g[c] = g[d] => c = d
      /\ DOMAIN r.indices = {g[c] : c \in kept}
      /\ \A c \in kept : r.indices[g[c]] = ids[s.indices[c]]
    BY DEF HasKept
<1>3. /\ count \in Nat
      /\ DOMAIN DeleteElements(vertices, D) = J
      /\ DOMAIN DeleteElements(s.counter, D) = J
    BY <1>1, <1>2, DeletedVectorSize
<1>4. r.vertices = DeleteElements(vertices, D)
      /\ r.counter = DeleteElements(s.counter, D)
    BY <1>2
<1>5. \A id \in I \ D : /\ ids[id] \in J
                        /\ r.vertices[ids[id]] = vertices[id]
                        /\ r.counter[ids[id]] = s.counter[id]
    <2>1. TAKE id \in I \ D
    <2>2. ids[id] \in J
        BY <1>2, MappingIsOneToOne
    <2>3. DeleteElements(vertices, D)[ids[id]] = vertices[id]
        BY <1>2, DeletedVectorFollowsMapping
    <2>4. DeleteElements(s.counter, D)[ids[id]] = s.counter[id]
        BY <1>1, <1>2, DeletedVectorFollowsMapping
    <2>5. QED
        BY <1>4, <2>2, <2>3, <2>4
<1>6. \A k \in J : \E id \in I \ D : ids[id] = k
    BY <1>2, DeletedVectorComesFromKept
<1>7. \A c \in kept : s.indices[c] \in I \ D
    BY <1>1, <1>2
<1>8. \A id \in I \ D : s.vertices[id] \in kept
    BY <1>1, <1>2
<1> HIDE DEF J, I, count
<1>9. ASSUME NEW u \in DOMAIN r.indices
      PROVE  r.indices[u] \in J /\ r.vertices[r.indices[u]] = u
    <2>1. PICK c \in kept : u = g[c]
        BY <1>2, <1>9
    <2>2. r.indices[u] = ids[s.indices[c]] /\ vertices[s.indices[c]] = u
        BY <1>2, <2>1
    <2>3. QED
        BY <1>5, <1>7, <2>2
<1>10. ASSUME NEW k \in J
       PROVE  /\ r.vertices[k] \in DOMAIN r.indices
              /\ r.indices[r.vertices[k]] = k
              /\ r.counter[k] \in Nat
    <2>1. PICK id \in I \ D : ids[id] = k
        BY <1>6
    <2> DEFINE c == s.vertices[id]
    <2>2. c \in kept /\ s.indices[c] = id
        BY <1>1, <1>8
    <2>3. vertices[id] = g[c]
        BY <1>2, <2>2
    <2>4. r.vertices[k] = g[c] /\ r.counter[k] = s.counter[id]
        BY <1>5, <2>1, <2>3
    <2>5. r.indices[g[c]] = k
        BY <1>2, <2>1, <2>2
    <2>6. QED
        BY <1>1, <1>2, <2>2, <2>4, <2>5
<1>11. HasFacets(r, count)
    <2>1. r = [indices |-> r.indices, vertices |-> r.vertices,
               counter |-> r.counter]
        BY <1>2, <1>4
    <2>2. DOMAIN r.vertices = J /\ DOMAIN r.counter = J
        BY <1>3, <1>4
    <2>3. QED
        BY <1>9, <1>10, <2>1, <2>2 DEF HasFacets, J
<1>12. \A c \in kept : CountOf(r, g[c]) = CountOf(s, c)
    <2>1. TAKE c \in kept
    <2>2. c \in DOMAIN s.indices /\ g[c] \in DOMAIN r.indices
        BY <1>2
    <2>3. r.counter[r.indices[g[c]]] = s.counter[s.indices[c]]
        BY <1>2, <1>5, <1>7
    <2>4. QED
        BY <2>2, <2>3 DEF CountOf
<1>13. QED
    BY <1>3, <1>11, <1>12 DEF IsStorage

\* clean_facets() deletes facets without a user only.
LEMMA CleanedKeepsCounts ==
    ASSUME NEW s, IsStorage(s)
    PROVE  LET r == CleanFacets(s)
           IN  /\ IsStorage(r)
               /\ DOMAIN r.indices \subseteq DOMAIN s.indices
               /\ \A c : CountOf(r, c) = CountOf(s, c)
<1>1. PICK n \in Nat : HasFacets(s, n)
    BY DEF IsStorage
<1> DEFINE D == {id \in DOMAIN s.counter : s.counter[id] = 0}
           ids == MappingAfterDeletion(n, D)
           kept == {c \in DOMAIN s.indices : s.indices[c] \notin D}
           g == [c \in kept |-> c]
           r == CleanFacets(s)
<1>2. Size(s.counter) = n
    BY <1>1, SizeOfStorage
<1>3. /\ DOMAIN s.counter = IndexRange(n)
      /\ DOMAIN s.vertices = IndexRange(n)
      /\ \A c \in DOMAIN s.indices :
            s.indices[c] \in IndexRange(n) /\ s.vertices[s.indices[c]] = c
    BY <1>1 DEF HasFacets
<1>4. \A id \in IndexRange(n) : ids[id] # NoId <=> id \notin D
    <2>1. TAKE id \in IndexRange(n)
    <2>2. id \in D => ids[id] = NoId
        BY DEF MappingAfterDeletion
    <2>3. id \notin D => ids[id] \in IndexRange(Cardinality(IndexRange(n) \ D))
        BY MappingIsOneToOne
    <2>4. Cardinality(IndexRange(n) \ D) \in Nat
        BY <1>3, DeletedVectorSize
    <2> HIDE DEF ids, D
    <2>5. QED
        BY <2>2, <2>3, <2>4 DEF IndexRange, NoId
<1>5. r = [indices |-> [c \in {c \in DOMAIN s.indices :
                                ids[s.indices[c]] # NoId}
                            |-> ids[s.indices[c]]],
           vertices |-> DeleteElements(s.vertices, D),
           counter |-> DeleteElements(s.counter, D)]
    BY <1>2 DEF CleanFacets, DeleteFacets
<1> HIDE DEF r, ids, D
<1>6. {c \in DOMAIN s.indices : ids[s.indices[c]] # NoId} = kept
    BY <1>3, <1>4
<1>7. r.indices = [c \in kept |-> ids[s.indices[c]]]
    BY <1>5, <1>6
<1>8. HasKept(n, s, r, D, kept, g, s.vertices, ids)
    <2>1. r = [indices |-> r.indices,
               vertices |-> DeleteElements(s.vertices, D),
               counter |-> DeleteElements(s.counter, D)]
        BY <1>5
    <2>2. DOMAIN r.indices = {g[c] : c \in kept}
        BY <1>7
    <2>3. \A c \in kept : r.indices[g[c]] = ids[s.indices[c]]
        BY <1>7
    <2>4. \A c \in kept : s.vertices[s.indices[c]] = g[c]
        BY <1>3
    <2>5. \A c, d \in kept : g[c] = g[d] => c = d
        OBVIOUS
    <2>6. ids = MappingAfterDeletion(n, D)
        BY DEF ids
    <2>7. kept = {c \in DOMAIN s.indices : s.indices[c] \notin D}
        OBVIOUS
    <2> HIDE DEF kept, g
    <2>8. QED
        BY <1>3, <2>1, <2>2, <2>3, <2>4, <2>5, <2>6, <2>7 DEF HasKept
<1>9. IsStorage(r) /\ \A c \in kept : CountOf(r, g[c]) = CountOf(s, c)
    <2> HIDE DEF kept, g
    <2>1. QED
        BY <1>1, <1>8, FacetsAreKept
<1>10. ASSUME NEW c PROVE CountOf(r, c) = CountOf(s, c)
    <2>1. CASE c \in kept
        BY <1>9, <2>1
    <2>2. CASE c \notin kept
        <3>1. CountOf(r, c) = 0
            BY <1>7, <2>2 DEF CountOf
        <3>2. CountOf(s, c) = 0
            BY <2>2 DEF CountOf, D
        <3>3. QED
            BY <3>1, <3>2
    <2>3. QED
        BY <2>1, <2>2
<1>11. DOMAIN r.indices \subseteq DOMAIN s.indices
    BY <1>7
<1>12. QED
    BY <1>9, <1>10, <1>11 DEF r

\* delete_isolated_edges()
LEMMA CleanKeepsEdges ==
    ASSUME NEW m, IsSurface(m), HasEdges(m), m.enabled
    PROVE  HasEdges(DeleteIsolatedEdges(m))
<1> DEFINE edges == CleanFacets(m.edges)
           r == DeleteIsolatedEdges(m)
<1>1. HasFields(m)
    BY DEF IsSurface
<1>2. r = [m EXCEPT !.edges = edges]
    BY DEF DeleteIsolatedEdges
<1> HIDE DEF r, edges
<1>3. /\ r.polygons = m.polygons
      /\ r.around = m.around
      /\ r.enabled = m.enabled
      /\ r.edges = edges
    BY <1>1, <1>2 DEF HasFields
<1>4. /\ PolygonVertices(r) = PolygonVertices(m)
      /\ CyclesOf(r) = CyclesOf(m)
      /\ Vertices(r) = Vertices(m)
    BY <1>3, SamePolygons DEF CyclesOf, Vertices
<1>5. /\ IsStorage(m.edges)
      /\ \A c \in DOMAIN m.edges.indices : c \subseteq Vertices(m)
      /\ Counts(m.edges, PolygonVertices(m), CyclesOf(m))
    BY DEF HasEdges
<1>6. /\ IsStorage(edges)
      /\ DOMAIN edges.indices \subseteq DOMAIN m.edges.indices
      /\ \A c : CountOf(edges, c) = CountOf(m.edges, c)
    BY <1>5, CleanedKeepsCounts DEF edges
<1>7. Counts(edges, PolygonVertices(m), CyclesOf(m))
    BY <1>5, <1>6 DEF Counts
<1>8. HasEdges(r)
    BY <1>3, <1>4, <1>5, <1>6, <1>7 DEF HasEdges
<1>9. QED
    BY <1>8 DEF r

\* Users that are renumbered, with the facets that they had.
LEMMA RenumberedCounts ==
    ASSUME NEW m, HasPolygons(m), NEW r, NEW old2new,
           HasRenumbered(m, r, old2new), NEW s,
           Counts(s, LeftCorners(m, old2new), CyclesOf(m))
    PROVE  Counts(s, PolygonVertices(r), CyclesOf(r))
<1> DEFINE L == LeftCorners(m, old2new)
           W == PolygonVertices(r)
<1>1. IsFiniteSet(L)
    BY CornersAreFinite, FS_Subset DEF LeftCorners
<1>2. \A x \in L : x \in PolygonVertices(m) /\ old2new[x[1]] # NoId
    BY DEF LeftCorners
<1>3. \A x \in L : /\ Renumbered(old2new, x) \in W
                   /\ CyclesOf(r)[Renumbered(old2new, x)] = CyclesOf(m)[x]
    BY <1>2, RenumberedCorner DEF CyclesOf
<1>4. ASSUME NEW x \in L, NEW y \in L,
             Renumbered(old2new, x) = Renumbered(old2new, y)
      PROVE  x = y
    <2>1. /\ x = <<x[1], x[2]>> /\ x[1] \in Polygons(m)
          /\ y = <<y[1], y[2]>> /\ y[1] \in Polygons(m)
        BY <1>2, CornerIsPair
    <2>2. old2new[x[1]] = old2new[y[1]] /\ x[2] = y[2]
        BY <1>4 DEF Renumbered
    <2>3. x[1] = y[1]
        BY <1>2, <2>1, <2>2 DEF HasRenumbered
    <2>4. QED
        BY <2>1, <2>2, <2>3
<1>5. \A y \in W : \E x \in L : y = Renumbered(old2new, x)
    BY RenumberedFrom DEF LeftCorners
<1>6. ASSUME NEW c
      PROVE  CountOf(s, c) = Cardinality(UsersOf(W, CyclesOf(r), c))
    <2> DEFINE A == UsersOf(L, CyclesOf(m), c)
               B == UsersOf(W, CyclesOf(r), c)
               f == [x \in A |-> Renumbered(old2new, x)]
    <2>1. IsFiniteSet(A) /\ CountOf(s, c) = Cardinality(A)
        BY <1>1, UsersAreFinite DEF Counts
    <2>2. f \in [A -> B]
        BY <1>3 DEF UsersOf
    <2>3. \A x, y \in A : f[x] = f[y] => x = y
        BY <1>4 DEF UsersOf
    <2>4. \A y \in B : \E x \in A : f[x] = y
        BY <1>3, <1>5 DEF UsersOf
    <2> HIDE DEF A, B, f
    <2>5. f \in Bijection(A, B)
        BY <2>2, <2>3, <2>4, Fun_IsBij
    <2>6. ExistsBijection(A, B)
        BY <2>5 DEF ExistsBijection
    <2>7. Cardinality(A) = Cardinality(B)
        BY <2>1, <2>6, FS_Bijection
    <2>8. QED
        BY <2>1, <2>7 DEF B
<1>7. QED
    BY <1>6 DEF Counts

\* Polygons that are renumbered keep the edges that the rest counts.
LEMMA RenumberedHasEdges ==
    ASSUME NEW m, HasPolygons(m), NEW r, NEW old2new,
           HasRenumbered(m, r, old2new), r.enabled,
           IsStorage(r.edges),
           \A c \in DOMAIN r.edges.indices : c \subseteq Vertices(m),
           Counts(r.edges, LeftCorners(m, old2new), CyclesOf(m))
    PROVE  HasEdges(r)
<1>1. Counts(r.edges, PolygonVertices(r), CyclesOf(r))
    BY RenumberedCounts
<1>2. Vertices(r) = Vertices(m)
    BY DEF HasRenumbered
<1>3. QED
    BY <1>1, <1>2 DEF HasEdges

\* delete_polygons()
LEMMA DeletedPolygonsKeepEdges ==
    ASSUME NEW m, IsSurface(m), HasEdges(m), NEW D \in SUBSET Polygons(m),
           \A v \in Vertices(m) : m.around[v][1] \in D =>
                \/ IsManifold(m, v)
                \/ \E x \in ToSet(PolygonsAroundVertex(m, v)) : x[1] \notin D
    PROVE  HasEdges(DeletePolygons(m, D))
<1> DEFINE r == DeletePolygons(m, D)
           old2new == MappingAfterDeletion(Size(m.polygons), D)
           edges == RemoveFacets(m.edges, EdgeCycles(m, D))
<1>1. CASE D = {}
    BY <1>1 DEF DeletePolygons
<1>2. CASE D # {}
    <2>1. /\ HasRenumbered(m, r, old2new)
          /\ \A p \in Polygons(m) : old2new[p] = NoId <=> p \in D
          /\ r.enabled = m.enabled
          /\ r.edges = IF m.enabled THEN edges ELSE m.edges
        BY <1>2, DeletedPolygonsKeepSurface
    <2>2. HasPolygons(m)
        BY DEF IsSurface
    <2> HIDE DEF r, old2new, edges
    <2>3. CASE ~m.enabled
        <3>1. ~r.enabled /\ r.edges = EmptyStorage
            BY <2>1, <2>3 DEF HasEdges
        <3>2. HasEdges(r)
            BY <3>1 DEF HasEdges
        <3>3. QED
            BY <3>2 DEF r
    <2>4. CASE m.enabled
        <3> DEFINE PV == PolygonVertices(m)
                   V == PolygonVerticesOf(m, D)
                   list == InOrder(m, V)
        <3>1. /\ IsStorage(m.edges)
              /\ \A c \in DOMAIN m.edges.indices : c \subseteq Vertices(m)
              /\ Counts(m.edges, PV, CyclesOf(m))
            BY <2>4 DEF HasEdges
        <3>2. /\ EdgeCycles(m, D) = FacetsOfList(CyclesOf(m), list)
              /\ list \in Seq(V) /\ NoRepeat(list) /\ ToSet(list) = V
              /\ V \subseteq PV
            BY <2>2, CyclesOfList
        <3>3. LeftCorners(m, old2new) = PV \ V
            <4>1. ASSUME NEW x \in PV
                  PROVE  x \in V <=> old2new[x[1]] = NoId
                <5>1. /\ x = <<x[1], x[2]>> /\ x[1] \in Polygons(m)
                      /\ x[2] \in DOMAIN m.polygons[x[1]]
                    BY CornerIsPair
                <5>2. x \in V <=> x[1] \in D
                    BY <5>1, CornerIsPair
                <5>3. QED
                    BY <2>1, <5>1, <5>2
            <4> HIDE DEF V
            <4>2. QED
                BY <4>1 DEF LeftCorners
        <3>4. IsFiniteSet(PV)
            BY <2>2, CornersAreFinite
        <3> HIDE DEF PV, V, list
        <3>5. list \in Seq(PV)
            BY <3>2
        <3> DEFINE removed == RemoveFacets(m.edges,
                                    FacetsOfList(CyclesOf(m), list))
        <3>6. /\ IsStorage(removed)
              /\ DOMAIN removed.indices = DOMAIN m.edges.indices
              /\ Counts(removed, PV \ ToSet(list), CyclesOf(m))
            BY <3>1, <3>2, <3>4, <3>5, ListIsDiscounted
        <3>7. r.edges = removed
            BY <2>1, <2>4, <3>2 DEF edges
        <3> HIDE DEF removed
        <3>8. Counts(r.edges, LeftCorners(m, old2new), CyclesOf(m))
            BY <3>2, <3>3, <3>6, <3>7
        <3>9. r.enabled
            BY <2>1, <2>4
        <3>10. HasEdges(r)
            BY <2>1, <2>2, <3>1, <3>6, <3>7, <3>8, <3>9, RenumberedHasEdges
        <3>11. QED
            BY <3>10 DEF r
    <2>5. QED
        BY <2>3, <2>4
<1>3. QED
    BY <1>1, <1>2

\* permute_polygons()
LEMMA PermutedPolygonsKeepEdges ==
    ASSUME NEW m, IsSurface(m), HasEdges(m),
           NEW permutation \in PermutationsOf(Polygons(m))
    PROVE  HasEdges(PermutePolygons(m, permutation))
<1> DEFINE r == PermutePolygons(m, permutation)
           old2new == Old2NewPermutation(permutation)
<1>1. /\ HasRenumbered(m, r, old2new)
      /\ \A p \in Polygons(m) : old2new[p] # NoId
      /\ r.enabled = m.enabled
      /\ r.edges = m.edges
    BY PermutedPolygonsKeepSurface
<1>2. HasPolygons(m)
    BY DEF IsSurface
<1> HIDE DEF r, old2new
<1>3. CASE ~m.enabled
    <2>1. ~r.enabled /\ r.edges = EmptyStorage
        BY <1>1, <1>3 DEF HasEdges
    <2>2. HasEdges(r)
        BY <2>1 DEF HasEdges
    <2>3. QED
        BY <2>2 DEF r
<1>4. CASE m.enabled
    <2>1. /\ IsStorage(r.edges)
          /\ \A c \in DOMAIN r.edges.indices : c \subseteq Vertices(m)
          /\ Counts(r.edges, PolygonVertices(m), CyclesOf(m))
        BY <1>1, <1>4 DEF HasEdges
    <2>2. LeftCorners(m, old2new) = PolygonVertices(m)
        <3>1. \A x \in PolygonVertices(m) : x[1] \in Polygons(m)
            BY CornerIsPair
        <3>2. QED
            BY <1>1, <3>1 DEF LeftCorners
    <2>3. r.enabled
        BY <1>1, <1>4
    <2>4. HasEdges(r)
        BY <1>1, <1>2, <2>1, <2>2, <2>3, RenumberedHasEdges
    <2>5. QED
        BY <2>4 DEF r
<1>5. QED
    BY <1>3, <1>4

\* Polygons whose vertices changed have the same polygon vertices and edges.
LEMMA SameSlots ==
    ASSUME NEW m, HasPolygons(m), NEW r, HasSlots(m, r.polygons)
    PROVE  /\ Polygons(r) = Polygons(m)
           /\ PolygonVertices(r) = PolygonVertices(m)
           /\ \A x \in PolygonVertices(m) :
                /\ NextPolygonVertex(r, x) = NextPolygonVertex(m, x)
                /\ PreviousPolygonVertex(r, x) = PreviousPolygonVertex(m, x)
                /\ EdgeCycle(r, x) = {VertexOf(r, x),
                        VertexOf(r, NextPolygonVertex(m, x))}
<1>1. Polygons(r) = Polygons(m)
    <2>1. r.polygons = [p \in Polygons(m) |-> r.polygons[p]]
        BY DEF HasSlots
    <2>2. DOMAIN [p \in Polygons(m) |-> r.polygons[p]] = Polygons(m)
        OBVIOUS
    <2>3. DOMAIN r.polygons = Polygons(m)
        BY <2>1, <2>2, Zenon
    <2>4. QED
        BY <2>3 DEF Polygons
<1>2. ASSUME NEW p \in Polygons(m)
      PROVE  DOMAIN r.polygons[p] = DOMAIN m.polygons[p]
    <2>1. r.polygons[p] = [i \in DOMAIN m.polygons[p] |-> r.polygons[p][i]]
        BY DEF HasSlots
    <2>2. DOMAIN [i \in DOMAIN m.polygons[p] |-> r.polygons[p][i]]
            = DOMAIN m.polygons[p]
        OBVIOUS
    <2>3. QED
        BY <2>1, <2>2, Zenon
<1>3. PolygonVertices(r) = PolygonVertices(m)
    <2>1. ASSUME NEW x
          PROVE  x \in PolygonVertices(r) <=> x \in PolygonVertices(m)
        BY <1>1, <1>2, CornerIsPair
    <2>2. QED
        BY <2>1
<1>4. ASSUME NEW x \in PolygonVertices(m)
      PROVE  /\ NextPolygonVertex(r, x) = NextPolygonVertex(m, x)
             /\ PreviousPolygonVertex(r, x) = PreviousPolygonVertex(m, x)
    <2>1. x[1] \in Polygons(m)
        BY CornerIsPair
    <2>2. Size(r.polygons[x[1]]) = Size(m.polygons[x[1]])
        BY <1>2, <2>1 DEF Size
    <2>3. QED
        BY <2>2 DEF NextPolygonVertex, PreviousPolygonVertex
<1>5. QED
    BY <1>1, <1>3, <1>4 DEF EdgeCycle

-----------------------------------------------------------------------------
(* Edges whose vertices are renumbered. *)

ImageOfCycle(old2new, c) == {old2new[v] : v \in c}

\* The facets without a deleted vertex.
KeptCycles(s, old2new) ==
    {c \in DOMAIN s.indices : \A v \in c : old2new[v] # NoId}

\* The vertices that are kept get different indices, so that cycles do.
LEMMA ImagesOfCycles ==
    ASSUME NEW V, NEW old2new,
           \A u, v \in V :
                old2new[u] # NoId /\ old2new[u] = old2new[v] => u = v,
           NEW c, c \subseteq V, \A v \in c : old2new[v] # NoId,
           NEW d, d \subseteq V, \A v \in d : old2new[v] # NoId,
           ImageOfCycle(old2new, c) = ImageOfCycle(old2new, d)
    PROVE  c = d
<1>1. ASSUME NEW v \in c PROVE v \in d
    <2>1. old2new[v] \in ImageOfCycle(old2new, d)
        BY DEF ImageOfCycle
    <2>2. PICK w \in d : old2new[w] = old2new[v]
        BY <2>1 DEF ImageOfCycle
    <2>3. v = w
        BY <2>2
    <2>4. QED
        BY <2>3
<1>2. ASSUME NEW v \in d PROVE v \in c
    <2>1. old2new[v] \in ImageOfCycle(old2new, c)
        BY DEF ImageOfCycle
    <2>2. PICK w \in c : old2new[w] = old2new[v]
        BY <2>1 DEF ImageOfCycle
    <2>3. v = w
        BY <2>2
    <2>4. QED
        BY <2>3
<1>3. QED
    BY <1>1, <1>2

\* update_facet_vertices() keeps the counters of the facets that it keeps.
LEMMA FacetsAreRenumbered ==
    ASSUME NEW s, IsStorage(s), NEW V, NEW old2new,
           \A c \in DOMAIN s.indices : c \subseteq V,
           \A u, v \in V :
                old2new[u] # NoId /\ old2new[u] = old2new[v] => u = v
    PROVE  LET r == UpdateFacetVertices(s, old2new)
               kept == KeptCycles(s, old2new)
           IN  /\ IsStorage(r)
               /\ DOMAIN r.indices = {ImageOfCycle(old2new, c) : c \in kept}
               /\ \A c \in kept :
                    CountOf(r, ImageOfCycle(old2new, c)) = CountOf(s, c)
<1>1. PICK n \in Nat : HasFacets(s, n)
    BY DEF IsStorage
<1> DEFINE kept == KeptCycles(s, old2new)
           Updated(c) == {old2new[v] : v \in c}
           g == [c \in kept |-> ImageOfCycle(old2new, c)]
           D == {s.indices[c] : c \in DOMAIN s.indices \ kept}
           ids == MappingAfterDeletion(Size(s.indices), D)
           Renamed(id) == IF \E c \in kept : s.indices[c] = id
                          THEN Updated(CHOOSE c \in kept : s.indices[c] = id)
                          ELSE s.vertices[id]
           vertices == [id \in DOMAIN s.vertices |-> Renamed(id)]
           Index(u) == ids[s.indices[CHOOSE c \in kept : Updated(c) = u]]
           indices == [u \in {Updated(c) : c \in kept} |-> Index(u)]
           r == UpdateFacetVertices(s, old2new)
<1>2. r = [indices |-> indices, vertices |-> DeleteElements(vertices, D),
           counter |-> DeleteElements(s.counter, D)]
    BY DEF UpdateFacetVertices, KeptCycles
<1>3. /\ DOMAIN s.vertices = IndexRange(n)
      /\ \A c \in DOMAIN s.indices :
            s.indices[c] \in IndexRange(n) /\ s.vertices[s.indices[c]] = c
    BY <1>1 DEF HasFacets
<1>4. \A c, d \in DOMAIN s.indices : s.indices[c] = s.indices[d] => c = d
    BY <1>3
<1>5. \A c \in kept : /\ c \in DOMAIN s.indices
                      /\ c \subseteq V
                      /\ \A v \in c : old2new[v] # NoId
    BY DEF KeptCycles
<1>6. \A c : ImageOfCycle(old2new, c) = Updated(c)
    BY DEF ImageOfCycle
<1>7. ASSUME NEW c \in kept, NEW d \in kept, Updated(c) = Updated(d)
      PROVE  c = d
    <2>1. ImageOfCycle(old2new, c) = ImageOfCycle(old2new, d)
        BY <1>6, <1>7
    <2>2. /\ c \subseteq V /\ \A v \in c : old2new[v] # NoId
          /\ d \subseteq V /\ \A v \in d : old2new[v] # NoId
        BY <1>5
    <2> HIDE DEF kept, Updated
    <2>3. QED
        BY <2>1, <2>2, ImagesOfCycles
<1> HIDE DEF kept, Updated
<1>8. kept = {c \in DOMAIN s.indices : s.indices[c] \notin D}
    BY <1>4, <1>5
<1>9. \A c \in kept : vertices[s.indices[c]] = g[c]
    <2>1. TAKE c \in kept
    <2>2. c = CHOOSE d \in kept : s.indices[d] = s.indices[c]
        BY <1>4, <1>5
    <2>3. Renamed(s.indices[c]) = Updated(c)
        BY <2>2
    <2>4. s.indices[c] \in DOMAIN s.vertices
        BY <1>3, <1>5
    <2> HIDE DEF Renamed
    <2>5. QED
        BY <1>6, <2>3, <2>4
<1>10. DOMAIN vertices = IndexRange(n)
    BY <1>3
<1>11. DOMAIN indices = {g[c] : c \in kept}
    BY <1>6
<1>12. \A c \in kept : indices[g[c]] = ids[s.indices[c]]
    <2>1. TAKE c \in kept
    <2>2. c = CHOOSE d \in kept : Updated(d) = Updated(c)
        BY <1>7
    <2>3. Index(Updated(c)) = ids[s.indices[c]]
        BY <2>2
    <2> HIDE DEF Index
    <2>4. g[c] = Updated(c)
        BY <1>6
    <2>5. QED
        BY <2>3, <2>4
<1>13. \A c, d \in kept : g[c] = g[d] => c = d
    BY <1>6, <1>7
<1>14. ids = MappingAfterDeletion(n, D)
    BY <1>1, SizeOfStorage
<1> HIDE DEF r, indices, vertices, ids, D, g
<1>15. r.indices = indices
    BY <1>2
<1>16. HasKept(n, s, r, D, kept, g, vertices, ids)
    BY <1>2, <1>8, <1>9, <1>10, <1>11, <1>12, <1>13, <1>14, <1>15 DEF HasKept
<1>17. IsStorage(r) /\ \A c \in kept : CountOf(r, g[c]) = CountOf(s, c)
    BY <1>1, <1>16, FacetsAreKept
<1>18. \A c \in kept : g[c] = ImageOfCycle(old2new, c)
    BY DEF g
<1>19. DOMAIN r.indices = {ImageOfCycle(old2new, c) : c \in kept}
    BY <1>11, <1>15, <1>18
<1>20. QED
    BY <1>17, <1>18, <1>19 DEF r, kept

\* Vertices that are renumbered leave each edge its users.
LEMMA RenumberedVerticesKeepEdges ==
    ASSUME NEW m, IsSurface(m), HasEdges(m), NEW r, NEW old2new,
           AreRenumbered(m, r, old2new), KeepsVertices(m, r, old2new)
    PROVE  HasEdges(r)
<1> DEFINE PV == PolygonVertices(m)
           V == Vertices(m)
           s == m.edges
           e == UpdateFacetVertices(s, old2new)
           kept == KeptCycles(s, old2new)
           Image(c) == ImageOfCycle(old2new, c)
<1>1. HasPolygons(m) /\ HasSlots(m, r.polygons) /\ r.enabled = m.enabled
    BY DEF IsSurface, AreRenumbered
<1>2. CASE ~m.enabled
    <2>1. ~r.enabled /\ r.edges = EmptyStorage
        BY <1>2 DEF AreRenumbered, HasEdges
    <2>2. QED
        BY <2>1 DEF HasEdges
<1>3. CASE m.enabled
    <2>1. /\ IsStorage(s)
          /\ \A c \in DOMAIN s.indices : c \subseteq V
          /\ Counts(s, PV, CyclesOf(m))
        BY <1>3 DEF HasEdges
    <2>2. /\ \A v \in V : old2new[v] = NoId \/ old2new[v] \in Vertices(r)
          /\ \A u, v \in V :
                old2new[u] # NoId /\ old2new[u] = old2new[v] => u = v
          /\ \A x \in PV : old2new[VertexOf(m, x)] # NoId
        BY DEF KeepsVertices
    <2>3. /\ IsStorage(e)
          /\ DOMAIN e.indices = {Image(c) : c \in kept}
          /\ \A c \in kept : CountOf(e, Image(c)) = CountOf(s, c)
        BY <2>1, <2>2, FacetsAreRenumbered
    <2>4. r.enabled /\ r.edges = e
        BY <1>3 DEF AreRenumbered
    <2> HIDE DEF e
    <2>5. \A c \in kept : /\ c \in DOMAIN s.indices
                          /\ c \subseteq V
                          /\ \A v \in c : old2new[v] # NoId
        BY <2>1 DEF KeptCycles
    <2>6. ASSUME NEW c \in kept PROVE Image(c) \subseteq Vertices(r)
        BY <2>2, <2>5 DEF ImageOfCycle
    <2>7. ASSUME NEW c \in kept, NEW d \in kept, Image(c) = Image(d)
          PROVE  c = d
        <3>1. /\ c \subseteq V /\ \A v \in c : old2new[v] # NoId
              /\ d \subseteq V /\ \A v \in d : old2new[v] # NoId
            BY <2>5
        <3> HIDE DEF kept, V
        <3>2. QED
            BY <2>2, <2>7, <3>1, ImagesOfCycles
    <2>8. PolygonVertices(r) = PV
        BY <1>1, SameSlots
    <2>9. IsFiniteSet(PV)
        BY <1>1, CornersAreFinite
    <2>10. ASSUME NEW x \in PV
           PROVE  /\ CyclesOf(m)[x] \in kept
                  /\ CyclesOf(r)[x] = Image(CyclesOf(m)[x])
        <3> DEFINE c == CyclesOf(m)[x]
                   y == NextPolygonVertex(m, x)
        <3>1. y \in PV
            BY <1>1, StepsInPolygon
        <3>2. c = {VertexOf(m, x), VertexOf(m, y)}
            BY DEF CyclesOf, EdgeCycle
        <3>3. CyclesOf(r)[x] = {VertexOf(r, x), VertexOf(r, y)}
            BY <1>1, <2>8, SameSlots DEF CyclesOf
        <3>4. /\ VertexOf(r, x) = old2new[VertexOf(m, x)]
              /\ VertexOf(r, y) = old2new[VertexOf(m, y)]
            BY <3>1 DEF AreRenumbered
        <3>5. c \in DOMAIN s.indices
            <4>1. CASE c \notin DOMAIN s.indices
                <5>1. CountOf(s, c) = 0
                    BY <4>1 DEF CountOf
                <5>2. Cardinality(UsersOf(PV, CyclesOf(m), c)) = 0
                    BY <2>1, <5>1 DEF Counts
                <5>3. UsersOf(PV, CyclesOf(m), c) = {}
                    BY <2>9, <5>2, UsersAreFinite, FS_EmptySet
                <5>4. x \in UsersOf(PV, CyclesOf(m), c)
                    BY DEF UsersOf
                <5>5. QED
                    BY <5>3, <5>4
            <4>2. QED
                BY <4>1
        <3>6. \A v \in c : old2new[v] # NoId
            BY <2>2, <3>1, <3>2
        <3>7. c \in kept
            BY <3>5, <3>6 DEF KeptCycles
        <3>8. Image(c) = {old2new[VertexOf(m, x)], old2new[VertexOf(m, y)]}
            BY <3>2 DEF ImageOfCycle
        <3>9. QED
            BY <3>3, <3>4, <3>7, <3>8
    <2> HIDE DEF kept, Image
    <2>11. ASSUME NEW u
           PROVE  CountOf(e, u) = Cardinality(UsersOf(PV, CyclesOf(r), u))
        <3>1. CASE u \in DOMAIN e.indices
            <4>1. PICK c \in kept : u = Image(c)
                BY <2>3, <3>1
            <4>2. UsersOf(PV, CyclesOf(r), u) = UsersOf(PV, CyclesOf(m), c)
                <5>1. \A x \in PV : CyclesOf(r)[x] = u <=> CyclesOf(m)[x] = c
                    BY <2>7, <2>10, <4>1
                <5>2. QED
                    BY <5>1 DEF UsersOf
            <4>3. CountOf(e, u) = CountOf(s, c)
                BY <2>3, <4>1
            <4>4. CountOf(s, c) = Cardinality(UsersOf(PV, CyclesOf(m), c))
                BY <2>1 DEF Counts
            <4>5. QED
                BY <4>2, <4>3, <4>4
        <3>2. CASE u \notin DOMAIN e.indices
            <4>1. CountOf(e, u) = 0
                BY <3>2 DEF CountOf
            <4>2. \A x \in PV : CyclesOf(r)[x] # u
                BY <2>3, <2>10, <3>2
            <4>3. UsersOf(PV, CyclesOf(r), u) = {}
                BY <4>2 DEF UsersOf
            <4>4. QED
                BY <4>1, <4>3, FS_EmptySet
        <3>3. QED
            BY <3>1, <3>2
    <2>12. Counts(r.edges, PolygonVertices(r), CyclesOf(r))
        BY <2>4, <2>8, <2>11 DEF Counts
    <2>13. \A u \in DOMAIN r.edges.indices : u \subseteq Vertices(r)
        BY <2>3, <2>4, <2>6
    <2>14. QED
        BY <2>3, <2>4, <2>12, <2>13 DEF HasEdges
<1>4. QED
    BY <1>2, <1>3

\* delete_isolated_vertices()
LEMMA DeletedVerticesKeepEdges ==
    ASSUME NEW m, IsSurface(m), HasEdges(m)
    PROVE  HasEdges(DeleteSurfaceVertices(m, IsolatedPoints(m)))
<1> DEFINE r == DeleteSurfaceVertices(m, IsolatedPoints(m))
<1>1. \/ r = m
      \/ \E old2new : /\ AreRenumbered(m, r, old2new)
                      /\ KeepsVertices(m, r, old2new)
    BY DeletedVerticesKeepSurface
<1> HIDE DEF r
<1>2. HasEdges(r)
    BY <1>1, RenumberedVerticesKeepEdges
<1>3. QED
    BY <1>2 DEF r

\* permute_vertices()
LEMMA PermutedVerticesKeepEdges ==
    ASSUME NEW m, IsSurface(m), HasEdges(m), NEW permutation,
           permutation \in PermutationsOf(Vertices(m)),
           \A v \in IsolatedPoints(m) : permutation[v] = v
    PROVE  HasEdges(PermuteSurfaceVertices(m, permutation))
<1> DEFINE r == PermuteSurfaceVertices(m, permutation)
           old2new == Old2NewPermutation(permutation)
<1>1. AreRenumbered(m, r, old2new) /\ KeepsVertices(m, r, old2new)
    BY PermutedVerticesKeepSurface
<1> HIDE DEF r, old2new
<1>2. HasEdges(r)
    BY <1>1, RenumberedVerticesKeepEdges
<1>3. QED
    BY <1>2 DEF r

-----------------------------------------------------------------------------
(* Polygon vertices that move, with their two edges. *)

\* A mesh k on the way of polygon vertices of m: its edges are counted.
IsEdged(m, k) ==
    /\ HasFields(k)
    /\ HasSlots(m, k.polygons)
    /\ Vertices(k) = Vertices(m)
    /\ k.enabled = m.enabled
    /\ \A y \in PolygonVertices(m) : VertexOf(k, y) \in Vertices(m)
    /\ HasEdges(k)

\* Before the first one.
LEMMA NoneIsEdged ==
    ASSUME NEW m, IsSurface(m), HasEdges(m), NEW k, HasFields(k),
           k.polygons = m.polygons, Vertices(k) = Vertices(m),
           k.enabled = m.enabled, k.edges = m.edges
    PROVE  IsEdged(m, k)
<1>1. HasPolygons(m)
    BY DEF IsSurface
<1>2. HasSlots(m, m.polygons)
    <2>1. \A p \in Polygons(m) :
            m.polygons[p] = [i \in DOMAIN m.polygons[p] |-> m.polygons[p][i]]
        BY <1>1 DEF HasPolygons, IsPolygon
    <2>2. QED
        BY <1>1, <2>1 DEF HasSlots, HasPolygons
<1>3. \A y \in PolygonVertices(m) : VertexOf(k, y) \in Vertices(m)
    BY <1>1, VertexIsKnown DEF VertexOf
<1>4. HasEdges(k)
    BY SameEdges
<1>5. QED
    BY <1>2, <1>3, <1>4 DEF IsEdged

\* Vertices and lists that change leave the edges.
LEMMA SameEdged ==
    ASSUME NEW m, NEW k, IsEdged(m, k), NEW r, HasFields(r),
           r.polygons = k.polygons, Vertices(r) = Vertices(k),
           r.enabled = k.enabled, r.edges = k.edges
    PROVE  IsEdged(m, r)
<1>1. HasEdges(r)
    BY SameEdges DEF IsEdged
<1>2. QED
    BY <1>1 DEF IsEdged, VertexOf

\* update_edge() of a polygon vertex that moves.
LEMMA MoveKeepsEdges ==
    ASSUME NEW m, HasPolygons(m), NEW k, IsEdged(m, k),
           NEW x \in PolygonVertices(m), NEW old, old = VertexOf(k, x),
           NEW new \in Vertices(m), NEW r, HasFields(r),
           r.polygons = WithSlot(k.polygons, x, new),
           Vertices(r) = Vertices(k), r.enabled = k.enabled,
           r.edges = UpdateEdge(k, x, old, new).edges
    PROVE  /\ IsEdged(m, r)
           /\ \A y \in PolygonVertices(m) :
                VertexOf(r, y) = IF y = x THEN new ELSE VertexOf(k, y)
<1> DEFINE PV == PolygonVertices(m)
           V == Vertices(m)
           X(y) == NextPolygonVertex(m, y)
           prev == PreviousPolygonVertex(m, x)
           a == VertexOf(k, X(x))
           b == VertexOf(k, prev)
           s == k.edges
           t == UpdateFacetVertex(s, {old, a}, {new, a})
           u == UpdateFacetVertex(t, {b, old}, {b, new})
<1>1. /\ HasFields(k)
      /\ HasSlots(m, k.polygons)
      /\ Vertices(k) = V
      /\ k.enabled = m.enabled
      /\ \A y \in PV : VertexOf(k, y) \in V
      /\ HasEdges(k)
    BY DEF IsEdged
<1>2. /\ HasSlots(m, r.polygons)
      /\ \A y \in PV : VertexOf(r, y) = IF y = x THEN new ELSE VertexOf(k, y)
    <2> DEFINE f == k.polygons
               g == r.polygons
    <2>1. g = WithSlot(f, x, new)
        OBVIOUS
    <2> HIDE DEF f, g
    <2>2. /\ HasSlots(m, g)
          /\ \A y \in PV : g[y[1]][y[2]] = IF y = x THEN new
                                           ELSE f[y[1]][y[2]]
        BY <1>1, <2>1, SlotIsSet DEF f
    <2>3. QED
        BY <2>2 DEF f, g, VertexOf
<1>3. \A y \in PV : VertexOf(r, y) \in V
    BY <1>1, <1>2
<1>4. /\ PolygonVertices(k) = PV
      /\ NextPolygonVertex(k, x) = X(x)
      /\ PreviousPolygonVertex(k, x) = prev
      /\ \A y \in PV : EdgeCycle(k, y) = {VertexOf(k, y), VertexOf(k, X(y))}
    BY <1>1, SameSlots
<1>5. /\ PolygonVertices(r) = PV
      /\ \A y \in PV : EdgeCycle(r, y) = {VertexOf(r, y), VertexOf(r, X(y))}
    BY <1>2, SameSlots
<1>6. /\ X(x) \in PV /\ X(x) # x
      /\ prev \in PV /\ prev # x /\ X(prev) = x
    BY StepsInPolygon
<1>7. \A y \in PV : X(y) \in PV /\ (X(y) = x => y = prev)
    BY StepsInPolygon
<1>8. CASE ~k.enabled
    <2>1. UpdateEdge(k, x, old, new) = k
        BY <1>8 DEF UpdateEdge
    <2>2. ~r.enabled /\ r.edges = EmptyStorage
        BY <1>1, <1>8, <2>1 DEF HasEdges
    <2>3. HasEdges(r)
        BY <2>2 DEF HasEdges
    <2>4. IsEdged(m, r)
        BY <1>1, <1>2, <1>3, <2>3 DEF IsEdged
    <2>5. QED
        BY <1>2, <2>4
<1>9. CASE k.enabled
    <2>1. r.edges = u
        <3>1. UpdateEdge(k, x, old, new) = [k EXCEPT !.edges = u]
            BY <1>4, <1>9 DEF UpdateEdge
        <3> HIDE DEF u
        <3>2. QED
            BY <1>1, <3>1 DEF HasFields
    <2> DEFINE g == CyclesOf(k)
               h == [y \in PV |-> IF y = x THEN {new, a} ELSE g[y]]
               i == CyclesOf(r)
    <2>2. /\ IsStorage(s)
          /\ \A c \in DOMAIN s.indices : c \subseteq V
          /\ Counts(s, PV, g)
        BY <1>1, <1>4, <1>9 DEF HasEdges
    <2>3. IsFiniteSet(PV)
        BY CornersAreFinite
    <2>4. /\ g[x] = {old, a} /\ h[x] = {new, a}
          /\ \A y \in PV \ {x} : h[y] = g[y]
        BY <1>4 DEF CyclesOf
    <2>5. h[prev] = {b, old} /\ i[prev] = {b, new}
        BY <1>2, <1>4, <1>5, <1>6 DEF CyclesOf
    <2>6. \A y \in PV \ {prev} : i[y] = h[y]
        <3>1. i[x] = {new, a}
            BY <1>2, <1>5, <1>6 DEF CyclesOf
        <3>2. ASSUME NEW y \in PV \ {prev, x} PROVE i[y] = g[y]
            BY <1>2, <1>4, <1>5, <1>7 DEF CyclesOf
        <3> HIDE DEF i, g
        <3>3. QED
            BY <2>4, <3>1, <3>2
    <2> HIDE DEF g, h, i, PV, a, b, prev
    <2>7. /\ IsStorage(t)
          /\ DOMAIN t.indices = DOMAIN s.indices \cup {{new, a}}
          /\ Counts(t, PV, h)
        <3>1. LET z == UpdateFacetVertex(s, g[x], h[x])
              IN  /\ IsStorage(z)
                  /\ DOMAIN z.indices = DOMAIN s.indices \cup {h[x]}
                  /\ Counts(z, PV, h)
            BY <2>2, <2>3, <2>4, OneElseIsCounted DEF PV
        <3>2. QED
            BY <2>4, <3>1
    <2> HIDE DEF t
    <2>8. /\ IsStorage(u)
          /\ DOMAIN u.indices = DOMAIN t.indices \cup {{b, new}}
          /\ Counts(u, PV, i)
        <3>1. LET z == UpdateFacetVertex(t, h[prev], i[prev])
              IN  /\ IsStorage(z)
                  /\ DOMAIN z.indices = DOMAIN t.indices \cup {i[prev]}
                  /\ Counts(z, PV, i)
            BY <1>6, <2>3, <2>6, <2>7, OneElseIsCounted
        <3>2. QED
            BY <2>5, <3>1
    <2> HIDE DEF u
    <2>9. a \in V /\ b \in V
        BY <1>1, <1>6 DEF a, b
    <2>10. \A c \in DOMAIN u.indices : c \subseteq V
        BY <2>2, <2>7, <2>8, <2>9
    <2>11. HasEdges(r)
        BY <1>1, <1>5, <1>9, <2>1, <2>8, <2>10 DEF HasEdges, i
    <2>12. IsEdged(m, r)
        BY <1>1, <1>2, <1>3, <2>11 DEF IsEdged, PV
    <2>13. QED
        BY <1>2, <2>12 DEF PV
<1>10. QED
    BY <1>8, <1>9

\* One turn of a loop that moves polygon vertices.
LEMMA MovedIsEdged ==
    ASSUME NEW m, HasPolygons(m), NEW k, IsEdged(m, k),
           NEW x \in PolygonVertices(m), NEW old, old = VertexOf(k, x),
           NEW new \in Vertices(m)
    PROVE  LET r == MovePolygonVertex(k, x, old, new)
           IN  /\ IsEdged(m, r)
               /\ \A y \in PolygonVertices(m) :
                    VertexOf(r, y) = IF y = x THEN new ELSE VertexOf(k, y)
<1> DEFINE r == MovePolygonVertex(k, x, old, new)
<1>1. HasFields(k)
    BY DEF IsEdged
<1>2. IsMove(k, r, x, new) /\ r.edges = UpdateEdge(k, x, old, new).edges
    BY <1>1, VertexIsMovedWithEdges
<1> HIDE DEF r
<1>3. DOMAIN r.around = DOMAIN k.around
    BY <1>2 DEF IsMove
<1>4. Vertices(r) = Vertices(k)
    BY <1>3 DEF Vertices
<1>5. /\ IsEdged(m, r)
      /\ \A y \in PolygonVertices(m) :
            VertexOf(r, y) = IF y = x THEN new ELSE VertexOf(k, y)
    <2>1. /\ HasFields(r)
          /\ r.polygons = WithSlot(k.polygons, x, new)
          /\ r.enabled = k.enabled
        BY <1>2 DEF IsMove
    <2>2. QED
        BY <1>2, <1>4, <2>1, MoveKeepsEdges
<1>6. QED
    BY <1>5 DEF r

\* The loop of replace_vertex(), of polygon vertices of the same vertex.
LEMMA MovedAreEdged ==
    ASSUME NEW m, HasPolygons(m), NEW base, IsEdged(m, base), NEW old,
           NEW new \in Vertices(m),
           NEW corners \in Seq(PolygonVertices(m)), NoRepeat(corners),
           \A n \in DOMAIN corners : VertexOf(base, corners[n]) = old
    PROVE  IsEdged(m, MovePolygonVertices(base, corners, old, new))
<1> DEFINE N == Len(corners)
           PV == PolygonVertices(m)
           Good(r, n) ==
                /\ IsEdged(m, r)
                /\ \A y \in PV \ FirstOnes(corners, n) :
                        VertexOf(r, y) = VertexOf(base, y)
<1>1. N \in Nat /\ DOMAIN corners = 1 .. N
    OBVIOUS
<1>2. PICK f : /\ f[0] = base
               /\ \A n \in 1 .. N :
                    f[n] = MovePolygonVertex(f[n - 1], corners[n], old, new)
               /\ MovePolygonVertices(base, corners, old, new) = f[N]
    BY TurnsOfMovePolygonVertices
<1>3. Good(f[0], 0)
    BY <1>2
<1>4. ASSUME NEW n \in Nat, n < N, Good(f[n], n)
      PROVE  Good(f[n + 1], n + 1)
    <2> DEFINE k == f[n]
               r == f[n + 1]
               x == corners[n + 1]
               done == FirstOnes(corners, n)
    <2>1. n + 1 \in 1 .. N /\ (n + 1) - 1 = n
        BY <1>4
    <2>2. r = MovePolygonVertex(k, x, old, new)
        BY <1>2, <2>1
    <2>3. /\ x \in PV /\ x \notin done
          /\ FirstOnes(corners, n + 1) = done \cup {x}
        BY <1>4, OneMoreIsFirst
    <2>4. VertexOf(base, x) = old
        BY <1>1, <2>1
    <2>5. /\ IsEdged(m, k)
          /\ \A y \in PV \ done : VertexOf(k, y) = VertexOf(base, y)
        BY <1>4
    <2> HIDE DEF k, r, x, done
    <2>6. /\ IsEdged(m, r)
          /\ \A y \in PV : VertexOf(r, y) = IF y = x THEN new
                                            ELSE VertexOf(k, y)
        BY <2>2, <2>3, <2>4, <2>5, MovedIsEdged
    <2>7. \A y \in PV \ (done \cup {x}) : VertexOf(r, y) = VertexOf(base, y)
        BY <2>5, <2>6
    <2>8. QED
        BY <2>3, <2>6, <2>7 DEF r
<1> HIDE DEF Good
<1> DEFINE S == {n \in Nat : Good(f[n], n)}
<1>5. \A n \in 0 .. N : n \in S
    <2>1. 0 \in S
        BY <1>3
    <2>2. \A n \in Nat : n < N /\ n \in S => n + 1 \in S
        BY <1>4
    <2> HIDE DEF S
    <2>3. QED
        BY <1>1, <2>1, <2>2, TurnInduction
<1>6. Good(f[N], N)
    BY <1>1, <1>5
<1>7. QED
    BY <1>2, <1>6 DEF Good

\* A vertex that its polygon vertex leaves keeps its edges.
LEMMA LeftIsEdged ==
    ASSUME NEW m, NEW k, IsEdged(m, k), NEW old
    PROVE  LET r == ResetAround(
                        AssociatePolygonVertex(k, NoPolygonVertex, old), {old})
           IN  /\ IsEdged(m, r)
               /\ \A y : VertexOf(r, y) = VertexOf(k, y)
<1> DEFINE r == ResetAround(
                    AssociatePolygonVertex(k, NoPolygonVertex, old), {old})
<1>1. IsLeft(k, r, old)
    BY OneIsLeft DEF IsEdged
<1> HIDE DEF r
<1>2. Vertices(r) = Vertices(k)
    BY <1>1 DEF IsLeft, Vertices
<1>3. IsEdged(m, r)
    BY <1>1, <1>2, SameEdged DEF IsLeft
<1>4. \A y : VertexOf(r, y) = VertexOf(k, y)
    BY <1>1 DEF IsLeft, VertexOf
<1>5. QED
    BY <1>3, <1>4 DEF r

\* The loop of replace_vertices().
LEMMA ReplacedAreEdged ==
    ASSUME NEW m, HasPolygons(m), IsEdged(m, m), NEW mapping,
           \A v \in DOMAIN mapping : mapping[v] \in Vertices(m),
           NEW corners \in Seq(PolygonVertices(m))
    PROVE  IsEdged(m, ReplaceVerticesOf(m, mapping, corners))
<1> DEFINE N == Len(corners)
           Good(r) == IsEdged(m, r)
<1>1. N \in Nat
    OBVIOUS
<1>2. PICK f : /\ f[0] = m
               /\ \A n \in 1 .. N :
                    f[n] = ReplaceVertexOf(f[n - 1], mapping, corners[n])
               /\ ReplaceVerticesOf(m, mapping, corners) = f[N]
    BY TurnsOfReplaceVerticesOf
<1>3. Good(f[0])
    BY <1>2
<1>4. ASSUME NEW n \in Nat, n < N, Good(f[n])
      PROVE  Good(f[n + 1])
    <2> DEFINE k == f[n]
               r == f[n + 1]
               x == corners[n + 1]
               old == VertexOf(k, x)
               b == ResetAround(
                        AssociatePolygonVertex(k, NoPolygonVertex, old), {old})
    <2>1. n + 1 \in 1 .. N /\ (n + 1) - 1 = n
        BY <1>4
    <2>2. r = ReplaceVertexOf(k, mapping, x)
        BY <1>2, <2>1
    <2>3. x \in PolygonVertices(m)
        BY <2>1
    <2>4. IsEdged(m, k)
        BY <1>4
    <2>5. r = k \/ (/\ old \in DOMAIN mapping
                    /\ r = MovePolygonVertex(b, x, old, mapping[old]))
        BY <2>2 DEF ReplaceVertexOf
    <2> HIDE DEF k, r, x
    <2>6. /\ IsEdged(m, b)
          /\ VertexOf(b, x) = old
        <3> HIDE DEF old
        <3>1. QED
            BY <2>4, LeftIsEdged DEF old
    <2> HIDE DEF b, old
    <2>7. IsEdged(m, r)
        <3>1. CASE r = k
            BY <2>4, <3>1
        <3>2. CASE r # k
            <4> DEFINE new == mapping[old]
            <4>1. new \in Vertices(m) /\ r = MovePolygonVertex(b, x, old, new)
                BY <2>5, <3>2
            <4> HIDE DEF new
            <4>2. QED
                BY <2>3, <2>6, <4>1, MovedIsEdged
        <3>3. QED
            BY <3>1, <3>2
    <2>8. QED
        BY <2>7 DEF r
<1> HIDE DEF Good
<1> DEFINE S == {n \in Nat : Good(f[n])}
<1>5. \A n \in 0 .. N : n \in S
    <2>1. 0 \in S
        BY <1>3
    <2>2. \A n \in Nat : n < N /\ n \in S => n + 1 \in S
        BY <1>4
    <2> HIDE DEF S
    <2>3. QED
        BY <1>1, <2>1, <2>2, TurnInduction
<1>6. Good(f[N])
    BY <1>1, <1>5
<1>7. QED
    BY <1>2, <1>6 DEF Good

\* replace_vertices()
LEMMA ReplacedVerticesKeepEdges ==
    ASSUME NEW m, IsSurface(m), HasEdges(m), NEW mapping,
           \A v \in DOMAIN mapping : mapping[v] \in Vertices(m)
    PROVE  HasEdges(ReplaceVertices(m, mapping))
<1>1. HasPolygons(m) /\ HasFields(m)
    BY DEF IsSurface
<1>2. IsEdged(m, m)
    BY <1>1, NoneIsEdged
<1>3. PolygonVertexList(m) \in Seq(PolygonVertices(m))
    BY <1>1, CornersListed
<1> DEFINE list == PolygonVertexList(m)
<1> HIDE DEF list
<1>4. IsEdged(m, ReplaceVerticesOf(m, mapping, list))
    BY <1>1, <1>2, <1>3, ReplacedAreEdged DEF list
<1>5. QED
    BY <1>4 DEF ReplaceVertices, IsEdged, list

\* replace_vertex()
LEMMA ReplacedVertexKeepsEdges ==
    ASSUME NEW m, IsSurface(m), HasEdges(m), NEW old \in Vertices(m),
           NEW new \in Vertices(m)
    PROVE  HasEdges(ReplaceSurfaceVertex(m, old, new))
<1> DEFINE a == AssociatePolygonVertex(m, NoPolygonVertex, old)
           list == PolygonsAroundVertex(m, old)
           b == MovePolygonVertices(a, list, old, new)
           r == ResetAround(b, {old})
<1>1. HasPolygons(m) /\ HasFields(m)
    BY DEF IsSurface
<1>2. ReplaceSurfaceVertex(m, old, new) = IF old = new THEN m ELSE r
    BY DEF ReplaceSurfaceVertex
<1>3. /\ list \in Seq(CornersAt(m, old))
      /\ NoRepeat(list)
    BY UpdatedIsListAround DEF PolygonsAroundVertex, IsListAround
<1> HIDE DEF list
<1>4. /\ list \in Seq(PolygonVertices(m))
      /\ \A n \in DOMAIN list : VertexOf(m, list[n]) = old
    <2>1. CornersAt(m, old) \subseteq PolygonVertices(m)
        BY DEF CornersAt
    <2>2. list \in Seq(PolygonVertices(m))
        BY <1>3, <2>1
    <2>3. \A n \in DOMAIN list : list[n] \in CornersAt(m, old)
        BY <1>3
    <2>4. QED
        BY <2>2, <2>3 DEF CornersAt
<1>5. /\ HasFields(a)
      /\ a.polygons = m.polygons
      /\ a.around = [m.around EXCEPT ![old] = NoPolygonVertex]
      /\ a.enabled = m.enabled
      /\ a.edges = m.edges
    BY <1>1, AssociateFields
<1> HIDE DEF a
<1>6. Vertices(a) = Vertices(m)
    BY <1>5 DEF Vertices
<1>7. IsEdged(m, a)
    BY <1>5, <1>6, NoneIsEdged
<1>8. \A n \in DOMAIN list : VertexOf(a, list[n]) = old
    BY <1>4, <1>5 DEF VertexOf
<1>9. IsEdged(m, b)
    BY <1>1, <1>3, <1>4, <1>7, <1>8, MovedAreEdged
<1> HIDE DEF b
<1>10. HasFields(b)
    BY <1>9 DEF IsEdged
<1>11. /\ HasFields(r)
       /\ r.polygons = b.polygons
       /\ r.around = b.around
       /\ r.enabled = b.enabled
       /\ r.edges = b.edges
    BY <1>10, ResetFields
<1> HIDE DEF r
<1>12. IsEdged(m, r)
    BY <1>9, <1>11, SameEdged DEF Vertices
<1>13. QED
    BY <1>2, <1>12 DEF IsEdged

\* set_polygon_vertex()
LEMMA SetKeepsEdges ==
    ASSUME NEW m, IsSurface(m), HasEdges(m), NEW x \in PolygonVertices(m),
           NEW new \in Vertices(m)
    PROVE  HasEdges(SetPolygonVertex(m, x, new))
<1> DEFINE old == VertexOf(m, x)
           list == PolygonsAroundVertex(m, old)
           left == IF m.around[old] = x THEN LeaveVertex(m, old, new, list)
                   ELSE m
           b == ResetAround(left, {old})
           r == MovePolygonVertex(b, x, old, new)
<1>1. HasPolygons(m) /\ HasFields(m)
    BY DEF IsSurface
<1>2. SetPolygonVertex(m, x, new) = IF old = new THEN m ELSE r
    BY DEF SetPolygonVertex
<1>3. /\ HasFields(left)
      /\ left.polygons = m.polygons
      /\ DOMAIN left.around = DOMAIN m.around
      /\ left.enabled = m.enabled
      /\ left.edges = m.edges
    <2> DEFINE w == AssociatePolygonVertex(m, NoPolygonVertex, old)
               z == AssociatePolygonVertex(m, list[2], new)
    <2>1. left \in {m, w, z}
        BY DEF LeaveVertex
    <2>2. /\ HasFields(w) /\ w.polygons = m.polygons
          /\ w.around = [m.around EXCEPT ![old] = NoPolygonVertex]
          /\ w.enabled = m.enabled /\ w.edges = m.edges
        BY <1>1, AssociateFields
    <2>3. /\ HasFields(z) /\ z.polygons = m.polygons
          /\ z.around = [m.around EXCEPT ![new] = list[2]]
          /\ z.enabled = m.enabled /\ z.edges = m.edges
        BY <1>1, AssociateFields
    <2> HIDE DEF w, z, left
    <2>4. QED
        BY <1>1, <2>1, <2>2, <2>3
<1> HIDE DEF left, old
<1>4. /\ HasFields(b)
      /\ b.polygons = left.polygons
      /\ b.around = left.around
      /\ b.enabled = left.enabled
      /\ b.edges = left.edges
    BY <1>3, ResetFields
<1> HIDE DEF b
<1>5. IsEdged(m, b)
    BY <1>3, <1>4, NoneIsEdged DEF Vertices
<1>6. VertexOf(b, x) = old
    BY <1>3, <1>4 DEF VertexOf, old
<1>7. IsEdged(m, r)
    BY <1>1, <1>5, <1>6, MovedIsEdged
<1> HIDE DEF r
<1>8. QED
    BY <1>2, <1>7 DEF IsEdged

-----------------------------------------------------------------------------
(* Every operation keeps the edges of a surface. *)

\* No step of a surface makes its edges disagree with its polygons.
LEMMA StepKeepsEdges ==
    ASSUME IsSurface(mesh), HasEdges(mesh), SurfaceNext
    PROVE  HasEdges(mesh)'
<1> DEFINE m == mesh
<1>1. HasPolygons(m) /\ Vertices(m) = IndexRange(Size(m.around))
    BY DEF IsSurface, HasPolygons
<1>2. CASE RunCreatePoint
    BY <1>2, PointKeepsEdges DEF RunCreatePoint
<1>3. CASE RunCreatePolygon
    <2>1. PICK vertices \in NewPolygons :
            /\ \A i \in DOMAIN vertices : vertices[i] \in Vertices(m)
            /\ mesh' = CreatePolygon(m, vertices)
        BY <1>3 DEF RunCreatePolygon
    <2>2. IsPolygon(vertices, Size(m.around))
        BY <1>1, <2>1, NewPolygonIsPolygon
    <2>3. QED
        BY <2>1, <2>2, PolygonKeepsEdges
<1>4. CASE \E S \in SUBSET Polygons(m) : RunComputePolygonAdjacencies(S)
    BY <1>4, ComputeKeepsEdges DEF RunComputePolygonAdjacencies
<1>5. CASE RunUnsetPolygonAdjacents
    BY <1>5, UnsetKeepsEdges DEF RunUnsetPolygonAdjacents
<1>6. CASE RunDeletePolygons
    <2>1. PICK D \in SUBSET Polygons(m) :
            /\ \A v \in Vertices(m) : m.around[v][1] \in D =>
                \/ IsManifold(m, v)
                \/ \E x \in ToSet(PolygonsAroundVertex(m, v)) : x[1] \notin D
            /\ mesh' = DeletePolygons(m, D)
        BY <1>6 DEF RunDeletePolygons
    <2>2. QED
        BY <2>1, DeletedPolygonsKeepEdges
<1>7. CASE RunPermutePolygons
    BY <1>7, PermutedPolygonsKeepEdges DEF RunPermutePolygons
<1>8. CASE RunDeleteIsolatedVertices
    BY <1>8, DeletedVerticesKeepEdges DEF RunDeleteIsolatedVertices
<1>9. CASE RunPermuteVertices
    <2>1. PICK p \in VertexPermutations :
            /\ DOMAIN p = Vertices(m)
            /\ \A v \in IsolatedPoints(m) : p[v] = v
            /\ mesh' = PermuteSurfaceVertices(m, p)
        BY <1>9 DEF RunPermuteVertices
    <2>2. p \in PermutationsOf(IndexRange(Size(p)))
        BY BoundsAssumption
    <2>3. DOMAIN p = IndexRange(Size(p))
        BY <2>2 DEF PermutationsOf
    <2>4. p \in PermutationsOf(Vertices(m))
        BY <2>1, <2>2, <2>3
    <2>5. QED
        BY <2>1, <2>4, PermutedVerticesKeepEdges
<1>10. CASE \E x \in PolygonVertices(m), new \in Vertices(m) :
                RunSetPolygonVertex(x, new)
    BY <1>10, SetKeepsEdges DEF RunSetPolygonVertex
<1>11. CASE RunReplaceVertex
    BY <1>11, ReplacedVertexKeepsEdges DEF RunReplaceVertex
<1>12. CASE RunReplaceVertices
    <2>1. PICK mapping \in Mappings :
            /\ DOMAIN mapping \cup Range(mapping) \subseteq Vertices(m)
            /\ mesh' = ReplaceVertices(m, mapping)
        BY <1>12 DEF RunReplaceVertices
    <2>2. \A v \in DOMAIN mapping : mapping[v] \in Vertices(m)
        BY <2>1 DEF Range
    <2>3. QED
        BY <2>1, <2>2, ReplacedVerticesKeepEdges
<1>13. CASE RunEnableEdges
    BY <1>13, EnabledHasEdges DEF RunEnableEdges
<1>14. CASE RunDisableEdges
    BY <1>14, EnabledHasEdges DEF RunDisableEdges
<1>15. CASE RunDeleteIsolatedEdges
    BY <1>15, CleanKeepsEdges DEF RunDeleteIsolatedEdges
<1>16. CASE RunCopy
    BY <1>16, CopyKeepsEdges DEF RunCopy
<1>17. CASE RunQueryPolygonsAround
    BY <1>17, QueryKeepsEdges DEF RunQueryPolygonsAround
<1>18. QED
    BY <1>2, <1>3, <1>4, <1>5, <1>6, <1>7, <1>8, <1>9, <1>10, <1>11, <1>12,
       <1>13, <1>14, <1>15, <1>16, <1>17 DEF SurfaceNext

\* The edges of a surface are counted in every state.
LEMMA EdgesStayCounted == SurfaceSpec => []HasEdges(mesh)
<1>1. SurfaceInit => HasEdges(mesh)
    <2>1. SUFFICES ASSUME SurfaceInit PROVE HasEdges(mesh)
        OBVIOUS
    <2>2. mesh.enabled = FALSE /\ mesh.edges = EmptyStorage
        BY <2>1 DEF SurfaceInit, EmptyMesh
    <2>3. QED
        BY <2>2 DEF HasEdges
<1>2. IsSurface(mesh) /\ HasEdges(mesh) /\ [SurfaceNext]_mesh
        => HasEdges(mesh)'
    <2>1. SUFFICES ASSUME IsSurface(mesh), HasEdges(mesh),
                          [SurfaceNext]_mesh
                   PROVE  HasEdges(mesh)'
        OBVIOUS
    <2>2. CASE SurfaceNext
        BY <2>1, <2>2, StepKeepsEdges
    <2>3. CASE UNCHANGED mesh
        BY <2>1, <2>3
    <2>4. QED
        BY <2>1, <2>2, <2>3
<1>3. QED
    BY <1>1, <1>2, SurfacesStaySurfaces, PTL DEF SurfaceSpec

\* Whatever is done to a surface, each of its edges, when they are enabled, is
\* counted once for every polygon edge with its two vertices.
THEOREM EdgesCountTheirPolygons == SurfaceSpec => []EdgesCountPolygonEdges
<1>1. IsSurface(mesh) /\ HasEdges(mesh) => EdgesCountPolygonEdges
    <2>1. SUFFICES ASSUME IsSurface(mesh), HasEdges(mesh), mesh.enabled,
                          NEW u, NEW v
                   PROVE  CountsEdge(mesh, {u, v})
        BY DEF EdgesCountPolygonEdges
    <2>2. HasPolygons(mesh)
        BY <2>1 DEF IsSurface
    <2>3. \A cycle : CountsEdge(mesh, cycle)
        BY <2>1, <2>2, EdgesAreCounted
    <2>4. QED
        BY <2>3
<1>2. QED
    BY <1>1, SurfacesStaySurfaces, EdgesStayCounted, PTL

\* Each index that a surface stores is one of its elements.
LEMMA SurfaceIsTyped ==
    ASSUME IsSurface(mesh), HasEdges(mesh)
    PROVE  SurfaceTypeOK
<1>1. /\ HasPolygons(mesh) /\ HasAdjacencies(mesh) /\ HasAround(mesh)
      /\ HasLists(mesh) /\ mesh.enabled \in BOOLEAN
    BY DEF IsSurface
<1>2. /\ Polygons(mesh) = IndexRange(Size(mesh.polygons))
      /\ Vertices(mesh) = IndexRange(Size(mesh.around))
      /\ DOMAIN mesh.cached = Vertices(mesh)
    BY <1>1 DEF HasPolygons, HasLists
<1>3. DOMAIN mesh.adjacent = Polygons(mesh)
    <2>1. mesh.adjacent = [p \in Polygons(mesh) |-> mesh.adjacent[p]]
        BY <1>1 DEF HasAdjacencies, HasPlaces
    <2>2. DOMAIN [p \in Polygons(mesh) |-> mesh.adjacent[p]] = Polygons(mesh)
        OBVIOUS
    <2>3. QED
        BY <2>1, <2>2, Zenon
<1>4. ASSUME NEW x \in PolygonVertices(mesh)
      PROVE  /\ VertexOf(mesh, x) \in Vertices(mesh)
             /\ AdjacentOf(mesh, x) \in Polygons(mesh) \cup {NoId}
    <2>1. VertexOf(mesh, x) \in Vertices(mesh)
        BY <1>1, VertexIsKnown
    <2>2. CASE IsOnBorder(mesh, x)
        BY <2>1, <2>2 DEF IsOnBorder
    <2>3. CASE ~IsOnBorder(mesh, x)
        <3>1. PICK y : IsAcross(mesh, x, y)
            BY <1>1, <2>3 DEF HasAdjacencies
        <3>2. AdjacentOf(mesh, x) \in Polygons(mesh)
            BY <1>1, <3>1, AcrossIsFound
        <3>3. QED
            BY <2>1, <3>2
    <2>4. QED
        BY <2>2, <2>3
<1>5. ASSUME NEW v \in Vertices(mesh)
      PROVE  /\ mesh.around[v] \in PolygonVertices(mesh) \cup {NoPolygonVertex}
             /\ mesh.cached[v].computed \in BOOLEAN
    <2>1. CornersAt(mesh, v) \subseteq PolygonVertices(mesh)
        BY DEF CornersAt
    <2>2. FindsPolygonAround(mesh, v)
        BY <1>1 DEF HasAround
    <2>3. mesh.around[v] \in PolygonVertices(mesh) \cup {NoPolygonVertex}
        BY <2>1, <2>2 DEF FindsPolygonAround
    <2>4. mesh.cached[v].computed \in BOOLEAN
        BY <1>1 DEF HasLists, IsCached
    <2>5. QED
        BY <2>3, <2>4
<1>6. IsConsistent(mesh.edges)
    BY <1>1, EdgesAreCounted
<1>7. QED
    BY <1>1, <1>2, <1>3, <1>4, <1>5, <1>6 DEF SurfaceTypeOK

\* Whatever is done to a surface, its vectors have the sizes of what they are
\* about, and the polygon stored for a vertex is one of its polygons, or none
\* when it has none.
THEOREM VerticesFindTheirPolygons == SurfaceSpec => []AroundMatchesPolygons
<1>1. IsSurface(mesh) /\ HasEdges(mesh) => AroundMatchesPolygons
    BY SurfaceIsTyped DEF AroundMatchesPolygons, IsSurface, HasAround
<1>2. QED
    BY <1>1, SurfacesStaySurfaces, EdgesStayCounted, PTL

-----------------------------------------------------------------------------
(* Lists that are computed on demand: CachedValue. *)

Computing == {"compute", "assign", "publish"}

\* The results that may be cached in the present state of the source.
Current == {Result(source, a) : a \in Arguments}

\* The strengthening of the properties that is inductive.
Inv ==
    /\ TypeOK
    /\ \A t \in Threads : pc[t] \in Inside => mutex = t
    /\ \A t \in Threads : pc[t] \in Computing => ~ computed
    /\ \A t \in Threads : pc[t] = "publish" => value \in Current
    /\ \A t \in Threads : pc[t] \in {"unlock", "reading"} => computed
    /\ computed => value \in Current

-----------------------------------------------------------------------------
\* The program starts in the invariant.
LEMMA InitInv == Init => Inv
<1> SUFFICES ASSUME Init PROVE Inv
    OBVIOUS
<1>1. TypeOK
    BY DEF Init, TypeOK
<1>2. ~ computed /\ \A t \in Threads : pc[t] = "idle"
    BY DEF Init
<1>3. QED
    BY <1>1, <1>2 DEF Inv, Inside, Computing

\* What a thread computes is a result in the present state of the source.
LEMMA ExpectedIsCurrent ==
    ASSUME TypeOK, NEW t \in Threads
    PROVE  Expected(t) \in Current /\ Expected(t) \in Values
BY DEF TypeOK, Expected, Current, Values

\* Every step keeps the invariant.
LEMMA NextInv == Inv /\ [Next]_vars => Inv'
<1> SUFFICES ASSUME Inv, [Next]_vars PROVE Inv'
    OBVIOUS
<1> USE ThreadAssumption DEF Inside, Computing
<1>0. TypeOK
    BY DEF Inv
<1>1. CASE Change
    BY <1>0, <1>1 DEF Change, Inv, TypeOK, Current
<1>2. ASSUME NEW t \in Threads, Call(t) PROVE Inv'
    BY <1>0, <1>2 DEF Call, Goto, Inv, TypeOK, Current, Values
<1>3. ASSUME NEW t \in Threads, Test(t) PROVE Inv'
    BY <1>0, <1>3 DEF Test, Goto, Inv, TypeOK, Current, Values
<1>4. ASSUME NEW t \in Threads, Lock(t) PROVE Inv'
    BY <1>0, <1>4 DEF Lock, Goto, Inv, TypeOK, Current, Values
<1>5. ASSUME NEW t \in Threads, Recheck(t) PROVE Inv'
    BY <1>0, <1>5 DEF Recheck, Goto, Inv, TypeOK, Current, Values
<1>6. ASSUME NEW t \in Threads, Compute(t) PROVE Inv'
    BY <1>0, <1>6 DEF Compute, Goto, Inv, TypeOK, Current, Values
<1>7. ASSUME NEW t \in Threads, ComputeThrows(t) PROVE Inv'
    BY <1>0, <1>7 DEF ComputeThrows, Goto, Inv, TypeOK, Current, Values
<1>8. ASSUME NEW t \in Threads, Assign(t) PROVE Inv'
    BY <1>0, <1>8, ExpectedIsCurrent
    DEF Assign, Goto, Inv, TypeOK, Current
<1>9. ASSUME NEW t \in Threads, Publish(t) PROVE Inv'
    BY <1>0, <1>9 DEF Publish, Goto, Inv, TypeOK, Current, Values
<1>10. ASSUME NEW t \in Threads, Unlock(t) PROVE Inv'
    BY <1>0, <1>10 DEF Unlock, Goto, Inv, TypeOK, Current, Values
<1>11. ASSUME NEW t \in Threads, Drop(t) PROVE Inv'
    BY <1>0, <1>11 DEF Drop, Goto, Inv, TypeOK, Current, Values
<1>12. CASE UNCHANGED vars
    BY <1>0, <1>12 DEF vars, Inv, TypeOK, Current, Values
<1>13. QED
    BY <1>1, <1>2, <1>3, <1>4, <1>5, <1>6, <1>7, <1>8, <1>9, <1>10, <1>11,
       <1>12
    DEF Next, Step

-----------------------------------------------------------------------------
\* The invariant holds in every reachable state.
THEOREM Invariance == Spec => []Inv
BY InitInv, NextInv, PTL DEF Spec

\* Types: the value cached is Torn or a result of the computer.
THEOREM TypeCorrect == Spec => []TypeOK
<1>1. Inv => TypeOK
    BY DEF Inv
<1>2. QED
    BY <1>1, Invariance, PTL

\* A reference that operator() returned never shows half of an assignment nor
\* a value from before the last change of the source, with any number of
\* threads that call, wait, compute or throw.
THEOREM CurrentReads == Spec => []ReadersSeeCurrentValue
<1>1. Inv => ReadersSeeCurrentValue
    BY DEF Inv, ReadersSeeCurrentValue, Current
<1>2. QED
    BY <1>1, Invariance, PTL

\* value_ is assigned only while it is marked as not computed and nobody holds
\* a reference to it.
THEOREM NoAssignmentUnderReaders == Spec => ComputedOncePerReset
<1> DEFINE Guarded == value' # value =>
               ~ computed /\ \A t \in Threads : pc[t] # "reading"
<1>1. Inv /\ [Next]_vars => Guarded
    <2> SUFFICES ASSUME Inv, [Next]_vars, value' # value PROVE Guarded
        OBVIOUS
    <2>1. PICK t \in Threads : Compute(t) \/ Assign(t)
        BY DEF Next, Step, Change, Call, Test, Lock, Recheck, ComputeThrows,
               Publish, Unlock, Drop, vars
    <2>2. ~ computed
        BY <2>1 DEF Inv, Computing, Compute, Assign
    <2>3. QED
        BY <2>2 DEF Inv
<1>2. Inv /\ [Next]_vars => [Guarded]_vars
    BY <1>1
<1>3. QED
    BY <1>2, Invariance, PTL DEF Spec, ComputedOncePerReset
=============================================================================
