------------------------ MODULE PolygonOrientations ------------------------
(***************************************************************************)
(* repair_polygon_orientations(): polygons of a surface are turned round   *)
(* until each runs along its edges against its neighbors.  In 3D they are  *)
(* compared with the first polygon of their part of the surface, in 2D     *)
(* with the sign of their area, and a polygon without area with a neighbor *)
(* that has one.  Areas are given by their signs; a surface without any    *)
(* area is refused before.                                                 *)
(***************************************************************************)
EXTENDS SurfaceMesh

\* The vertices of a polygon edge, in the order of its polygon.
EdgeEnds(m, x) == <<VertexOf(m, x), VertexOf(m, NextPolygonVertex(m, x))>>

\* Two polygons that run along their common edge in opposite directions.
SameOrientation(m, x) ==
    EdgeEnds(m, x) = Reverse(EdgeEnds(m, PolygonAdjacentEdge(m, x)))

PolygonEdgesOf(m, p) == [i \in 1 .. Size(m.polygons[p]) |-> <<p, i - 1>>]

\* Mutant: whether the polygon itself is to be turned round is forgotten.
VisitEdgeUnturned(m, w, x) ==
    LET adjacent == AdjacentOf(m, x)
    IN  IF IsOnBorder(m, x) \/ adjacent \in w.visited
        THEN w
        ELSE [w EXCEPT
                !.visited = @ \cup {adjacent},
                !.queue = Append(@, adjacent),
                !.reorient = IF SameOrientation(m, x)
                             THEN @ ELSE @ \cup {adjacent}]

\* One edge in process_polygon_queue().  The code throws where w.valid
\* becomes false: "Mobius strip detected".
VisitEdge(m, w, x) ==
    LET adjacent == AdjacentOf(m, x)
        turned == x[1] \in w.reorient
        same == SameOrientation(m, x)
    IN  IF IsOnBorder(m, x)
        THEN w
        ELSE IF adjacent \in w.visited
        THEN [w EXCEPT !.valid =
                @ /\ same = (turned = (adjacent \in w.reorient))]
        ELSE [w EXCEPT
                !.visited = @ \cup {adjacent},
                !.queue = Append(@, adjacent),
                !.reorient = IF turned = same THEN @ \cup {adjacent} ELSE @]

\* process_polygon_queue()
ProcessPolygonQueue(m, w) ==
    LET processed[n \in Nat] ==
            LET u == processed[n - 1]
            IN  IF n = 0 THEN w
                ELSE IF u.queue = <<>> THEN u
                ELSE FoldInOrder(LAMBDA t, x : VisitEdge(m, t, x),
                                 [u EXCEPT !.queue = Tail(@)],
                                 PolygonEdgesOf(m, Head(u.queue)))
    IN  processed[Size(m.polygons)]

\* compute_bad_oriented_polygons(), from each polygon that was not met yet.
BadOrientedPolygons(m) ==
    FoldInOrder(LAMBDA w, p :
            IF p \in w.visited
            THEN w
            ELSE ProcessPolygonQueue(m,
                    [w EXCEPT !.visited = @ \cup {p}, !.queue = <<p>>]),
        [visited |-> {}, queue |-> <<>>, reorient |-> {}, valid |-> TRUE],
        Indices(m.polygons))

\* One turn of the loop of process_null_area_polygons(), with the signs of the
\* areas: a polygon waits until one across an edge has a sign.
VisitNullArea(m, w) ==
    LET p == Head(w.queue)
        known == SelectSeq(PolygonEdgesOf(m, p), LAMBDA x :
                    ~IsOnBorder(m, x) /\ w.sign[AdjacentOf(m, x)] # 0)
        sign == w.sign[AdjacentOf(m, known[1])]
    IN  IF known = <<>>
        THEN [w EXCEPT !.queue = Append(Tail(@), p)]
        ELSE [queue |-> Tail(w.queue),
              sign |-> [w.sign EXCEPT ![p] =
                IF SameOrientation(m, known[1]) THEN sign ELSE -sign]]

\* process_null_area_polygons().  When a whole turn of the queue gives nobody a
\* sign, nothing does, and the code never returns: the queue is left.
ProcessNullAreas(m, sign) ==
    LET n == Size(m.polygons)
        processed[k \in Nat] ==
            LET u == processed[k - 1]
            IN  IF k = 0
                THEN [sign |-> sign,
                      queue |-> SelectSeq(Indices(m.polygons),
                                          LAMBDA p : sign[p] = 0)]
                ELSE IF u.queue = <<>> THEN u ELSE VisitNullArea(m, u)
    IN  processed[n * n]

\* One polygon in reorient_bad_polygons(): the first vertex stays, so that edge
\* i becomes edge n - 1 - i.
ReorientPolygon(m, p) ==
    LET n == Size(m.polygons[p])
        vertices == [i \in IndexRange(n) |-> m.polygons[p][(n - i) % n]]
        adjacents == [i \in IndexRange(n) |-> m.adjacent[p][n - 1 - i]]
        Set(k, x) ==
            LET v == vertices[x[2]]
                k1 == AssociatePolygonVertex(SetPolygonVertex(k, x, v), x, v)
            IN  SetPolygonAdjacent(k1, x, adjacents[x[2]])
        Forget(k, x) ==
            AssociatePolygonVertex(k, NoPolygonVertex, VertexOf(k, x))
        edges == PolygonEdgesOf(m, p)
    IN  FoldInOrder(Set, FoldInOrder(Forget, m, edges), edges)

\* repair_polygons_orientations( S )
ReorientPolygons(m, S) ==
    [FoldInOrder(ReorientPolygon, m,
                 SelectSeq(Indices(m.polygons), LAMBDA p : p \in S)) EXCEPT
        !.edges = IF m.enabled THEN CleanFacets(@) ELSE @]

\* repair_polygon_orientations() in 3D.  It throws before it changes anything.
RepairPolygonOrientations(m) ==
    LET bad == BadOrientedPolygons(m)
    IN  IF bad.valid THEN ReorientPolygons(m, bad.reorient) ELSE m
=============================================================================
