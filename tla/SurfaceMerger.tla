--------------------------- MODULE SurfaceMerger ---------------------------
(***************************************************************************)
(* SurfaceMeshMerger::merge(): several surfaces become one, in which       *)
(* colocated vertices are one vertex and polygons with the same vertices   *)
(* one polygon.                                                            *)
(*                                                                         *)
(* The surfaces are a list.  The vector "vertices" is what                 *)
(* NNSearch::colocated_index_mapping() gives for their vertices, those of  *)
(* the second surface after those of the first, and so on; the origins of  *)
(* the vertices are its inverse and left out.  The surfaces are of three   *)
(* dimensions: their orientations are compared.  A merger w has            *)
(*   w.mesh      the surface that is built                                 *)
(*   w.origins   polygon -> list of pairs <<surface, polygon>> it comes    *)
(*               from                                                      *)
(*   w.surfaces  polygon -> the surfaces it comes from, surface_id_        *)
(*   w.new_id    surface -> polygon -> polygon of the merged surface, NoId *)
(*               for one that is degenerated                               *)
(***************************************************************************)
EXTENDS PolygonOrientations

\* offset_vertices_
OffsetVertices(meshes, s) ==
    FoldInOrder(LAMBDA sum, m : sum + Size(m.around), 0,
                SubSeq(meshes, 1, s - 1))

\* vertex_in_merged(), of the vertices of a polygon.
VerticesInMerged(meshes, vertices, s, p) ==
    LET polygon == meshes[s].polygons[p]
    IN  [i \in DOMAIN polygon |->
            vertices[OffsetVertices(meshes, s) + polygon[i]]]

\* A VertexCycle: what is the same from any vertex on and in both directions.
VertexCycle(polygon) ==
    {{polygon[i], polygon[(i + 1) % Size(polygon)]} : i \in DOMAIN polygon}

\* is_polygon_degenerated()
IsPolygonDegenerated(polygon) == ~IsInjective(polygon)

\* Mutant: a polygon that is found again stays one of its first surface.
MergePolygonOnce(w, s, p, polygon) ==
    LET same == {q \in Polygons(w.mesh) :
            VertexCycle(w.mesh.polygons[q]) = VertexCycle(polygon)}
        new == Size(w.mesh.polygons)
        found == CHOOSE q \in same : TRUE
    IN  IF IsPolygonDegenerated(polygon)
        THEN w
        ELSE IF same = {}
        THEN [mesh |-> CreatePolygon(w.mesh, polygon),
              surfaces |-> AppendElement(w.surfaces, {s}),
              origins |-> AppendElement(w.origins, <<<<s, p>>>>),
              new_id |-> [w.new_id EXCEPT ![s][p] = new]]
        ELSE [w EXCEPT !.origins[found] = Append(@, <<s, p>>),
                       !.new_id[s][p] = found]

\* One polygon in create_polygons().
MergePolygon(w, s, p, polygon) ==
    LET same == {q \in Polygons(w.mesh) :
            VertexCycle(w.mesh.polygons[q]) = VertexCycle(polygon)}
        new == Size(w.mesh.polygons)
        found == CHOOSE q \in same : TRUE
    IN  IF IsPolygonDegenerated(polygon)
        THEN w
        ELSE IF same = {}
        THEN [mesh |-> CreatePolygon(w.mesh, polygon),
              surfaces |-> AppendElement(w.surfaces, {s}),
              origins |-> AppendElement(w.origins, <<<<s, p>>>>),
              new_id |-> [w.new_id EXCEPT ![s][p] = new]]
        ELSE [w EXCEPT !.surfaces[found] = @ \cup {s},
                       !.origins[found] = Append(@, <<s, p>>),
                       !.new_id[s][p] = found]

\* create_points(): a vertex for each unique point, and no polygon yet.
CreatePoints(meshes, vertices) ==
    [mesh |-> FoldInOrder(LAMBDA m, v : CreatePoint(m), EmptyMesh,
                          IndicesBelow(Cardinality(Range(vertices)))),
     surfaces |-> <<>>, origins |-> <<>>,
     new_id |-> [s \in DOMAIN meshes |->
                    [p \in Polygons(meshes[s]) |-> NoId]]]

\* create_polygons()
CreatePolygons(meshes, vertices) ==
    LET MergeSurface(w, s) ==
            FoldInOrder(LAMBDA u, p : MergePolygon(u, s, p,
                            VerticesInMerged(meshes, vertices, s, p)),
                        w, Indices(meshes[s].polygons))
    IN  FoldInOrder(MergeSurface, CreatePoints(meshes, vertices),
                    [s \in DOMAIN meshes |-> s])

\* find_edge_origin(): the edge of a polygon that became an edge with these
\* two vertices.
EdgeOrigin(meshes, vertices, origin, cycle) ==
    LET polygon == VerticesInMerged(meshes, vertices, origin[1], origin[2])
        i == CHOOSE j \in DOMAIN polygon :
                {polygon[j], polygon[(j + 1) % Size(polygon)]} = cycle
    IN  <<origin[2], i>>

\* create_adjacencies(): those that a surface has already are kept.
CreateAdjacencies(meshes, vertices, w) ==
    LET IsInside(m, x) ==
            \E origin \in ToSet(w.origins[x[1]]) :
                ~IsOnBorder(meshes[origin[1]],
                    EdgeOrigin(meshes, vertices, origin, EdgeCycle(m, x)))
        Clean(m, x) ==
            IF IsOnBorder(m, x) \/ IsInside(m, x)
            THEN m
            ELSE UnsetPolygonAdjacents(m, x)
    IN  [w EXCEPT !.mesh =
            FoldInOrder(Clean, ComputePolygonAdjacencies(@, Polygons(@)),
                        PolygonVertexList(@))]

\* separate_surfaces()
SeparateSurfaces(w) ==
    LET IsWithin(m, x) == w.surfaces[x[1]] = w.surfaces[AdjacentOf(m, x)]
        Separate(m, x) ==
            IF IsOnBorder(m, x) \/ IsWithin(m, x)
            THEN m
            ELSE SetPolygonAdjacent(m, x, NoId)
    IN  [w EXCEPT !.mesh =
            FoldInOrder(Separate, @, PolygonVertexList(@))]

\* merge(); a surface that cannot be oriented stays as it is.
Merge(meshes, vertices) ==
    LET created == CreatePolygons(meshes, vertices)
        separated == SeparateSurfaces(
                        CreateAdjacencies(meshes, vertices, created))
    IN  [separated EXCEPT !.mesh = RepairPolygonOrientations(@)]
=============================================================================
