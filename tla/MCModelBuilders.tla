--------------------------- MODULE MCModelBuilders ---------------------------
(***************************************************************************)
(* A small instance of ModelBuilders for TLC.                              *)
(***************************************************************************)
EXTENDS ModelBuilders

MCKinds == {"Corner", "Line", "Surface", "Block", "ModelBoundary",
            "CornerCollection"}

\* Components of these kinds, with the meshes, relations and unique vertices
\* given, in d dimensions.
Made(d, kinds, relations, unique_vertex, component_vertices) ==
    LET listed == [k \in Kinds |->
                    SetToSeq({id \in DOMAIN kinds : kinds[id] = k})]
        related == UNION {{r[1], r[2]} : r \in relations}
    IN  [EmptyModel(d) EXCEPT
            !.components = listed,
            !.mesh_components = listed,
            !.registered = [id \in related |-> kinds[id]],
            !.relations = relations,
            !.unique_vertex = unique_vertex,
            !.component_vertices = component_vertices]

OneVertex == [v \in {0} |-> 0]

\* A corner that bounds a line, both with one vertex, which is the same
\* vertex of the model.
Segment(d) ==
    Made(d, 11 :> "Corner" @@ 12 :> "Line",
         {<<11, 12, BOUNDARY_RELATION>>},
         11 :> OneVertex @@ 12 :> OneVertex,
         0 :> {<<"Corner", 11, 0>>, <<"Line", 12, 0>>})

\* A line that bounds a surface that bounds a block; the line has a vertex.
Chain ==
    Made(3, 1 :> "Line" @@ 2 :> "Surface" @@ 3 :> "Block",
         {<<1, 2, BOUNDARY_RELATION>>, <<2, 3, BOUNDARY_RELATION>>},
         1 :> OneVertex @@ 2 :> <<>> @@ 3 :> <<>>,
         0 :> {<<"Line", 1, 0>>})

MCOtherBReps == {Segment(3)}
MCOtherSections == {Segment(2)}
MCLoadedModels == {Chain}
=============================================================================
