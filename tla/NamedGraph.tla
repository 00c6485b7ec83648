----------------------------- MODULE NamedGraph -----------------------------
(***************************************************************************)
(* What GraphBuilder promises to somebody who follows vertices and edges   *)
(* by name instead of by index: an edge keeps its two ends until it is     *)
(* given others, deleting or renumbering elements never moves an end, and  *)
(* no vertex or edge comes or goes unasked.                                *)
(***************************************************************************)
CONSTANTS VertexNames, EdgeNames, NoName

VARIABLES
    vertices,  \* the names of the vertices
    ends       \* edge name -> [side -> vertex name, NoName when not set]

namedVars == <<vertices, ends>>

Joined == {ends[e][side] : e \in DOMAIN ends, side \in {0, 1}}

Init == vertices = {} /\ ends = <<>>

CreateVertex(v) ==
    /\ vertices' = vertices \cup {v}
    /\ UNCHANGED ends

CreateEdge(e, v0, v1) ==
    /\ ends' = [f \in DOMAIN ends \cup {e} |->
                  IF f = e THEN [side \in {0, 1} |-> IF side = 0 THEN v0 ELSE v1]
                           ELSE ends[f]]
    /\ UNCHANGED vertices

MoveEnd(e, side, v) ==
    /\ ends' = [ends EXCEPT ![e][side] = v]
    /\ UNCHANGED vertices

MoveAllEnds(old, new) ==
    /\ ends' = [e \in DOMAIN ends |-> [side \in {0, 1} |->
                  IF ends[e][side] = old THEN new ELSE ends[e][side]]]
    /\ UNCHANGED vertices

DeleteEdges(E) ==
    /\ ends' = [e \in DOMAIN ends \ E |-> ends[e]]
    /\ UNCHANGED vertices

DeleteVertices(V) ==
    /\ V \cap Joined = {}
    /\ vertices' = vertices \ V
    /\ UNCHANGED ends

Next ==
    \/ \E v \in VertexNames \ vertices : CreateVertex(v)
    \/ \E e \in EdgeNames \ DOMAIN ends :
          \/ CreateEdge(e, NoName, NoName)
          \/ \E v0, v1 \in vertices : CreateEdge(e, v0, v1)
    \/ \E e \in DOMAIN ends, side \in {0, 1}, v \in vertices :
          MoveEnd(e, side, v)
    \/ \E old, new \in vertices : MoveAllEnds(old, new)
    \/ \E E \in SUBSET DOMAIN ends : DeleteEdges(E)
    \/ \E V \in SUBSET vertices : DeleteVertices(V)

Spec == Init /\ [][Next]_namedVars
=============================================================================
