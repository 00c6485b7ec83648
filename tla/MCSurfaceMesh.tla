--------------------------- MODULE MCSurfaceMesh ---------------------------
(***************************************************************************)
(* Instances of SurfaceMeshBuilder and SurfaceHelpers for TLC.             *)
(***************************************************************************)
EXTENDS SurfaceHelpers

AsPolygon(list) == [i \in 0 .. Len(list) - 1 |-> list[i + 1]]

Triangles == {AsPolygon(<<0, 1, 2>>), AsPolygon(<<1, 0, 3>>)}

Generators ==
    {AsPolygon(p) : p \in
        {<<1, 0, 2>>, <<1, 2, 0>>,
         <<1, 0, 2, 3>>, <<1, 2, 3, 0>>}}

\* The vertices of a polygon, the first one kept, in the other direction.
Reversed(list) == <<list[1], list[3], list[2]>>

\* The triangles of a list, some of them turned round.
Turned(list, T) ==
    [i \in DOMAIN list |->
        AsPolygon(IF i \in T THEN Reversed(list[i]) ELSE list[i])]

Tetrahedron == <<<<0, 1, 2>>, <<0, 3, 1>>, <<1, 3, 2>>, <<0, 2, 3>>>>
MobiusStrip ==
    <<<<0, 1, 2>>, <<1, 2, 3>>, <<2, 3, 4>>, <<3, 4, 0>>, <<4, 0, 1>>>>

ClosedStrips ==
    {Turned(Tetrahedron, T) : T \in SUBSET (1 .. 4)} \cup
    {Turned(MobiusStrip, T) : T \in SUBSET (1 .. 5)}

\* Vectors of unique points for two surfaces of four vertices: the same
\* surface twice, one more polygon on an edge, a common edge, a common vertex,
\* and vertices of the same surface that are colocated.
Colocated ==
    {AsPolygon(v) : v \in
        {<<0, 1, 2, 3, 0, 1, 2, 3>>, <<0, 1, 2, 3, 0, 1, 1, 3>>,
         <<0, 1, 2, 3, 1, 0, 4, 3>>,
         <<0, 1, 2, 3, 4, 0, 2, 5>>, <<0, 1, 2, 0, 3, 2, 4, 0>>,
         <<0, 1, 0, 2, 3, 4, 1, 0>>, <<0, 1, 2, 2, 0, 1, 3, 2>>}}

OtherSurface == <<AsPolygon(<<0, 1, 2>>), AsPolygon(<<1, 0, 3>>)>>

\* A view: the edges are told apart by their vertices, not by their indices.
\* No operation on surfaces depends on the order of these indices.
EdgesWithoutIndices ==
    [mesh EXCEPT !.edges =
        IF IsConsistent(@)
        THEN [c \in DOMAIN @.indices |-> CountOf(@, c)]
        ELSE @]
=============================================================================
