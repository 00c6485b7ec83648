---------------------------- MODULE MCSolidMesh ----------------------------
(***************************************************************************)
(* Instances of SolidMeshBuilder for TLC.                                  *)
(***************************************************************************)
EXTENDS SolidMeshBuilder

AsVector(list) == [i \in 0 .. Len(list) - 1 |-> list[i + 1]]

\* TETRAHEDRON_FACET_VERTICES
TetrahedronFacets ==
    AsVector(<<AsVector(<<1, 3, 2>>), AsVector(<<0, 2, 3>>),
               AsVector(<<3, 1, 0>>), AsVector(<<0, 1, 2>>)>>)
PyramidFacets ==
    AsVector(<<AsVector(<<0, 1, 2, 3>>), AsVector(<<0, 4, 1>>),
               AsVector(<<0, 3, 4>>), AsVector(<<2, 4, 3>>),
               AsVector(<<1, 4, 2>>)>>)

\* The tetrahedra at edge 0 1.
Tetrahedra ==
    {AsVector(<<0, 1, v, w>>) : v, w \in 2 .. 4} \ {AsVector(<<0, 1, v, v>>) :
        v \in 2 .. 4}
TwoTetrahedra == {AsVector(<<0, 1, 2, 3>>), AsVector(<<0, 1, 3, 4>>)}

Tetrahedron(list) ==
    [vertices |-> AsVector(list), facets |-> TetrahedronFacets]
Pyramid(list) == [vertices |-> AsVector(list), facets |-> PyramidFacets]

\* With the first two tetrahedra, the third closes the turn around edge 0 1 and
\* the fourth that around vertex 0.
MorePolyhedra ==
    {<<Tetrahedron(<<0, 1, 4, 2>>)>>,
     <<Tetrahedron(<<0, 1, 4, 2>>), Tetrahedron(<<0, 2, 4, 3>>)>>,
     <<Pyramid(<<1, 2, 3, 4, 0>>)>>}

Generators ==
    {AsVector(p) : p \in {<<0, 1, 3, 2>>, <<0, 1, 3, 4, 2>>, <<0, 1, 3, 2, 4>>}}

\* A view: the edges and the facets are told apart by their vertices, not by
\* their indices, and those that have no user are left out.
UsedOnly(s) ==
    IF IsConsistent(s)
    THEN LET used == {c \in DOMAIN s.indices : CountOf(s, c) > 0}
         IN  [c \in used |-> CountOf(s, c)]
    ELSE s
WithoutIndices ==
    [mesh EXCEPT !.edges = UsedOnly(@), !.facets = UsedOnly(@)]
=============================================================================
