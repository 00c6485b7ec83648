\* GraphBuilder on at most three vertices and two edges: enough for two
\* edges between the same vertices, an edge that is a loop, a list longer
\* than one, a deletion that moves an index onto another's old place, and
\* a permutation of vertices that differs from its inverse.
CONSTANTS
    VertexNames = {x, y, z}
    EdgeNames = {a, b}
    NoName = NoName
SPECIFICATION Spec
INVARIANTS
    EdgesAroundDual
PROPERTIES
    ImplementsNamedGraph
