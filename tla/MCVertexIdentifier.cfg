\* VertexIdentifier with two components of up to two vertices each and two
\* unique vertices: vertices of two meshes on one unique vertex, two
\* vertices of one mesh on it, a deletion in one mesh that moves an index
\* of its other vertex, an isolated unique vertex below a used one.
CONSTANTS
    Components = {line, surface}
    MeshNames = {m1, m2}
    UniqueNames = {p, q}
SPECIFICATION Spec
INVARIANTS
    ListsMatchAttributes
PROPERTIES
    ImplementsIdentification
