CONSTANTS
    MaxVertices = 5
    MaxPolyhedra = 2
    MaxComputed = 2
    Facets <- TetrahedronFacets
    Shapes <- Tetrahedra
    NewPolyhedra <- TwoTetrahedra
    Others <- MorePolyhedra
    VertexPermutations <- Generators
SPECIFICATION Spec
VIEW WithoutIndices
INVARIANTS
    AroundMatchesPolyhedra
    CachedListsAreCurrent
    EdgesAndFacetsAreCounted
    TraversalsAreComplete
    RowsFollowMappings
CHECK_DEADLOCK FALSE
