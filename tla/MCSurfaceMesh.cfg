CONSTANTS
    MaxVertices = 4
    MaxPolygons = 2
    MaxComputed = 1
    NewPolygons <- Triangles
    VertexPermutations <- Generators
    Twins = FALSE
    Strips <- ClosedStrips
    Merged <- OtherSurface
    VertexMappings <- Colocated
SPECIFICATION SurfaceSpec
VIEW EdgesWithoutIndices
INVARIANTS
    AroundMatchesPolygons
    AdjacencyIsMutual
    CachedListsAreCurrent
    EdgesCountPolygonEdges
    TurnsVisitTheFan
    ComputeConnectsPairs
    RepairOrientsCoherently
    MergeKeepsSurfaces
CHECK_DEADLOCK FALSE
