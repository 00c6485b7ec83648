CONSTANTS
    VertexNames = {x, y}
    EdgeNames = {a, b, c}
    NoName = NoName
SPECIFICATION SpecReplaceAny
PROPERTIES
    ReplaceVertexMovesEveryEdge
