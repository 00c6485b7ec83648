CONSTANTS
    c1 = c1
    c2 = c2
    c3 = c3
    Components = {c1, c2, c3}
    RelationTypes = {boundary, internal}
    CopyMappings <- SomeMappings
    MaxRelations = 3
SYMMETRY TypeSymmetry
SPECIFICATION Spec
INVARIANTS
    IndexMatchesIds
    QueriesAgree
PROPERTIES
    ImplementsRelationSet
    AddsTheRelationAsked
