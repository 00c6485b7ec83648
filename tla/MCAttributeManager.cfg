CONSTANTS
    Managers = {mesh, other}
    Ids = {a, b}
    Values = {0, 1}
    Default = 0
    PropertySets <- AllOrNothing
    MaxElements = 3
    MaxAllElements = 4
    MaxAttributes = 2
SPECIFICATION Spec
SYMMETRY Symmetry
INVARIANTS
    StoredInSize
PROPERTIES
    ImplementsAttributeTable
