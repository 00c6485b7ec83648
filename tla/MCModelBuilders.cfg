SPECIFICATION ModelSpec
CONSTANTS
    Ids = {1, 2, 3, 4, 5, 11, 12}
    GivenIds = {1}
    Kinds <- MCKinds
    MaxComponents = 2
    MaxConcatenated = 2
    MaxInactive = 1
    MaxMeshVertices = 1
    MaxUniqueVertices = 2
    OtherBReps <- MCOtherBReps
    OtherSections <- MCOtherSections
    LoadedModels <- MCLoadedModels
INVARIANTS
    PartsAgree
    RangesFindStoredComponents
    CopiesAreFaithful
    TransferKeepsIdentification
    FilterKeepsWhatIsUsed
