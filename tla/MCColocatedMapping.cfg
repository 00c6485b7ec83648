CONSTANTS
    NbPoints = 4
SPECIFICATION FairSpec
INVARIANTS
    RepresentativesStandApart
    ResultIsSound
PROPERTIES
    ImplementsColocatedPoints
    Terminates
CHECK_DEADLOCK FALSE
