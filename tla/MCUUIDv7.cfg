CONSTANTS
    Threads = {t1, t2}
    MaxClock = 1
    MaxDriftMs = 1
    SeqMask = 2
    MaxAttempts = 2
SPECIFICATION FairSpec
INVARIANTS
    TypeOK
    NoSharedStamp
    DriftBounded
PROPERTIES
    LaterIsGreater
    CallsComplete
