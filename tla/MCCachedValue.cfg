CONSTANTS
    Threads = {t1, t2, t3}
    Arguments = {frame}
    Sources = {before, after}
    Result <- SourceOnly
    NoThread = NoThread
    Torn = Torn
SPECIFICATION FairSpec
INVARIANTS
    ReadersSeeCurrentValue
PROPERTIES
    ComputedOncePerReset
    CallsEnd
