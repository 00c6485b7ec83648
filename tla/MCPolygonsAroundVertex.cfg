CONSTANTS
    Threads = {t1, t2}
    Arguments = {"p0"}
    Sources = {adjacent}
    Result <- OneFan
    NoThread = NoThread
    Torn = Torn
SPECIFICATION SpecQueries
INVARIANTS
    QueriesGetTheirPolygons
