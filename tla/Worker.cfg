SPECIFICATION FairSpec
CONSTANTS
    Workers = {w1}
    Callers = {p1}
    Interval = 1
    Stale = 5
    Buffer = 1
    Latency = 1
    None = None
INVARIANTS
    TypeOK
    OwnRatesAreFresh
    CachedRatesAreBounded
    StaleHasACause
PROPERTIES
    CacheNeverGoesBack
    WorkersRecover
