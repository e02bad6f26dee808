SPECIFICATION Spec
CONSTANTS
    Workers = {w1}
    Callers = {}
    Interval = 1
    Stale = 2
    Buffer = 1
    Latency = 1
    None = None
INVARIANTS
    QuotedRatesAreFresh
