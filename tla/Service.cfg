SPECIFICATION FairSpec
CONSTANTS
    Clients = {a, b, c}
    PoolSize = 2
    Main = Main
    Loop = Loop
    None = None
INVARIANTS
    TypeOK
    OnePool
    ClosedForGood
    NoStall
PROPERTIES
    CallsEnd
    RefreshesGoOn
    StopsInTheEnd
CHECK_DEADLOCK FALSE
