SPECIFICATION FairSpec
CONSTANTS
    Calls = {x, y, z}
    Quotes = {q1, q2}
    Keys = {k1}
    NoKey = NoKey
    None = None
INVARIANTS
    TypeOK
    DoubleOnlyByOverlap
    KeyPaysOnce
    AnswersAreCommitted
    FlagFollowsTransactions
PROPERTIES
    CallsEnd
CHECK_DEADLOCK FALSE
