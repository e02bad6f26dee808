SPECIFICATION FairSpec
CONSTANTS
    c1 = c1  c2 = c2
    EUR = EUR  KES = KES  USD = USD
    q1 = q1  q2 = q2  q3 = q3
    k1 = k1  k2 = k2  k3 = k3
    r1 = r1  r2 = r2  r3 = r3
    d1 = d1  d2 = d2
    NoQuote = NoQuote  NoKey = NoKey  NoRow = NoRow
    Customers = {c1}
    Currencies = {EUR, KES, USD}
    Rank <- MCRank
    Quotes = {q1, q2, q3}
    Keys = {k1, k2, k3}
    Requests = {r1, r2, r3}
    Credits = {d1}
    Terms <- RingTerms
    Bodies <- RingBodies
    Deposits <- RingDeposits
    TTL = 0
    MaxClock = 0
INVARIANTS
    NoDeadlock
PROPERTIES
    RequestsEnd
CHECK_DEADLOCK FALSE
