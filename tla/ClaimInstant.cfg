SPECIFICATION Spec
CONSTANTS
    c1 = c1  c2 = c2
    EUR = EUR  KES = KES  USD = USD
    q1 = q1  q2 = q2  q3 = q3
    k1 = k1  k2 = k2  k3 = k3
    r1 = r1  r2 = r2  r3 = r3
    d1 = d1  d2 = d2
    NoQuote = NoQuote  NoKey = NoKey  NoRow = NoRow
    Customers = {c1}
    Currencies = {EUR, USD}
    Rank <- MCRank
    Quotes = {q1}
    Keys = {k1, k2}
    Requests = {r1, r2, r3}
    Credits = {d1}
    Terms <- ExpiryTerms
    Bodies <- ExpiryBodies
    Deposits <- ExpiryDeposits
    TTL = 1
    MaxClock = 2
INVARIANTS
    ExecutedBeforeExpiry
CHECK_DEADLOCK FALSE
