SPECIFICATION Spec
CONSTANTS
    USD = USD  EUR = EUR  KES = KES
    NoQuote = NoQuote
    Currencies = {USD, EUR, KES}
    UsdRates <- MCRates
    Unit = 400
    Spread <- MCSpread
    Places = 2
    Extra = 2
    Amounts = {1, 3, 4, 5, 8, 15, 28, 60}
    Funds <- MCFunds
    MaxQuotes = 4
INVARIANTS
    TypeOK
    RevenueIsTheSpread
CHECK_DEADLOCK FALSE
