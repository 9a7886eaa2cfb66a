CONSTANTS
    A = A
    B = B
    Symbols = {A, B}
    Universe <- TwoListed
    Rank <- Alphabet
    PrevClose <- Closes
    Prices = {0, 1, 3}
    Requests = {r1}
    Pollers = {q}
    Limits = {1, 6}
    QuoteTtl = 1
    MaxDelay = 1
    MaxTime = 3
    NoQuote = NoQuote
SPECIFICATION Spec
INVARIANTS
    TypeOK
    CachedQuoteIsRecent
    TrendingIsTop
CHECK_DEADLOCK FALSE
