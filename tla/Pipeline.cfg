CONSTANTS
    P = P
    S = S
    Cash = Cash
    NoJob = NoJob
    NoKey = NoKey
    NoRequest = NoRequest
    NoOrder = NoOrder
    NoPortfolio = NoPortfolio
    NoView = NoView
    Free = Free
    SeedTrade = SeedTrade
    Portfolios = {P}
    Stocks = {S}
    Orders = {o1}
    Workers = {w1, w2}
    Reapers = {r1}
    Clients = {c1}
    Cancellers = {c1}
    Requests <- Buys
    Keys = {}
    Prices = {2}
    Seeds = {2}
    Half = 4
    MaxClock = 0
    MaxAttempts <- MCMaxAttempts
    DefaultMaxAttempts = 1
    DefaultPriority = 0
    AttemptCap = 3
    MaxReplays = 1
    InterruptAt = {"dispatch", "complete", "retry", "bury"}
    MaxGaps = 0
    MaxFills = 2
    MayOverrun = {}
SPECIFICATION FairSpec
INVARIANTS
    FilledAtMostOnce
    TradedReadsFilled
    NoStrandedOrder
PROPERTIES
    VerdictStands
    ImplementsLedger
    EveryOrderDecided
    EveryFillSettled
