CONSTANTS
    P = P
    S = S
    Cash = Cash
    NoJob = NoJob
    NoKey = NoKey
    NoRequest = NoRequest
    NoOrder = NoOrder
    NoPortfolio = NoPortfolio
    NoView = NoView
    Free = Free
    SeedTrade = SeedTrade
    Portfolios = {P}
    Stocks = {S}
    Orders = {o1, o2, o3}
    Workers = {w1, w2}
    Reapers = {r1}
    Clients = {b, s1, s2}
    Cancellers = {}
    Buyer = b
    Sellers = {s1, s2}
    Seed = 4
    Qty = 1
    Requests <- MCRequests
    Keys = {}
    Prices = {2}
    Seeds = {4}
    Half = 8
    MaxClock = 0
    MaxAttempts <- MCMaxAttempts
    DefaultMaxAttempts = 1
    DefaultPriority = 0
    AttemptCap = 3
    MaxReplays = 0
    InterruptAt = {"dispatch", "complete", "retry", "bury"}
    MaxGaps = 0
    MaxFills = 2
    MayOverrun = {}
SPECIFICATION TestSpec
SYMMETRY Symmetry
INVARIANTS
    ResolvedTestPasses
    PassedMeansFlat
CONSTRAINT FewRedelivered
CHECK_DEADLOCK FALSE
