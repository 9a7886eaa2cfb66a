CONSTANTS
    P = P
    R = R
    S = S
    Cash = Cash
    NoKey = NoKey
    NoRequest = NoRequest
    NoOrder = NoOrder
    NoPortfolio = NoPortfolio
    NoView = NoView
    Free = Free
    SeedTrade = SeedTrade
    Portfolios = {P, R}
    Stocks = {S}
    Orders = {o1, o2}
    Workers = {w1, w2}
    Clients = {c1, c2}
    Cancellers = {c1, c2}
    Readers = {r1}
    Requests <- Compete
    Keys = {k}
    Prices = {2}
    Seeds = {3}
    Half = 8
    MaxClock = 1
SPECIFICATION Spec
SYMMETRY Symmetry
CONSTRAINT OneRace
INVARIANTS
    TypeOK
    WritersHoldTheLock
    Solvent
    DenseLedger
    BalancedTrades
    FilledHasTrade
    CachedViewIsWhole
    OneOrderPerKey
