CONSTANTS
    P = P
    R = R
    S = S
    Cash = Cash
    NoKey = NoKey
    NoRequest = NoRequest
    NoOrder = NoOrder
    NoPortfolio = NoPortfolio
    NoView = NoView
    Free = Free
    SeedTrade = SeedTrade
    Portfolios = {P}
    Stocks = {S}
    Orders = {o1}
    Workers = {w1}
    Clients = {c1}
    Cancellers = {c1}
    Readers = {}
    Requests <- Compete
    Keys = {}
    Prices = {2}
    Seeds = {3}
    Half = 8
    MaxClock = 0
SPECIFICATION Spec
INVARIANT
    CancelledNeverTrades
