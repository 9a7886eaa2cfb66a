CONSTANTS
    P = P
    R = R
    S = S
    Cash = Cash
    NoKey = NoKey
    NoRequest = NoRequest
    NoOrder = NoOrder
    NoPortfolio = NoPortfolio
    NoView = NoView
    Free = Free
    SeedTrade = SeedTrade
    Portfolios = {P}
    Stocks = {S}
    Orders = {o1, o2, o3}
    Workers = {w1, w2}
    Clients = {c1}
    Cancellers = {}
    Readers = {}
    Requests <- Compete
    Keys = {}
    Prices = {2}
    Seeds = {2}
    Half = 8
    MaxClock = 1
SPECIFICATION Spec
INVARIANT
    PastIsSolvent
