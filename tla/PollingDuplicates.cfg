CONSTANTS
    Other = Other
    NoAlert = NoAlert
    NoPrice = NoPrice
    NoJob = NoJob
    Processes = {w1, w2}
    Polls = {p1, p2, p3, p4}
    Alerts = {a}
    MaxHooks = 3
    HookAttempts = 2
    Symbols = {Other}
    Universe = {}
    Traded = {}
    Prices = {1, 2}
    AlertBodies <- OneAlert
    MaxFaults = 0
SPECIFICATION Spec
INVARIANTS
    OneRecurringPoll
CHECK_DEADLOCK FALSE
