CONSTANTS
    exec = exec
    settle = settle
    NoJob = NoJob
    Jobs = {exec, settle}
    Workers = {w1}
    Reapers = {r1}
    MaxAttempts <- MCMaxAttempts
    Priority <- MCPriority
    Delayed = {settle}
    DefaultMaxAttempts = 2
    DefaultPriority = 0
    AttemptCap = 3
    MaxReplays = 0
    InterruptAt = {"dispatch", "complete", "retry", "bury", "delete"}
    Overruns = {}
    MaxGaps = 0
SPECIFICATION FairSpec
PROPERTY
    ExpiredLeaseRecovered
