CONSTANTS
    exec = exec
    settle = settle
    NoJob = NoJob
    Jobs = {exec, settle}
    Workers = {w1, w2}
    Reapers = {r1}
    MaxAttempts <- MCMaxAttempts
    Priority <- MCPriority
    Delayed = {settle}
    DefaultMaxAttempts = 2
    DefaultPriority = 0
    AttemptCap = 4
    MaxReplays = 1
    InterruptAt = {"dispatch", "complete", "retry", "bury"}
    Overruns = {exec}
    MaxGaps = 1
SPECIFICATION FairSpec
INVARIANTS
    TypeOK
    NoLostJob
    BuryIsExclusive
    LeaseExclusive
    AttemptsWithinMax
    OneTable
PROPERTIES
    ImplementsLifecycle
    DoneIsFinal
    EveryJobResolved
    ExpiredLeaseRecovered
