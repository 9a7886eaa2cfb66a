CONSTANTS
    Unset = Unset
    Requests = {r1, r2}
    Inputs <- Bodies
    Default <- DefaultConfig
    Second = 2
    MaxTime = 5
    MaxGrants = 3
    MaxDelay = 2
    Grain = 2
    Tags = {1, 2}
SPECIFICATION Spec
SYMMETRY Symmetry
INVARIANTS
    TypeOK
    TokenMath
    WindowMath
PROPERTIES
    
    RetryAfterSuffices
CHECK_DEADLOCK FALSE
