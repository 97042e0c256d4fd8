SPECIFICATION FairSpec
CHECK_DEADLOCK FALSE
CONSTANTS
    Callers = {c1, c2, c3}
    ConfigMaxConcurrent = 0
    DefaultMaxConcurrent = 2
    ConfigMaxAttempts = 0
    DefaultMaxAttempts = 2
    ConfigMaxFailures = 1
    DefaultMaxFailures = 5
    ConfigTimeout = 1
    DefaultTimeout = 30
    FailureCap = 1
INVARIANTS
    ConcurrencyLimit
    NothingLeaks
    OverrunIsBounded
PROPERTIES
    CallReturns
