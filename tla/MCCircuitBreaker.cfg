SPECIFICATION BreakerFairSpec
CONSTANTS
    Callers = {c1, c2, c3}
    ConfigMaxFailures = 0
    ConfigTimeout = 2
    DefaultMaxFailures = 2
    DefaultTimeout = 1
    FailureCap = 3
INVARIANTS
    ClosedIffBelowMax
PROPERTIES
    ThreeConsecutiveToClose
    Recovers
