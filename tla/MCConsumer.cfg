SPECIFICATION Spec
SYMMETRY Symmetry
CHECK_DEADLOCK FALSE
CONSTANTS
    Msgs = {m1}
    Workers = {w1, w2}
    NoMsg = NoMsg
    Lease = 0
    DefaultClaimLease = 4
    AckWait = 1
    MaxDeliver = 5
    Prompt = TRUE
    MaxClock = 10
INVARIANTS
    AckedWasHandled
    LeaseExclusive
    CompletedIsFinal
    DeadLetterRecorded
    MarkExcludes
    OneCrashIsSurvived
