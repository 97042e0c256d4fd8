SPECIFICATION Spec
CONSTANTS
    e1 = e1
    e2 = e2
    p1 = p1
    p2 = p2
    Events = {e1, e2}
    Processors = {p1, p2}
    NoProc = NoProc
    NoEvent = NoEvent
    CreatedAt <- MCCreatedAt
    ConfigMaxRetries <- MCConfigMaxRetries
    ConfigBatchSize <- MCConfigBatchSize
    DefaultMaxRetries = 2
    DefaultBatchSize = 2
    HeaderPublisher = FALSE
    MaxFaults = 2
INVARIANTS
    DuplicatesExplained
    OncePerTick
PROPERTIES
    ImplementsAtLeastOnce
