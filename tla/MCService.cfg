SPECIFICATION ServiceSpec
CHECK_DEADLOCK FALSE
CONSTANTS
    Users = {"u"}
    Slots = {r1}
    AccessTTL = 1
    RefreshTTL = 3
    TempTTL = 2
    MaxTime = 3
    MaxTokens = 4
    Services = {"orders", "stock"}
    MaxEdits = 2
    Deps = {"db", "replica", "nats"}
    Name <- MCName
    MaxLinks = 2
INVARIANTS
    AuthorityIsBounded
    PublishedIsRefused
    SameSecretAgrees
    ReadyMeansAllPassed
PROPERTIES
    ProbeEnds
    WrappingKeepsMeaning
