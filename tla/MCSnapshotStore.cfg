SPECIFICATION MCSpec
CHECK_DEADLOCK FALSE
CONSTANTS
    Writers = {w1, w2}
    UniqueIndex = TRUE
    MaxBatch = 2
    MaxVersion = 2
    MaxTime = 1
    MaxFaults = 1
    Savers = {s1, s2}
    MaxSaves = 2
INVARIANTS
    HistoryIsDense
    RebuildIsComplete
PROPERTIES
    CommitIsCurrent
    AppendReturns
