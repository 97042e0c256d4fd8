SPECIFICATION Spec
SYMMETRY Symmetry
CHECK_DEADLOCK FALSE
CONSTANTS
    Writers = {w1, w2}
    UniqueIndex = FALSE
    MaxBatch = 2
    MaxVersion = 2
    MaxTime = 2
    MaxFaults = 1
INVARIANT OneEventPerVersion
