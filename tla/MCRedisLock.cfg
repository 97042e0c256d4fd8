SPECIFICATION LockFairSpec
CHECK_DEADLOCK FALSE
CONSTANTS
    Locks = {l1, l2, l3}
    NoLock = NoLock
    TTL = 2
    Extensions = {0, 1, 3}
    MaxRetries = 2
    MaxFaults = 1
INVARIANTS
    LiveHoldersExclude
PROPERTIES
    OnlyOwnerGivesUp
    LockIsFreed
