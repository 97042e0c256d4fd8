SPECIFICATION Spec
SYMMETRY Symmetry
CONSTANTS
    Keys = {k1}
    NoKey = NoKey
    Requests = {r1, r2}
    Admins = {a1}
    ScopeSets <- MCScopeSets
    RequiredScopes <- MCRequiredScopes
    RouteScopes <- MCRouteScopes
    AllowQueryParam = TRUE
    TTLs = {0, 1}
    Lifetimes = {0, 1}
    MaxTime = 5
    MaxPause = 1
    MaxVersions = 2
PROPERTIES
    RevocationIsBounded
    ExpiredIsRefused
