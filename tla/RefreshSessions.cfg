SPECIFICATION MCSpec
CONSTANTS
    MaxSessions = 3
    Requests = {r1, r2}
    NoOne = NoOne
    Aging = TRUE
    SlowRequests = FALSE
SYMMETRY RequestSymmetry
INVARIANTS
    TypeOK
    SingleSuccessor
    RotatedIsDead
    SweptIsDead
    SoloLogoutAllIsComplete
PROPERTIES
    NeverRevalidated
