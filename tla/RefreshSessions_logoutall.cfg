SPECIFICATION Spec
CONSTANTS
    MaxSessions = 2
    Requests = {r1, r2}
    NoOne = NoOne
    Aging = FALSE
    SlowRequests = FALSE
INVARIANTS
    LogoutAllIsComplete
