SPECIFICATION MCSpec
CONSTANTS
    Deliveries = {d1, d2, d3}
    Unlocked = Unlocked
    MaxSent = 4
    MaxMishaps = 2
    Tokens = {t1, t2, t3}
    TokenTtl = 2
    CutoffTtl = 3
    MaxTime = 5
    Conns = {c1, c2}
    Idle = 1
    Ttl = 2
INVARIANTS
    DuplicatesAreMishaps
    LoggedOutIsRefused
    ConnectedIsOnline
    LastSeenIsKept
PROPERTIES
    KeyIsFreed
    GhostsVanish
