SPECIFICATION MCSpec
CONSTANTS
    alice = alice
    bob = bob
    Users = {alice, bob}
    Owner = alice
    Requests = {r1, r2}
    MaxCalls = 2
    Failures = TRUE
SYMMETRY RequestSymmetry
INVARIANTS
    TypeOK
    DocumentsCoherent
    SoloAbandonedCallEnds
PROPERTIES
    SoloEndedIsFinal
