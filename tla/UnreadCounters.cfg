SPECIFICATION MCSpec
CONSTANTS
    alice = alice
    bob = bob
    carol = carol
    m1 = m1
    m2 = m2
    r1 = r1
    r2 = r2
    Users = {alice, bob, carol}
    Owner = alice
    Msgs = {m1, m2}
    Requests = {r1, r2}
    NoUser = NoUser
    NoMsg = NoMsg
    NoDoc = NoDoc
    Overlap = TRUE
    MaxFaults = 1
INVARIANTS
    TypeOK
    SoloExactWhenIdle
PROPERTIES
    DriftIsRepaired
