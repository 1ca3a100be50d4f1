SPECIFICATION MCSpec
CONSTANTS
    alice = alice
    bob = bob
    sa = sa
    sb = sb
    ub = ub
    RoomSockets = {sa, sb}
    UserSockets = {ub}
    UserOf <- MCUserOf
    MaxEvents = 1
INVARIANTS
    LeaksAreStale
    EveryoneIsServed
PROPERTIES
    RevokedIsClosed
