SPECIFICATION MCSpec
CONSTANTS
    alice = alice
    bob = bob
    Users = {alice, bob}
    Owner = alice
    Msgs = {m1, m2}
    Requests = {r1, r2}
    NoRoom = NoRoom
    PinLimit = 1
    MaxFaults = 2
    Clients = {c1, c2}
    Editors = {e1, e2}
    MaxRetries = 2
    MaxRooms = 4
    Pair = {alice, bob}
    Notes = {n1, n2}
    Markers = {k1}
    NoNote = NoNote
    FriendReqs = {f1, f2, f3}
    Handlers = {h1}
    NoReq = NoReq
    Readers = {p1, p2}
    NoSub = NoSub
    Days = {1, 2}
    MaxDay = 5
INVARIANTS
    StrangersStayOut
    DeletedIsCleaned
    SoloCacheIsExact
    SoloRoomIsCoherent
    RetriesAreEarned
    NothingAcrossBlock
    ExpiryIsEarned
PROPERTIES
    
    AccessIsLost
