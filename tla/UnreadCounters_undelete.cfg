SPECIFICATION FairSpec
CONSTANTS
    Users = {alice, bob}
    Owner = alice
    Msgs = {m1}
    Requests = {r1, r2}
    NoUser = NoUser
    NoMsg = NoMsg
    NoDoc = NoDoc
    Overlap = FALSE
    MaxFaults = 0
PROPERTIES
    DeletedIsFinal
