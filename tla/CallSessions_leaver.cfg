SPECIFICATION FairSpec
CONSTANTS
    Users = {alice, bob}
    Owner = alice
    Requests = {r1}
    MaxCalls = 1
    Failures = FALSE
INVARIANTS
    RemovedMemberIsOut
