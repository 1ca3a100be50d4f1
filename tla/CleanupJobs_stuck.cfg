SPECIFICATION FairSpec
CONSTANTS
    jm = jm
    jr = jr
    m1 = m1
    m2 = m2
    Jobs <- MCJobs
    RoomJobs <- MCRoomJobs
    Messages <- MCMessages
    Payload <- MCPayload
    Workers = {w1, w2}
    MaxAttempts = 2
    Limit = 2
    TypesenseOpen = FALSE
    AuthzOpen = TRUE
    MaxFaults = 1
PROPERTIES
    EveryJobSettles
