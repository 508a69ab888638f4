SPECIFICATION FairSpec
CONSTANTS
    Requests = {r1, r2}
    NoRequest = NoRequest
    ExtCap = 1
    CommandCap = 1
    EventCap = 1
    SwarmMayFail = TRUE
    ClaimMayPanic = TRUE
    ClientsGiveUp = TRUE
INVARIANTS TypeOK SyncReplyHeld RequestHeld
PROPERTIES LoopsReturnOrCycle RequestEnds
CHECK_DEADLOCK FALSE
