SPECIFICATION FairSpec
CONSTANTS
    Requests = {r1}
    NoRequest = NoRequest
    ExtCap = 1
    CommandCap = 1
    EventCap = 1
    SwarmMayFail = FALSE
    ClaimMayPanic = FALSE
    ClientsGiveUp = FALSE
PROPERTIES SwarmLoopRuns
CHECK_DEADLOCK FALSE
