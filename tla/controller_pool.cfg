SPECIFICATION FairSpec
CONSTANTS
    Ids = {"A"}
    Signers <- MCSigners
    Uris <- MCUris
    ChainOf <- MCChainOf
    Premints <- Ranked
    NoPremint = NoPremint
    NoRow = NoRow
    I64Half = 4
    UseRpc = TRUE
    Claims <- MCClaims
    Mode = "check"
    PruneMinted = TRUE
    PersistState = FALSE
    Permits = 1
    MaxBatch = 2
    Capacity = 1
    MaxRestarts = 1
    DbMayFail = TRUE
    RpcMayFail = FALSE
    SwarmMayStop = FALSE
INVARIANTS QueuedBroadcastStored
PROPERTIES HandlerEnds ImplementsPool RetiredOnlyIfMinted ReturnsOnlyByError
CHECK_DEADLOCK FALSE
