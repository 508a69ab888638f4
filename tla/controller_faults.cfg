SPECIFICATION Spec
CONSTANTS
    Ids = {"A"}
    Signers <- MCSigners
    Uris <- MCUris
    ChainOf <- MCChainOf
    Premints <- Mixed
    NoPremint = NoPremint
    NoRow = NoRow
    I64Half = 4
    UseRpc = TRUE
    Claims <- Vouching
    Mode = "trust"
    PruneMinted = FALSE
    PersistState = TRUE
    Permits = 2
    MaxBatch = 2
    Capacity = 1
    MaxRestarts = 1
    DbMayFail = TRUE
    RpcMayFail = TRUE
    SwarmMayStop = TRUE
INVARIANTS TypeOK RowsAgree QueuedBroadcastStored AckedIsStored
PROPERTIES VersionsRise SignerChangesByErrorOrRace SeenStaysSeen
CHECK_DEADLOCK FALSE
