SPECIFICATION Spec
CONSTANTS
    Ids <- MCIds
    Signers <- MCSigners
    Uris <- MCUris
    ChainOf <- MCChainOf
    Premints <- Contested
    NoPremint = NoPremint
    NoRow = NoRow
    I64Half = 4
    UseRpc = TRUE
    Claims <- MCClaims
    Mode = "check"
    PruneMinted = FALSE
    PersistState = TRUE
    Permits = 1
    MaxBatch = 2
    Capacity = 1
    MaxRestarts = 1
    DbMayFail = FALSE
    RpcMayFail = FALSE
    SwarmMayStop = FALSE
INVARIANTS UriUnique
