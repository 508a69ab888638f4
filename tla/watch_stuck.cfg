SPECIFICATION FairSpec
CONSTANTS
    Conns = {c1, c2, c3}
    None = None
    Users = {}
    LogsPerBlock = 2
    MaxBlocks = 2
    MaxDrops = 1
PROPERTIES CheckerReconnects
CHECK_DEADLOCK FALSE
