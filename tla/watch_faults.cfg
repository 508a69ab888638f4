SPECIFICATION FairSpec
CONSTANTS
    Conns = {c1, c2, c3}
    None = None
    Users = {u1}
    LogsPerBlock = 2
    MaxBlocks = 2
    MaxDrops = 2
INVARIANTS TypeOK NoLogSkipped
PROPERTIES LogHandledOrStuck
CHECK_DEADLOCK FALSE
