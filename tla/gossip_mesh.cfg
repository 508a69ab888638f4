SPECIFICATION FairSpec
CONSTANTS
    Nodes = {"n1", "n2", "n3", "n4"}
    Links <- Paw
    SyncLinks <- None
    Ids = {"A"}
    Clients <- AtBothEnds
    MaxVersion = 1
    Watchers = {"n1"}
    TrustedBy <- NoTrust
    LogOffsets = {0}
    MaxExpiries = 1
INVARIANTS TypeOK FirstVersionOnItsWay
PROPERTIES  FirstVersionSpreads
CHECK_DEADLOCK FALSE
