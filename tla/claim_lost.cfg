SPECIFICATION FairSpec
CONSTANTS
    Nodes = {"n1", "n2"}
    Links <- Edge
    SyncLinks <- None
    Ids = {"A", "B"}
    Clients <- Everything
    MaxVersion = 1
    Watchers = {"n1"}
    TrustedBy <- NoTrust
    LogOffsets = {0}
    MaxExpiries = 0
PROPERTIES MintedRetired
CHECK_DEADLOCK FALSE
