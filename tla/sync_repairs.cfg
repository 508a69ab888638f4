SPECIFICATION FairSpec
CONSTANTS
    Nodes = {"n1", "n2", "n3"}
    Links <- Line
    SyncLinks <- FirstAsks
    Ids = {"A", "B"}
    Clients <- OnlyA
    MaxVersion = 2
    Watchers = {"n1"}
    TrustedBy <- EndTrusts
    LogOffsets = {0, 1}
    MaxExpiries = 1
PROPERTIES NodesArePools RecentUpdateSpreads VerifiableMintRetired TrustedMintRetired
CHECK_DEADLOCK FALSE
