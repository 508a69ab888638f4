SPECIFICATION Spec
CONSTANTS
    TrustNames = {"a", "b"}
    Accounts = {o1, o2}
    Nobody = Nobody
    MaxBatch = 2
    MaxAdded = 2
    Peers = {"p1", "p2"}
    NoPeer = NoPeer
    Conns = {c1, c2, c3}
    PeerLimit = 1
    Relayed = {"r"}
    Direct = {"d", "e"}
    Configured = {"d"}
    CustomNodes <- MCCustomNodes
    PeerOf <- MCPeerOf
    WithId = {"a"}
SYMMETRY MCSymmetry
ACTION_CONSTRAINT MCReadFirst
VIEW MCView
INVARIANTS TypeOK CountDriftsByStrays TrustedInLogs PeerLimitHeld ExternalAccountedFor
PROPERTIES BootListCurrent
