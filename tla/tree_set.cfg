SPECIFICATION Spec
CONSTANTS
    Elements <- MCElements
    Labelled <- MCLabelled
    Hashes <- MCHashes
    PeerContents <- MCPeerContents
    PeerHashes <- MCPeerHashes
INVARIANTS TypeOK DiffExact LabelsCompared ExtractDiffExact
PROPERTIES StaleOnlyByMixing
