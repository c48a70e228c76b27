SPECIFICATION FairSpec
CONSTANTS
    Block <- MCBlock
    Height <- MCHeight
    Parent <- MCParent
    NTx <- MCNTx
    NoBlock = NoBlock
    StartHeight = 1
    MaxMoves = 2
    MaxFaults = 2
INVARIANTS TypeOK StoredPath LossOnlyByReceiptOrAck HoleOnlyByRewind OrphanOnlyByPublish RevokedOnlyByDelete
PROPERTIES ImplementsFeed Converges
