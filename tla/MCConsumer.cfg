SPECIFICATION FairSpec
CONSTANTS
    Partition <- MCPartition
    Log <- MCLog
    MaxFaults = 2
INVARIANTS TypeOK LossOnlyByDropOrPoison TxSplitOnlyByFlush RevokedStaysRevoked
PROPERTY EventuallyProcessed
