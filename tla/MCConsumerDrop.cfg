SPECIFICATION Spec
CONSTANTS
    Partition <- PlainPartition
    Log <- PlainLog
    MaxFaults = 1
INVARIANT CommittedIsProcessed
