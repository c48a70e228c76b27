SPECIFICATION Spec
CONSTANTS
    Address <- MCAddress
    Row <- MCRow
    Certain <- MCCertain
    Float <- MCFloat
    Numeric <- MCNumeric
    Threshold = {6, 9}
    MaxRows = 4
INVARIANTS SameIdIffLinked NeverOverstated ThresholdHolds RecordedAgainChangesNothing RollbackStaysInItsCluster
CHECK_DEADLOCK FALSE
