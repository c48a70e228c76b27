SPECIFICATION Spec
CONSTANTS
    Address <- MCAddress
    None = None
    Nobody = Nobody
    Block <- MCBlock
    Parent <- MCParent
    Height <- MCHeight
    Deltas <- MCDeltas
    CutAt <- MCCutAt
    Enabled <- MCEnabled
    Confidence <- MCConfidence
    HubThreshold = 50
    HubDegreeSaturation = 8
    DustThreshold = 0
    EqualOutputMin = 3
    CollabInputMin = 3
    CollabOutputMin = 3
    RecurrenceMin = 2
    MinInteractions = 2
    Seeds <- MCSeeds
    LateLabels = {1}
    MaxOps = 6
    MaxFaults = 1
CHECK_DEADLOCK FALSE
INVARIANTS FundingAtOneHeight FundedIsNewUnlessOrphaned
PROPERTY PopularNeverMerged
