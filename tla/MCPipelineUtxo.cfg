SPECIFICATION Spec
CONSTANTS
    Address <- MCAddress
    None = None
    Block <- MCBlock
    Parent <- MCParent
    Height <- MCHeight
    Deltas <- MCDeltas
    CutAt <- MCCutAt
    Enabled <- MCEnabled
    Confidence <- MCConfidence
    HubThreshold = 50
    HubDegreeSaturation = 10
    DustThreshold = 546
    EqualOutputMin = 2
    CollabInputMin = 2
    CollabOutputMin = 2
    RecurrenceMin = 1
    MinInteractions = 2
    Seeds <- MCSeeds
    LateLabels = {1}
    MaxOps = 5
    MaxFaults = 1
CHECK_DEADLOCK FALSE
INVARIANTS RegistryCoversRows ExcludedOnlyByCut CollaborativeOnlyBySplit
PROPERTY RetryGeneratesTheSame
