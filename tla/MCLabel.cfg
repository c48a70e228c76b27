SPECIFICATION FairSpec
CONSTANTS
    Labels <- MCLabels
    Chain <- MCChain
    NoChain = NoChain
    ChainOf <- MCChainOf
    TargetOf <- MCTargetOf
    CategoryOf <- MCCategoryOf
    Given <- MCGiven
    MaxFaults = 1
    MaxEdits = 1
INVARIANT DecayedOnce
PROPERTIES RevivedOnlyByRace ContradictionsSettle OverdueIsDecayed
