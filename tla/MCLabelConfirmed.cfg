SPECIFICATION FairSpec
CONSTANTS
    Labels <- MCLabels
    Chain <- OneChain
    NoChain = NoChain
    ChainOf <- OneChainOf
    TargetOf <- OneTargetOf
    CategoryOf <- MCCategoryOf
    Given <- NothingGiven
    MaxFaults = 0
    MaxEdits = 0
PROPERTY ConflictIsNeverConfirmed
