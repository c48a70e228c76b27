SPECIFICATION Spec
CONSTANTS
    Address <- MCAddress
    None = None
    Cand <- MCCand
    AddressA <- MCAddressA
    AddressB <- MCAddressB
    BlockOf <- MCBlockOf
    Ops <- MCOps
    MaxFaults = 0
    MaxCorrections = 1
    Strong <- MCStrong
    Rank <- MCRank
    Limit = 2
    EvidenceLimit = 4
INVARIANTS TypeOK SameIsNotInvented MissedOnlyAfterLeave EvidenceExplainsCluster ScrapeMissesNoRow
