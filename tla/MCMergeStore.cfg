SPECIFICATION Spec
CONSTANTS
    Address <- MCAddress
    None = None
    Cand <- MCCand
    AddressA <- MCAddressA
    AddressB <- MCAddressB
    BlockOf <- MCBlockOf
    Ops <- MCOps
    MaxFaults = 2
    MaxCorrections = 1
INVARIANTS StaleOnlyBySkipOrOverlap RolledBackHasNoEvidence ProcessedHasEvidence RedeliveryIsInvisible CorrectedUnlessBroughtAgain
PROPERTY AppendOnly
