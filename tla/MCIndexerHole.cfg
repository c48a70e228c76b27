SPECIFICATION Spec
CONSTANTS
    Block <- MCBlock
    Height <- MCHeight
    Parent <- MCParent
    NTx <- MCNTx
    NoBlock = NoBlock
    StartHeight = 1
    MaxMoves = 2
    MaxFaults = 1
INVARIANT NoHole
