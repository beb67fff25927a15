SPECIFICATION FairSpec
CONSTANTS
    MaxOps = 2
    MaxChunks = 2
INVARIANTS
    SuccessIsTrue
    NothingLeftOver
PROPERTIES
    TransferEnds
