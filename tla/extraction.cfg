SPECIFICATION Spec
CONSTANTS
    FarEnd <- Ends
    Raws <- MCRaws
    MaxBlocks = 2
    MaxPerBlock = 2
    MaxTxs = 3
INVARIANTS
    SuccessSound
    ChangesListed
    TokensListed
    ProposalIds
    PoolListed
CHECK_DEADLOCK FALSE
