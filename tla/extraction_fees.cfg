SPECIFICATION Spec
CONSTANTS
    FarEnd <- Ends
    Raws <- MCRaws
    MaxBlocks = 1
    MaxPerBlock = 2
    MaxTxs = 2
INVARIANT FeePaymentsCount
CHECK_DEADLOCK FALSE
