SPECIFICATION FairSpec
CONSTANTS
    g = g
    v = v
    Validators = {g, v}
    Genesis = {g}
    Pipeline = 2
    Blocks <- MCBlocks
    MaxBlocks = 4
    MaxEpoch = 3
    MaxFaults = 1
INVARIANTS
    PanicsOnlyInSnapshots
    RowsListed
PROPERTIES
    OnlyLaggardsRevert
    EventuallyIndexed
CHECK_DEADLOCK FALSE
