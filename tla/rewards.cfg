SPECIFICATION Spec
CONSTANTS
    d1 = d1
    d2 = d2
    Pairs = {d1, d2}
    MaxEpoch = 3
    MaxClaims = 1
    MaxRare = 1
SYMMETRY Symmetry
INVARIANTS
    AmountSound
    ClaimedNotOffered
    MarkedWasClaimed
    EpochsContiguous
