SPECIFICATION Spec
CONSTANTS
    p = p
    q = q
    atom = atom
    osmo = osmo
    Packets = {p, q}
    Tokens = {atom, osmo}
    TokenOf <- MCTokenOf
    Epochs = {1, 2}
    CodeOf <- EachItsCode
    MaxHeight = 3
    EpochOf <- TwoEpochs
    Sends = {1, 2}
    Answers = {2, 3}
    Statuses = {"success"}
    Fails = {3, 9}
    Receives = {2}
    Chains <- MCChains
    FromBlock = 1
    MaxBackfills = 1
INVARIANT ReindexAccepted
