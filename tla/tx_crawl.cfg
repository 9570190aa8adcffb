SPECIFICATION Spec
CONSTANTS
    p = p
    q = q
    atom = atom
    osmo = osmo
    Packets = {p, q}
    Tokens = {atom, osmo}
    TokenOf <- MCTokenOf
    Epochs = {1, 2}
    CodeOf <- EachItsCode
    MaxHeight = 3
    EpochOf <- TwoEpochs
    Sends = {1, 2}
    Answers = {3, 9}
    Statuses = {"success", "timeout"}
    Fails = {3, 9}
    Receives = {2}
    Chains <- MCChains
    FromBlock = 1
    MaxBackfills = 1
INVARIANTS
    IndexedPrefix
    FlowsCountEvents
    FlowsNeverLost
    PacketRows
    SettledStatus
    FreshChecksums
    WorksOnNextBlock
