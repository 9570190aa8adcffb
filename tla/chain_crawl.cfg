SPECIFICATION Spec
CONSTANTS
    a1 = a1
    s1 = s1
    s2 = s2
    v1 = v1
    v2 = v2
    Accounts = {a1}
    Sources = {s1}
    Validators = {v1, v2}
    Staked <- OnePair
    Steady <- OtherPair
    Epochs = {1, 2, 3}
    CodeOf <- Upgraded
    UnbondingLen = 1
    MaxHeight = 4
    Histories <- Small
    Chains <- MCChains
    Limit = 2
    MaxPruned = 1
    MaxRare = 1
INVARIANTS
    BalanceFresh
    BondsFresh
    UnbondsFresh
PROPERTIES
    NeverBack
    OneByOne
