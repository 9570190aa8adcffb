SPECIFICATION FairSpec
CONSTANTS
    Nothing = Nothing
    Chains <- MCChains
    NodeParameters <- MCNodeParameters
    PerPage = 1
    MaxFaults = 1
INVARIANTS
    AnswersInStep
    PanicsExplained
    NothingSkipped
PROPERTIES
    RefreshedParameters
    WaitsForEpochOnly
CHECK_DEADLOCK FALSE
