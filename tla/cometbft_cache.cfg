SPECIFICATION FairSpec
CONSTANTS
    MaxHeight = 6
    MaxPruned = 2
    Threshold = 2
    BatchSize = 2
PROPERTIES
    EventuallyCached
    RefinesBatched
