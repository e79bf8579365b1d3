SPECIFICATION FairSpec
CONSTANTS
    MaxStarts = 2
    MaxStops = 1
    MaxRetries = 2
    MaxFaults = 2
    MayCancel = TRUE
    Overlap = FALSE
INVARIANTS LifecycleInv
PROPERTIES LostConnectionEnds
