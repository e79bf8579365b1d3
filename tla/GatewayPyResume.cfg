SPECIFICATION FairSpec
CONSTANTS
    MaxStarts = 1
    MaxStops = 0
    MaxRetries = 2
    MaxFaults = 0
    MayCancel = FALSE
    Overlap = FALSE
PROPERTIES ReconnectResumes
