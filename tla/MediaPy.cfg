SPECIFICATION FairSpec
CONSTANTS
    MaxSkip = 1
    Silence = 1
    MaxSent = 3
    MaxInputs = 4
INVARIANTS KeysOfEpoch AnnouncedInStep OneMoreAtMost
PROPERTIES InWindowHeard StopEndsPlayback
CHECK_DEADLOCK FALSE
