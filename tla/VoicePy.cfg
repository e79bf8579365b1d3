SPECIFICATION FairSpec
CONSTANTS
    Migs = {m1}
    MaxFaults = 2
    MaxSockets = 3
INVARIANTS DrivenByOne MediaOfOneSession ClosedIsQuiet
PROPERTIES LostIsRecovered
CHECK_DEADLOCK FALSE
