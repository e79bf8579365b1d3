SPECIFICATION FairSpec
CONSTANTS
    Limit = 2
    Window = 2
    Requests = {r1, r2}
    Routes = {k1, k2}
    GlobalWindow = 2
    MaxRetries = 2
    MaxFaults = 2
INVARIANTS NotMoreThanAnnounced LimitedOnlyWhenBlind
PROPERTIES CallsReturn
