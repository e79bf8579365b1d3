SPECIFICATION FairSpec
CONSTANTS
    Limit = 1
    Window = 2
    Calls = {c1, c2}
    Bases = {"/channels/{channel_id}"}
    Paths = {"/messages", "/messages/{}/crosspost"}
    Items = {1, 2}
    GlobalWindow = 2
    MaxRetries = 2
    MaxFaults = 1
INVARIANTS CallOrderKept WindowRespected
PROPERTIES CallsReturn
