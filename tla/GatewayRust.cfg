SPECIFICATION FairSpec
CONSTANTS
    MaxConns = 3
    MaxSeq = 2
    MaxFaults = 1
    MaxBeats = 1
    ReadyKinds = {"full", "bad"}
    Unreachable = FALSE
    MayShutdown = TRUE
INVARIANTS RunnerInv
PROPERTIES SessionKept ImplementsEventStream ZombieRecycled ShutdownStops
