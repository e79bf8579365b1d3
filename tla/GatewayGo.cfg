SPECIFICATION FairSpec
CONSTANTS
    MaxConns = 3
    MaxSeq = 2
    MaxFaults = 1
    MaxBeats = 1
    ReadyKinds = {"full"}
    HelloMayHang = FALSE
    MayCancel = TRUE
INVARIANTS GatewayInv ClosedWithReason
PROPERTIES SessionKept ImplementsEventStream EventuallyDelivered CancelStops
