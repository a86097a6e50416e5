SPECIFICATION Spec
CONSTANTS
    MaxFragment = 3
    ReqLen = 4
    HdrLen = 2
    BodyLen = 8
    Capacity = 5
    Peers <- AllPeers
INVARIANTS
    DeliveredInOrder
    SuccessMeansComplete
    ServerStopsForCause
    UndisturbedSucceeds
    UntrustedGetsNothing
PROPERTY
    BothFinish
