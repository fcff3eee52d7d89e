SPECIFICATION FairSpec
CONSTANTS
    Viewer = Viewer
    Simulator = Simulator
    a = a
    b = b
    Hosts = {Viewer, Simulator}
    Xfers = {a, b}
    NoHost = NoHost
    Requester <- Downloads
    Source <- OneSource
    Packets <- ThreeAndOne
    Disks <- SomeFail
    AckThrottling = {Viewer}
    mMaxIncomingXfers = 1
    mMaxOutgoingXfersPerCircuit = 1
    LL_PACKET_RETRY_LIMIT = 0
    Networks = {"fifo", "lossy"}
    CircuitsDie = TRUE
    MaxInFlight = 2
INVARIANTS TypeOK SuccessMeansWhole AnsweredOnce SlotsUsed SenderForgetsNobody
PROPERTIES EventuallyAnswered
CHECK_DEADLOCK FALSE
