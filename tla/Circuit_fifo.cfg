SPECIFICATION Spec
CONSTANTS
    Viewer = Viewer
    Simulator = Simulator
    LL_MAX_OUT_PACKET_ID = 8
    Retries = {1}
    MaxReliable <- ViewerTwice
    MaxUnreliableID <- OnlySimulator
    Closing = {FALSE}
    MaxPings <- OnlyViewer
    MaxInFlight = 2
    Reorder = {Viewer}
    Duplicate = {Viewer}
INVARIANTS TypeOK HandledAtMostOnce
CHECK_DEADLOCK FALSE
