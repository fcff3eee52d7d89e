SPECIFICATION FairSpec
CONSTANTS
    Viewer = Viewer
    Simulator = Simulator
    LL_MAX_OUT_PACKET_ID = 8
    Retries = {0, 1}
    MaxReliable <- ViewerTwice
    MaxUnreliableID <- None
    Closing = {FALSE, TRUE}
    MaxPings <- None
    MaxInFlight = 2
    Reorder = {Viewer, Simulator}
    Duplicate = {}
INVARIANTS UnackedAccounting NothingStranded AckedWasHandled
PROPERTIES ImplementsDelivery EventuallyAnswered
CHECK_DEADLOCK FALSE
