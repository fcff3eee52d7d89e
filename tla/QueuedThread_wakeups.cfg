SPECIFICATION FairSpec
CONSTANTS
    MaxRequests = 2
    Priorities = {1, 2}
    NewFlags <- MaybeAuto
    LateFlags <- Aborts
    Pausing = FALSE
    GivesUp = FALSE
PROPERTIES
    EventuallyFinished
    WaitEnds
    ShutdownEnds
