SPECIFICATION Spec
CONSTANTS
    MaxRequests = 3
    Priorities = {1, 2}
    NewFlags <- MaybeAuto
    LateFlags <- JustAbort
    Pausing = TRUE
    GivesUp = FALSE
INVARIANTS
    QueueMatchesStatus
    FinishedOnce
PROPERTIES
    HighestFirst
    NoneFreedInProgress
