SPECIFICATION Spec
CONSTANTS
    MaxRequests = 1
    Priorities = {1}
    NewFlags <- NoFlags
    LateFlags = {}
    Pausing = FALSE
    GivesUp = TRUE
PROPERTIES
    NoneFreedInProgress
