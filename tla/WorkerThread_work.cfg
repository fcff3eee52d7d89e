SPECIFICATION FairSpec
CONSTANTS
    fetch = fetch
    decode = decode
    Object = {fetch, decode}
    Hasty = {decode}
    MaxRequests = 3
INVARIANTS WorkingMeansInWork HandleFindsRequest EndedWhenDone PatientDeletedOnRequest
PROPERTIES EventuallyDeleted
