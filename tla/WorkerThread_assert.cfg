SPECIFICATION Spec
CONSTANTS
    fetch = fetch
    decode = decode
    Object = {fetch}
    Hasty = {fetch}
    MaxRequests = 1
INVARIANTS DeletedOnRequest
