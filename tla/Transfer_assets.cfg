SPECIFICATION FairSpec
CONSTANTS
    urgent = urgent
    later = later
    Nothing = Nothing
    Transfer = {urgent, later}
    NumPackets <- OneAndTwo
    Priority <- Urgency
    LL_MAX_DELAYED_PACKETS = 0
    InventoryItem = {urgent}
    Unlucky = {later}
    MaxDuplicates = 1
INVARIANTS TempFilesGone NothingHeldBack
PROPERTIES EventuallyAnswered ImplementsService
CHECK_DEADLOCK FALSE
