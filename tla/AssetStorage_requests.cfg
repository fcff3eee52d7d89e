SPECIFICATION FairSpec
CONSTANTS
    landmark = landmark
    notecard = notecard
    gesture = gesture
    panel = panel
    r1 = r1
    r2 = r2
    Asset = {landmark, notecard}
    Caller = {gesture, panel}
    Address = {r1, r2}
    MaxCalls = 3
    MaxFetches = 1
INVARIANTS AnsweredOnce NobodyWaitsInVain NamesItsAsset
PROPERTIES SuccessIsThere DownloadsEnd
CHECK_DEADLOCK FALSE
