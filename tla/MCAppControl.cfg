SPECIFICATION FairSpec
CONSTANTS
    MaxQueue = 2
    MaxNotices = 2
    MaxFaults = 2
INVARIANTS
    LiveWasGranted
PROPERTIES
    PressFollowsScreen
    CommandsAreSent
    StallIsRebuilt
CHECK_DEADLOCK FALSE
