SPECIFICATION LiveSpec
CONSTANTS
    LiveLease = 2
    MutedLease = 1
    Turn = 1
    HarnessAttached = FALSE
PROPERTIES
    SilenceClosesCapture
    HeartbeatsRestoreLink
