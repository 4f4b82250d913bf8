SPECIFICATION FairFlowSpec
CONSTANTS
    ReorderDepth = 2
    ConcealedGap = 2
    StartupFrames = 3
    Lag = 2
    EndMarkers = 2
    MaxSequence = 7
    MaxAir = 2
INVARIANTS
    BufferInvariant
    NoFrameInTimeIsLost
    EndReleasesAll
PROPERTIES
    DrainSparesNewRecording
    MicrophoneIsReleased
CHECK_DEADLOCK FALSE
