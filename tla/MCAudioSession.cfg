SPECIFICATION FairSpec
CONSTANTS
    Sessions = 2
    Drops = 1
    RingCapacity = 1
    TestPackets = 5
    EndPackets = 3
    Losses = 1
INVARIANTS
    SessionInvariant
    LiveUnderOwnSession
CHECK_DEADLOCK FALSE
PROPERTIES
    RecordingCloses
    HandshakeCompletes
