SPECIFICATION FairSpec
CONSTANTS
    Capacity = 4
    MaxBacklog = 3
    Catchup = 2
    Batch = 2
    Frames = 2
    Lease = 1
    MaxIndex = 7
INVARIANTS
    CursorsOrdered
    AcceptedSamplesAreOurs
PROPERTIES
    ImplementsStream
    ReaderKeepsUp
