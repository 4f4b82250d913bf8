SPECIFICATION FairSpec
CONSTANTS
    Content <- MCContent
    FactoryContent = "factory"
    DefaultContent = "defaults"
    Chunks = 2
    QueueLength = 2
    MaxVersion = 4
    MaxWrites = 4
    MaxFaults = 2
INVARIANTS
    SeenIsStored
PROPERTIES
    ImplementsRegister
    EventuallySynced
CHECK_DEADLOCK FALSE
