SPECIFICATION FairSpec
CONSTANTS
    Versions = 4
    PowerLosses = 2
    Good <- MCGood
    Crashing <- MCCrashing
INVARIANTS
    BootSlotComplete
    TrustedIsHealthy
PROPERTIES
    ImplementsContract
    UpdateEnds
    HealthyIsConfirmed
