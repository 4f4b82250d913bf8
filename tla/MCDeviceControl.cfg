SPECIFICATION Spec
CONSTANTS
    LiveLease = 2
    MutedLease = 1
    Turn = 1
    HarnessAttached = TRUE
INVARIANTS
    CaptureWithinLease
    CaptureAuthorised
PROPERTY
    ImplementsAuthority
