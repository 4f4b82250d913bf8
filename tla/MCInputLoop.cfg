SPECIFICATION Spec
CONSTANTS
    q = q
    x = x
    macro = macro
    Usage = {q, x}
    Output = {macro}
    NoKey = NoKey
    NoToken = NoToken
    Token = {t1}
    ShortPress = 2
    LearnTimeout = 2
    StableRelease = 2
    Turn = 1
    Capacity = 2
    Candidates <- MCCandidates
INVARIANTS
    InputInvariant
    OnePressOneChange
PROPERTIES
    ReportsAreOrderly
    BounceNeverStops
