\* Two users' apps, two driver processes that may overlap, two starts.
SPECIFICATION FairSpec
CONSTANTS
    Users = {u1, u2}
    Nobody = nobody
    Brokers = {b1, b2}
    MaxStarts = 2
INVARIANTS
    BrokerInvariant
PROPERTIES
    ConsoleUserIsAnswered
    ServedAppIsNotSilenced
