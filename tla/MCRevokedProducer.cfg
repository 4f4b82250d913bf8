\* The app of a user who has left the console keeps writing.
SPECIFICATION Spec
CONSTANTS
    Users = {u1, u2}
    Nobody = nobody
    Brokers = {b1}
    MaxStarts = 1
INVARIANT RevokedIsMuted
