\* A task dropped between prepare and commit.
SPECIFICATION Spec
CONSTANTS
    Peers = {p1}
    Seeds = {s1}
    NoSeed = NoSeed
    MaxSequence = 1
    Connections = {c1, c2}
    NoReceipt = NoReceipt
    MaxTokens = 3
    MaxFaults = 1
    TasksMayDie = TRUE
INVARIANTS
    DroppedIsReofferable
