\* One peer reached over two connections, sequences 0..1, one fault: a lost
\* task, a failed write or a crash between any two steps.  MaxTokens covers
\* one reservation for each sequence and one more for the fault.
SPECIFICATION FairSpec
CONSTANTS
    Peers = {p1}
    Seeds = {s1}
    NoSeed = NoSeed
    MaxSequence = 1
    Connections = {c1, c2}
    NoReceipt = NoReceipt
    MaxTokens = 3
    MaxFaults = 1
    TasksMayDie = TRUE
INVARIANTS
    TypeOK
    SerialPerPeer
    NothingLost
    CountsAgree
PROPERTIES
    AppliedOnce
    ResendLands
