\* Two peers, cursors and outbound numbers 0..2, two seeds: enough for a
\* write to fail or crash between two successful ones on each field.
SPECIFICATION StoreSpec
CONSTANTS
    Peers = {p1, p2}
    Seeds = {s1, s2}
    NoSeed = NoSeed
    MaxSequence = 2
INVARIANTS
    MemoryAgreesWithDisk
    DurableHistory
