SPECIFICATION Spec
CONSTANTS
    MAX_QUEUED_ENVELOPES = 2
    MAX_TOTAL_BYTES = 4
    MAX_MAILBOXES = 2
    MAX_ENVELOPE_BYTES = 3
    MAX_FRAME_BYTES = 3
    ENVELOPE_TTL = 2
    SEALING_BYTES = 1
    U64_MAX = 2
    Peers = {p1, p2}
    NoPeer = none
    Sizes = {1, 2}
    MaxMessages = 3
    MaxClock = 2
    MaxFailures = 1
INVARIANTS
    HeldWithinLimits
    NonceNeverReused
    OpenedInOrder
PROPERTIES
    RelayIsMailbox
CHECK_DEADLOCK FALSE
SYMMETRY MCSymmetry
