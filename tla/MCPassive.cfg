SPECIFICATION ShareSpec
CHECK_DEADLOCK FALSE
CONSTANTS
    None = None
    Refused = Refused
    LocalMac <- mcLocal
    LinkFrames <- mcFrames
    MaxRead = 2
    MaxBatch = 2
    MAX_RECORDS = 9
    Lengths <- mcLengths
INVARIANTS
    FinishedIsComplete
    TopologyIsStated
    TakenAsObserved
PROPERTIES
    CaptureEnds
