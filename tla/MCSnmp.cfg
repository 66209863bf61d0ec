SPECIFICATION mcSpec
CONSTANTS
    None = None
    Refused = Refused
    Mibs <- MCMibs
    MAX_STEPS = 7
    TOTAL_BUDGET = 2
    TIMEOUT = 2
    MaxLies = 1
    NoEngine = NoEngine
    TIME_WINDOW_SECONDS = 1
    BOOTS_CEILING = 4
    U64_MAX = 2
    MaxRequests = 2
    MaxClock = 3
    MAX_MESSAGE_BYTES = 8192
    Samples <- mcSamples
INVARIANTS
    WalkBounded
    CompleteIsWhole
    PartialSaysLess
    EngineTimeAndSalts
    WireAgrees
PROPERTIES
    HarvestEnds
