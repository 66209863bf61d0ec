SPECIFICATION mcSpec
CONSTANTS
    None = None
    Refused = Refused
    OurMac <- mcOurMac
    OurAddress <- mcOurAddress
    ScopeIndex = 3
    Zone = "en0"
    Frames <- mcFrames
    Cases <- mcCases
    MaxFrames = 2
    Cidr <- mcCidr
    Hosts <- mcHosts
    Ports = {22, 443}
    Bindings <- mcBindings
    Caches <- mcCaches
    Answers <- mcAnswers
    Blocks <- mcBlocks
    OCTET = 4
    WINDOW = 1
    max_candidates = 10
    Vantages <- mcVantages
    Worlds <- mcWorlds
    VantageName = "en0"
    VantageAddress <- mcOurAddress
    VantageMac <- mcOurMac
    VantageIndex = 3
    Scopes <- mcScopes
    Announcements <- mcAnnouncements
    Descriptors <- mcDescriptors
    MndpPackets <- mcMndp
    Advertisements <- mcAdvertisements
    InformReplies <- mcInforms
    Transaction = 7
    Paths <- mcPaths
    MAX_HOPS = 4
    Identifier = 1
INVARIANTS
    ConfirmedByAsking
    ReachableMeansAnswered
    AskedAsPlanned
    RepliesAreOurs
