SPECIFICATION InterrogationSpec
CONSTANTS
    None = None
    Refused = Refused
    Passes <- mcPasses
    LocalFaults <- mcLocalFaults
INVARIANTS
    FoundOrSaid
    StatedIsPromoted
    
    PassKeepsTheRest
CHECK_DEADLOCK FALSE
