\* Two networks, one device known by address and by hardware identity, three
\* passes and a scope budget that can run out; peers report networks too.
SPECIFICATION RunSpec
CONSTANTS
    m1 = m1
    Networks = {n1, n2}
    Addresses = {a1}
    Macs = {m1}
    Holder <- HolderOne
    Oversized = {n2}
    HasPeers = TRUE
    HasSources = TRUE
    MaxScopes = 2
    MaxIterations = 3
    MaxYield = 1
    MaxBuffered = 2
INVARIANTS
    ConvergedMeansDone
    ReportComplete
PROPERTIES
    NeverAskedAgain
