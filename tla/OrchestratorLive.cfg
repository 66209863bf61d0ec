\* Liveness, and the scope budget run out: one scope for two networks.
SPECIFICATION RunFairSpec
CONSTANTS
    m1 = m1
    Networks = {n1, n2}
    Addresses = {a1}
    Macs = {m1}
    Holder <- HolderOne
    Oversized = {n2}
    HasPeers = TRUE
    HasSources = TRUE
    MaxScopes = 1
    MaxIterations = 3
    MaxYield = 1
    MaxBuffered = 1
INVARIANTS
    ConvergedMeansDone
PROPERTIES
    RunEnds
