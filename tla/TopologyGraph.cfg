\* Twelve sets of evidence, each absorbed in every order with merges anywhere,
\* and all sets of role signals.
SPECIFICATION mcSpec
CONSTANTS
    m1 = m1
    m2 = m2
    x = x
    y = y
    z = z
    l = l
    net = net
    lo = lo
    p = p
    en0 = en0
    en1 = en1
    Local = Local
    NoZone = NoZone
    Nobody = Nobody
    Macs = {m1, m2}
    Addresses = {x, y, z, l}
    GloballyUnique = {m1, z}
    LinkLocal = {l}
    NotTopology = {lo}
    Alphabets <- WithRoles
INVARIANTS
    DisputesSound
    AnsweredNowHolds
    PeersStayApart
    FinalReport
PROPERTIES
    NothingTakenBack
