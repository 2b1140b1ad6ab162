SPECIFICATION Spec
CONSTANTS
    old = old
    new = new
    Node = {old, new}
    Endpoint = {e1, e2}
    Subject = {s1}
    Conn = {c1, c2}
    Open = {o1}
    NoOpen = NoOpen
    Suspendable = {s1}
    Entitled = {s1}
    Mode <- ShadowThenPdp
    Ttl <- HalvedTtl
    MissTtl = 1
    Lookups = 1
    Misses = 1
    MaxTime = 2
    MaxFaults = 1
SYMMETRY Symmetric
INVARIANTS
    SessionsGranted
    AcceptedIsLive
    PdpPushesPermitted
