SPECIFICATION Spec
CONSTANTS
    old = old
    new = new
    Node = {old, new}
    Endpoint = {e1}
    Subject = {s1}
    Conn = {c1, c2}
    Open = {o1, o2}
    NoOpen = NoOpen
    Suspendable = {}
    Entitled = {s1}
    Mode <- LocalThenPdp
    Ttl <- SameTtl
    MissTtl = 1
    Lookups = 1
    Misses = 1
    MaxTime = 2
    MaxFaults = 0
SYMMETRY Symmetric
PROPERTIES
    OpenedIsAccepted
