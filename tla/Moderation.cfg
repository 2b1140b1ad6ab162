SPECIFICATION FairModerationSpec
CONSTANTS
    n1 = n1
    n2 = n2
    s = s
    b = b
    Node = {n1, n2}
    Key = {s, b}
    Op = {o1, o2}
    NoOp = NoOp
    Rank <- SuspensionThenBlock
    MaxFailures = 1
INVARIANTS
    RecordsAudited
PROPERTIES
    OnlyStaleReloadsForget
    ViewsConverge
