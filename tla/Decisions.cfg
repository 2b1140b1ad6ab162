SPECIFICATION FairSpec
CONSTANTS
    c1 = c1
    c2 = c2
    r1 = r1
    r2 = r2
    r3 = r3
    NoCall = NoCall
    Call = {c1, c2}
    Requests <- TwoBatches
    MaxEvaluations = 2
    Lifetimes = {7, 13}
    Margin = 6
    Floor = 12
    Timeout = 1
INVARIANTS
    DecisionsAreTheServices
PROPERTIES
    MintsAreSpaced
    TokenIsLive
    CallsEnd
