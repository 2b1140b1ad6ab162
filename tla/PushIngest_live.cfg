SPECIFICATION FairSpec
CONSTANTS
    p1 = p1
    p2 = p2
    h1 = h1
    h2 = h2
    Push = {p1, p2}
    Hash = {h1}
    HashOf <- OneBlob
    Oversize = {h1}
    ValidTdf = {h1}
    MaxConcurrentIngests = 1
    MaxFaults = 1
INVARIANTS
    OnlyAcceptedStored
PROPERTIES
    CollectorSparesPending
    ImplementsStaging
    
    StagedCopyCollected
