SPECIFICATION Spec
CONSTANTS
    p1 = p1
    p2 = p2
    h1 = h1
    h2 = h2
    Push = {p1, p2}
    Hash = {h1, h2}
    HashOf <- OneEach
    Oversize = {}
    ValidTdf = {h1}
    MaxConcurrentIngests = 1
    MaxFaults = 1
INVARIANTS
    BlobHasOutboard
    OnlyAcceptedStored
    RecordsNameStoredBlobs
