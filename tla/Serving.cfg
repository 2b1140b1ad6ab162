SPECIFICATION FairSpec
CONSTANTS
    h1 = h1
    h2 = h2
    f1 = f1
    f2 = f2
    Hash = {h1, h2}
    Fetch = {f1, f2}
    Want <- Shared
    Small = {h2}
    Storable <- BlobAndDocument
    Objects = {"good", "bad"}
    Outboards = {"short", "bad"}
    Withheld = {h2}
    Serves = 2
    Backfills = 1
    SizesCapacity = 1
    BadCapacity = 3
    MaxEdits = 1
    MaxFaults = 1
PROPERTIES
    EventuallyServed
    
    WithheldIsNotServed
    CorruptIsRefused
