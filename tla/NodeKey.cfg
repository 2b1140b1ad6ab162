SPECIFICATION FairIdentitySpec
CONSTANTS
    i1 = i1
    i2 = i2
    i3 = i3
    NoKey = NoKey
    Instance = {i1, i2, i3}
    MaxStarts = 2
INVARIANTS
    OneIdentity
PROPERTIES
    EventuallyRuns
CHECK_DEADLOCK FALSE
