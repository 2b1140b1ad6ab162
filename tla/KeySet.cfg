SPECIFICATION FairKeySpec
CONSTANTS
    k1 = k1
    k2 = k2
    k3 = k3
    v1 = v1
    v2 = v2
    v3 = v3
    Kid = {k1, k2, k3}
    Usable = {k1, k2}
    Verification = {v1, v2, v3}
    Token <- Presented
    Rotation <- Rotations
    Interval = 3
    FetchTimeout = 2
    MaxFaults = 1
PROPERTIES
    KeysNeverGoBack
    PublishedVerifies
